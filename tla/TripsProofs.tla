----------------------------- MODULE TripsProofs -----------------------------
(***************************************************************************)
(* For any cities, fares and searches: the second pass of the wheel's batch *)
(* adds trips by the hub and touches nothing that the first one has found,  *)
(* the wheel lands on the first city with a road, and what is offered costs *)
(* the lowest fares that were found.                                        *)
(***************************************************************************)
EXTENDS TripsProps, FiniteSetTheorems, SequenceTheorems, TLAPS

Batch == request.kind = "batch"

ByHub(i) == Complete(options[i]) /\ options[i].via # None

\* A place has no trip before its goroutine has ended, and one by the hub only
\* after the second pass; that pass begins when no goroutine of the first runs
\* and fewer than two places have a road.
Second == {"relay", "relayed"}

PlaceInv(i) ==
  /\ stage[i] \in {"direct", "feed", "relay"} => ~Complete(options[i])
  /\ Batch => /\ stage[i] # "feed"
              /\ ByHub(i) => stage[i] = "relayed"
              /\ stage[i] \in Second => \A j \in Places : stage[j] \in Second
              /\ stage[i] = "relay" \/ ByHub(i) => Cardinality(Roads) < 2

IInv ==
  /\ DOMAIN options = Places /\ DOMAIN stage = Places
  /\ Batch => Start \in Starts
  /\ ForTrips => \A i \in Places : PlaceInv(i)

\* Nothing is priced when the request arrives.
LEMMA InitInv == Init => IInv
<1> SUFFICES ASSUME Init PROVE IInv
  OBVIOUS
<1>1. /\ stage = [i \in Places |-> "direct"]
      /\ options = [i \in Places |-> None]
  BY DEF Init
<1>2. \A i \in Places : ~Complete(options[i]) /\ stage[i] = "direct"
  BY <1>1 DEF Complete
<1>3. Batch => Start \in Starts
  BY DEF Init, Start, Batch
<1>4. DOMAIN options = Places /\ DOMAIN stage = Places
  BY <1>1
<1> QED BY <1>2, <1>3, <1>4 DEF IInv, PlaceInv, ByHub, Second

\* Only the place that goes on changes.
LEMMA LeavesOthers ==
  ASSUME IInv, NEW k \in Places, NEW o, NEW next, Leaves(k, o, next)
  PROVE  /\ options'[k] = o /\ stage'[k] = next
         /\ \A j \in Places : j # k => options'[j] = options[j] /\ stage'[j] = stage[j]
         /\ DOMAIN options' = Places /\ DOMAIN stage' = Places
         /\ Places' = Places /\ request' = request
  BY DEF IInv, Leaves, Places

\* The first pass for a place ends with a trip that has a road of its own; no
\* second pass is under way then.
LEMMA DirectStep ==
  ASSUME IInv, ForTrips, NEW k \in Places, Direct(k)
  PROVE  IInv' /\ TripsStay
<1>1. stage[k] = "direct" /\ ~Complete(options[k])
  BY DEF Direct, IInv, PlaceInv
<1>2. PICK there \in Answers, back \in Answers, stay \in Hotels :
        LET o == Trip(pool[k], there, back, stay)
        IN IF Batch \/ Complete(o) THEN Leaves(k, o, "done")
           ELSE Leaves(k, None, IF Hub \in {Start, pool[k]} THEN "done" ELSE "feed")
  BY DEF Direct, Batch
<1> DEFINE o == Trip(pool[k], there, back, stay)
<1>3. o.via = None
  BY DEF Trip
<1>4. ~Complete(None)
  BY DEF Complete
<1>5. PICK r, next : /\ Leaves(k, r, next)
                     /\ next \in {"done", "feed"}
                     /\ \/ r = o /\ next = "done"
                        \/ r = None /\ ~Batch
  <2>1. CASE Batch \/ Complete(o)
    BY <1>2, <2>1
  <2>2. CASE ~(Batch \/ Complete(o))
    BY <1>2, <2>2
  <2> QED BY <2>1, <2>2
<1>6. /\ options'[k] = r /\ stage'[k] = next
      /\ \A j \in Places : j # k => options'[j] = options[j] /\ stage'[j] = stage[j]
      /\ DOMAIN options' = Places /\ DOMAIN stage' = Places
      /\ Places' = Places /\ request' = request
  BY <1>5, LeavesOthers
<1>7. Batch => \A j \in Places : ~(stage[j] \in Second) /\ ~ByHub(j)
  <2> SUFFICES ASSUME Batch, NEW j \in Places PROVE ~(stage[j] \in Second) /\ ~ByHub(j)
    OBVIOUS
  <2>1. PlaceInv(j)
    BY DEF IInv
  <2> QED BY <1>1, <2>1 DEF PlaceInv, Second
<1>8. \A j \in Places : Batch => ~ByHub(j)' /\ ~(stage'[j] \in Second)
  BY <1>3, <1>5, <1>6, <1>7 DEF ByHub, Second
<1>9. \A j \in Places : PlaceInv(j)'
  <2> SUFFICES ASSUME NEW j \in Places PROVE PlaceInv(j)'
    OBVIOUS
  <2>1. stage'[j] \in {"direct", "feed", "relay"} => ~Complete(options'[j])
    BY <1>4, <1>5, <1>6 DEF IInv, PlaceInv
  <2>2. Batch => stage'[j] # "feed"
    BY <1>5, <1>6 DEF IInv, PlaceInv
  <2> QED BY <1>6, <1>8, <2>1, <2>2 DEF PlaceInv, Batch, Second
<1>10. IInv'
  BY <1>6, <1>9 DEF IInv, Batch, Start, ForTrips
<1>11. TripsStay
  BY <1>1, <1>6, <1>8 DEF TripsStay, ByHub, Batch
<1> QED BY <1>10, <1>11

\* Only the city on which the wheel has landed looks for its way to the hub by
\* itself.
LEMMA FeedStep ==
  ASSUME IInv, ForTrips, NEW k \in Places, Feed(k)
  PROVE  IInv' /\ TripsStay
<1>1. stage[k] = "feed" /\ ~Complete(options[k]) /\ ~Batch
  BY DEF Feed, IInv, PlaceInv
<1>2. PICK next : Leaves(k, None, next)
  BY DEF Feed
<1>3. /\ options'[k] = None
      /\ \A j \in Places : j # k => options'[j] = options[j] /\ stage'[j] = stage[j]
      /\ DOMAIN options' = Places /\ DOMAIN stage' = Places
      /\ Places' = Places /\ request' = request
  BY <1>2, LeavesOthers
<1>4. \A j \in Places : PlaceInv(j)'
  BY <1>1, <1>3 DEF IInv, PlaceInv, Complete, Batch
<1> QED BY <1>1, <1>3, <1>4 DEF IInv, TripsStay, Batch, Start, ForTrips

\* A trip by the hub is no road of the city's own, so their number stays.
LEMMA RelayStep ==
  ASSUME IInv, ForTrips, NEW k \in Places, Relay(k)
  PROVE  IInv' /\ TripsStay
<1>1. stage[k] = "relay" /\ ~Complete(options[k])
  BY DEF Relay, IInv, PlaceInv
<1>2. PICK there \in Answers, back \in Answers, stay \in Hotels :
        LET o == Trip(pool[k], there, back, stay)
        IN Leaves(k, IF Complete(o) THEN Relayed(o, Hub, feeders[k]) ELSE options[k],
                  "relayed")
  BY DEF Relay
<1> DEFINE o == Trip(pool[k], there, back, stay)
           r == IF Complete(o) THEN Relayed(o, Hub, feeders[k]) ELSE options[k]
<1>3. /\ options'[k] = r /\ stage'[k] = "relayed"
      /\ \A j \in Places : j # k => options'[j] = options[j] /\ stage'[j] = stage[j]
      /\ DOMAIN options' = Places /\ DOMAIN stage' = Places
      /\ Places' = Places /\ request' = request
  BY <1>2, LeavesOthers
<1>4. Batch => r = options[k] \/ r.via # None
  <2>1. Batch => Hub # None
    BY TripsAssumption DEF IInv, Hub
  <2>2. Relayed(o, Hub, feeders[k]).via = Hub
    BY DEF Relayed, Trip
  <2> QED BY <2>1, <2>2
<1>5. Batch => /\ \A j \in Places : stage[j] \in Second
               /\ Cardinality(Roads) < 2
  BY <1>1 DEF IInv, PlaceInv, Second
<1>6. Batch => Roads' = Roads
  BY <1>1, <1>3, <1>4 DEF Roads
<1>7. \A j \in Places : PlaceInv(j)'
  <2> SUFFICES ASSUME NEW j \in Places PROVE PlaceInv(j)'
    OBVIOUS
  <2>1. stage'[j] \in {"direct", "feed", "relay"} => ~Complete(options'[j])
    BY <1>3 DEF IInv, PlaceInv
  <2>2. Batch => \A l \in Places : stage'[l] \in Second
    BY <1>3, <1>5 DEF Second
  <2>3. Batch => Cardinality(Roads') < 2
    BY <1>5, <1>6
  <2>4. Batch => (ByHub(j)' => stage'[j] = "relayed")
    BY <1>3 DEF IInv, PlaceInv, ByHub
  <2>5. Batch' = Batch
    BY <1>3 DEF Batch
  <2> QED BY <1>3, <2>1, <2>2, <2>3, <2>4, <2>5 DEF PlaceInv, Second
<1>8. IInv'
  BY <1>3, <1>7 DEF IInv, Batch, Start, ForTrips
<1>9. TripsStay
  BY <1>1, <1>3, <1>5 DEF TripsStay, Batch
<1> QED BY <1>8, <1>9

\* The batch turns to the hub when the first pass is over and found few roads.
LEMMA HubStep ==
  ASSUME IInv, ForTrips, TryHub
  PROVE  IInv' /\ TripsStay
<1>1. /\ Batch /\ NotFed /\ FewPriced
      /\ options' = options /\ Places' = Places /\ request' = request
  BY DEF TryHub, Batch, Places
<1>2. PICK f : stage' = [i \in Places |->
                 IF Live(f) /\ Stranded(i) THEN "relay" ELSE "relayed"]
  BY DEF TryHub
<1>3. \A j \in Places : ~ByHub(j)
  BY <1>1 DEF IInv, PlaceInv, NotFed
<1>4. Roads = {j \in Places : Complete(options[j])}
  BY <1>3 DEF Roads, ByHub
<1>5. Cardinality(Roads) < 2
  BY <1>1, <1>4 DEF FewPriced, Priced
<1>6. \A j \in Places : /\ stage'[j] \in Second
                        /\ stage'[j] = "relay" => ~Complete(options[j])
  BY <1>2 DEF Second, Stranded
<1>7. Roads' = Roads /\ \A j \in Places : ByHub(j)' = ByHub(j)
  BY <1>1 DEF Roads, ByHub
<1>8. \A j \in Places : PlaceInv(j)'
  BY <1>1, <1>3, <1>5, <1>6, <1>7 DEF PlaceInv, Second
<1>9. IInv'
  BY <1>1, <1>2, <1>8 DEF IInv, Batch, Start, ForTrips
<1> QED BY <1>1, <1>5, <1>9 DEF TripsStay

\* The answer leaves what was priced as it is.
LEMMA ReplyStep ==
  ASSUME IInv, UNCHANGED <<request, pool, stage, options>>
  PROVE  IInv' /\ TripsStay
<1>1. \A j \in Places : ForTrips => PlaceInv(j)' = PlaceInv(j)
  BY DEF PlaceInv, ByHub, Batch, Roads, Places
<1>2. IInv'
  BY <1>1 DEF IInv, Batch, Start, ForTrips, Places
<1>3. TripsStay
  BY DEF TripsStay, IInv, PlaceInv, ByHub, Batch
<1> QED BY <1>2, <1>3

\* Cities to meet in are priced by other goroutines than trips.
LEMMA WeighStep ==
  ASSUME IInv, NEW k \in Places, Weigh(k)
  PROVE  IInv' /\ TripsStay
<1>1. request.kind \in {"meet", "vibe"} /\ request' = request
  BY DEF Weigh, Leaves
<1>2. DOMAIN options' = Places' /\ DOMAIN stage' = Places'
  BY DEF Weigh, Leaves, IInv, Places
<1> QED BY <1>1, <1>2 DEF IInv, TripsStay, ForTrips, Batch

\* Every step keeps the invariant and the trips that were found directly.
LEMMA StepInv == IInv /\ [Next]_vars => IInv' /\ TripsStay
<1> SUFFICES ASSUME IInv, [Next]_vars PROVE IInv' /\ TripsStay
  OBVIOUS
<1>1. CASE \E k \in Places : Place(k)
  <2> PICK k \in Places : Place(k)
    BY <1>1
  <2>1. CASE Direct(k)
    BY <2>1, DirectStep DEF Direct, ForTrips
  <2>2. CASE Weigh(k)
    BY <2>2, WeighStep
  <2>3. CASE ForTrips /\ (Feed(k) \/ Relay(k))
    BY <2>3, FeedStep, RelayStep
  <2>4. CASE ~ForTrips /\ (Feed(k) \/ Relay(k))
    <3>1. request' = request /\ Places' = Places
          /\ DOMAIN options' = Places /\ DOMAIN stage' = Places
      BY <2>4 DEF Feed, Relay, Leaves, IInv, Places
    <3> QED BY <2>4, <3>1 DEF IInv, TripsStay, ForTrips, Batch
  <2> QED BY <2>1, <2>2, <2>3, <2>4 DEF Place
<1>2. CASE TryHub
  BY <1>2, HubStep DEF TryHub, ForTrips
<1>3. CASE Reply
  BY <1>3, ReplyStep DEF Reply
<1>4. CASE UNCHANGED vars
  BY <1>4, ReplyStep DEF vars
<1> QED BY <1>1, <1>2, <1>3, <1>4 DEF Next

\* For any cities, fares and searches, and whichever of them fail: a trip that was
\* found directly stays, and the batch offers the hub only where fewer than two
\* cities have a road of their own (the second pass of handleRoulette).
THEOREM TripsStayFound == Spec => HubIsLastResort
<1>1. IInv /\ [Next]_vars => [TripsStay]_vars
  BY StepInv
<1> QED BY <1>1, InitInv, StepInv, PTL DEF Spec, HubIsLastResort

-----------------------------------------------------------------------------
(* Walks over lists *)

\* A set of naturals has a least element: the initial segments below its members
\* are finite sets, of which one is smallest.
LEMMA LeastNat ==
  ASSUME NEW T \in SUBSET Nat, T # {}
  PROVE  \E m \in T : \A n \in T : m <= n
<1> DEFINE Upto == {1..n : n \in T}
           R == StrictSubsetOrdering(Nat)
<1>1. Upto # {} /\ Upto \subseteq FiniteSubsetsOf(Nat)
  <2>1. Upto # {}
    OBVIOUS
  <2>2. \A n \in T : 1..n \in SUBSET Nat /\ IsFiniteSet(1..n)
    BY FS_Interval
  <2>3. \A u \in Upto : u \in SUBSET Nat /\ IsFiniteSet(u)
    BY <2>2
  <2> HIDE DEF Upto
  <2>4. \A u \in Upto : u \in FiniteSubsetsOf(Nat)
    BY <2>3 DEF FiniteSubsetsOf
  <2> QED BY <2>1, <2>4
<1>2. PICK s \in Upto : \A t \in Upto : ~(<<t, s>> \in R)
  <2> HIDE DEF Upto, R
  <2>1. IsWellFoundedOn(R, FiniteSubsetsOf(Nat))
    BY FS_StrictSubsetOrderingWellFounded DEF R
  <2> QED BY <1>1, <2>1, WFMin
<1>3. PICK m \in T : s = 1..m
  OBVIOUS
<1>4. ASSUME NEW n \in T, n < m PROVE FALSE
  <2>1. 1..n \subseteq 1..m /\ m \in 1..m /\ m \notin 1..n
    BY <1>4
  <2>2. <<1..n, 1..m>> \in R
    BY <2>1 DEF StrictSubsetOrdering
  <2> QED BY <1>2, <1>3, <2>2
<1> QED BY <1>3, <1>4

\* The induction that the walks need: a set that holds 0 and, with each number
\* below n, the next one, holds the numbers up to n.
LEMMA UpTo ==
  ASSUME NEW n \in Nat, NEW G, 0 \in G,
         \A i \in 1..n : i - 1 \in G => i \in G
  PROVE  0..n \subseteq G
<1> DEFINE Bad == (0..n) \ G
<1> SUFFICES ASSUME Bad # {} PROVE FALSE
  OBVIOUS
<1>1. PICK m \in Bad : \A k \in Bad : m <= k
  <2> HIDE DEF Bad
  <2>1. Bad \in SUBSET Nat
    BY DEF Bad
  <2> QED BY <2>1, LeastNat
<1>2. m \in 1..n /\ m - 1 \in 0..n /\ ~(m <= m - 1)
  OBVIOUS
<1>3. m - 1 \in G
  BY <1>1, <1>2
<1> QED BY <1>2, <1>3

\* Only, after each of the first n elements.
Keep(kept, x, T) == IF x \in T THEN Append(kept, x) ELSE kept

KeptEach(f, s, T, n) == f = [i \in 0..n |-> IF i = 0 THEN <<>> ELSE Keep(f[i - 1], s[i], T)]

\* The filter is a function of the number of entries read so far.
LEMMA OnlyUnfolds ==
  ASSUME NEW s, NEW T, Len(s) \in Nat
  PROVE  \E f : KeptEach(f, s, T, Len(s)) /\ Only(s, T) = f[Len(s)]
<1> DEFINE N == Len(s)
           G == {n \in 0..N : \E f : KeptEach(f, s, T, n)}
           h == CHOOSE f : KeptEach(f, s, T, N)
<1>1. 0 \in G
  <2>1. KeptEach([i \in 0..0 |-> <<>>], s, T, 0)
    BY DEF KeptEach
  <2> QED BY <2>1
<1>2. ASSUME NEW n \in 1..N, n - 1 \in G PROVE n \in G
  <2>1. PICK f : KeptEach(f, s, T, n - 1)
    BY <1>2
  <2>2. KeptEach([i \in 0..n |-> IF i = n THEN Keep(f[n - 1], s[n], T) ELSE f[i]], s, T, n)
    BY <2>1 DEF KeptEach
  <2> QED BY <2>2
<1>3. KeptEach(h, s, T, N)
  <2>1. 0..N \subseteq G
    <3> HIDE DEF G
    <3> QED BY <1>1, <1>2, UpTo
  <2>2. N \in G
    BY <2>1
  <2> QED BY <2>2
<1>4. Only(s, T) = h[N]
  BY DEF Only, KeptEach, Keep
<1> QED BY <1>3, <1>4

\* What is kept is a list of elements of s that are in T, empty if there are none,
\* and it begins with the first of them.
LEMMA OnlyKeeps ==
  ASSUME NEW S, NEW s \in Seq(S), NEW T
  PROVE  /\ Only(s, T) \in Seq(S \cap T)
         /\ (\A i \in 1..Len(s) : s[i] \notin T) => Only(s, T) = <<>>
         /\ \A m \in 1..Len(s) : s[m] \in T /\ (\A i \in 1..(m - 1) : s[i] \notin T) =>
              Len(Only(s, T)) > 0 /\ Only(s, T)[1] = s[m]
<1> DEFINE N == Len(s)
<1>1. N \in Nat
  OBVIOUS
<1>2. PICK f : KeptEach(f, s, T, N) /\ Only(s, T) = f[N]
  BY <1>1, OnlyUnfolds
<1> DEFINE First(m) == s[m] \in T /\ \A i \in 1..(m - 1) : s[i] \notin T
           Good(n) == /\ f[n] \in Seq(S \cap T)
                      /\ (\A i \in 1..n : s[i] \notin T) => f[n] = <<>>
                      /\ \A m \in 1..n : First(m) => Len(f[n]) > 0 /\ f[n][1] = s[m]
           G == {n \in 0..N : Good(n)}
<1>3. 0 \in G
  <2>1. f[0] = <<>>
    BY <1>1, <1>2 DEF KeptEach
  <2>2. f[0] \in Seq(S \cap T)
    BY <2>1
  <2>3. 1..0 = {} /\ 0 \in 0..N
    BY <1>1
  <2> QED BY <2>1, <2>2, <2>3
<1>4. ASSUME NEW n \in 1..N, n - 1 \in G PROVE n \in G
  <2>1. n \in 0..N /\ n # 0 /\ n - 1 \in Nat /\ s[n] \in S /\ n \in Nat
    BY <1>1
  <2>2. Good(n - 1)
    BY <1>4
  <2>3. f[n] = Keep(f[n - 1], s[n], T)
    BY <1>2, <2>1 DEF KeptEach
  <2>4. CASE s[n] \notin T
    <3>1. f[n] = f[n - 1]
      BY <2>3, <2>4 DEF Keep
    <3>2. (\A i \in 1..n : s[i] \notin T) => f[n] = <<>>
      <4>1. 1..(n - 1) \subseteq 1..n
        BY <2>1
      <4> QED BY <2>2, <3>1, <4>1
    <3>3. ASSUME NEW m \in 1..n, First(m) PROVE Len(f[n]) > 0 /\ f[n][1] = s[m]
      <4>1. m \in 1..(n - 1)
        BY <2>1, <2>4, <3>3
      <4> QED BY <2>2, <3>1, <3>3, <4>1
    <3> QED BY <2>1, <2>2, <3>1, <3>2, <3>3
  <2>5. CASE s[n] \in T
    <3>1. f[n] = Append(f[n - 1], s[n])
      BY <2>3, <2>5 DEF Keep
    <3>2. f[n - 1] \in Seq(S \cap T) /\ s[n] \in S \cap T
      BY <2>1, <2>2, <2>5
    <3>3. /\ f[n] \in Seq(S \cap T) /\ Len(f[n]) = Len(f[n - 1]) + 1
          /\ Len(f[n - 1]) \in Nat
          /\ f[n][Len(f[n - 1]) + 1] = s[n]
          /\ \A i \in 1..Len(f[n - 1]) : f[n][i] = f[n - 1][i]
      BY <3>1, <3>2
    <3>4. n \in 1..n
      BY <2>1
    <3>5. ASSUME NEW m \in 1..n, First(m) PROVE Len(f[n]) > 0 /\ f[n][1] = s[m]
      <4>1. CASE m = n
        <5>1. f[n - 1] = <<>>
          BY <2>2, <3>5, <4>1
        <5>2. Len(f[n - 1]) = 0
          BY <5>1
        <5> QED BY <3>3, <4>1, <5>2
      <4>2. CASE m # n
        <5>1. m \in 1..(n - 1)
          BY <2>1, <4>2
        <5>2. Len(f[n - 1]) > 0 /\ f[n - 1][1] = s[m]
          BY <2>2, <3>5, <5>1
        <5> QED BY <3>3, <5>2
      <4> QED BY <4>1, <4>2
    <3> QED BY <2>1, <2>5, <3>3, <3>4, <3>5
  <2> QED BY <2>4, <2>5
<1>5. Good(N)
  <2>1. 0..N \subseteq G
    <3> HIDE DEF G, N
    <3> QED BY <1>1, <1>3, <1>4, UpTo
  <2>2. N \in G
    BY <1>1, <2>1
  <2> QED BY <2>2
<1> QED BY <1>2, <1>5

-----------------------------------------------------------------------------
(* The lowest of some fares *)

\* The lowest known of the fares at the indices E, 0 if none of them is known.
LowestOf(x, fare, E) ==
  LET known == {fare[i] : i \in E} \ {0}
  IN IF known = {} THEN x = 0 ELSE x \in known /\ \A y \in known : x <= y

\* Whoever keeps the first fare and exchanges it for a known one that is lower or
\* the first known, among those that qualify, ends with the lowest.
LEMMA KeepsLowest ==
  ASSUME NEW n \in Nat \ {0}, NEW fare \in [1..n -> Nat], NEW E \in SUBSET (1..n), 1 \in E,
         NEW best, best[1] = fare[1],
         \A i \in 2..n : best[i - 1] \in Nat => best[i] =
           IF i \in E /\ fare[i] > 0 /\ (best[i - 1] = 0 \/ fare[i] < best[i - 1])
           THEN fare[i] ELSE best[i - 1]
  PROVE  best[n] \in Nat /\ LowestOf(best[n], fare, E)
<1> DEFINE Good(i) == best[i] \in Nat /\ LowestOf(best[i], fare, E \cap (1..i))
           G == {i \in 0..n : i = 0 \/ Good(i)}
<1>1. 0 \in G
  OBVIOUS
<1>2. ASSUME NEW i \in 1..n, i - 1 \in G PROVE i \in G
  <2>1. CASE i = 1
    <3>1. E \cap (1..1) = {1} /\ fare[1] \in Nat
      OBVIOUS
    <3>2. {fare[j] : j \in {1}} = {fare[1]}
      OBVIOUS
    <3>3. LowestOf(best[1], fare, {1})
      BY <3>1, <3>2 DEF LowestOf
    <3>4. Good(1)
      BY <3>1, <3>3
    <3> QED BY <2>1, <3>4
  <2>2. CASE i # 1
    <3>1. i \in 2..n /\ i - 1 \in 1..n /\ i \in 0..n /\ i \in Nat
      BY <2>2
    <3>2. Good(i - 1)
      BY <1>2, <3>1
    <3>3. best[i] = IF i \in E /\ fare[i] > 0 /\ (best[i - 1] = 0 \/ fare[i] < best[i - 1])
                    THEN fare[i] ELSE best[i - 1]
      BY <3>1, <3>2
    <3>4. fare[i] \in Nat /\ best[i - 1] \in Nat
      BY <3>1, <3>2
    <3>5. \A j \in E : fare[j] \in Nat
      OBVIOUS
    <3> DEFINE A == E \cap (1..(i - 1))
               B == E \cap (1..i)
    <3>6. B = IF i \in E THEN A \cup {i} ELSE A
      <4>1. 1..i = (1..(i - 1)) \cup {i}
        BY <3>1
      <4> QED BY <4>1
    <3>7. LowestOf(best[i - 1], fare, A) /\ A \subseteq E
      BY <3>2
    <3> HIDE DEF A, B
    <3>8. LowestOf(best[i], fare, B)
      <4>1. CASE i \notin E
        BY <3>3, <3>6, <3>7, <4>1
      <4>2. CASE i \in E
        <5> DEFINE known == {fare[j] : j \in A} \ {0}
                   more  == {fare[j] : j \in B} \ {0}
        <5>1. more = known \cup ({fare[i]} \ {0})
          BY <3>6, <4>2
        <5>2. IF known = {} THEN best[i - 1] = 0
              ELSE best[i - 1] \in known /\ \A y \in known : best[i - 1] <= y
          BY <3>7 DEF LowestOf
        <5>3. known \subseteq Nat /\ 0 \notin known
          BY <3>5, <3>7
        <5> HIDE DEF known, more
        <5>4. IF more = {} THEN best[i] = 0
              ELSE best[i] \in more /\ \A y \in more : best[i] <= y
          <6>1. CASE fare[i] = 0
            BY <3>3, <3>4, <5>1, <5>2, <6>1
          <6>2. CASE fare[i] > 0 /\ known = {}
            BY <3>3, <3>4, <4>2, <5>1, <5>2, <6>2
          <6>3. CASE fare[i] > 0 /\ known # {}
            BY <3>3, <3>4, <4>2, <5>1, <5>2, <5>3, <6>3
          <6> QED BY <3>4, <6>1, <6>2, <6>3
        <5> QED BY <5>4 DEF LowestOf, more
      <4> QED BY <4>1, <4>2
    <3>9. best[i] \in Nat
      BY <3>3, <3>4
    <3> QED BY <3>1, <3>8, <3>9 DEF B
  <2> QED BY <2>1, <2>2
<1>3. n \in G
  <2> HIDE DEF G
  <2>1. 0..n \subseteq G
    BY <1>1, <1>2, UpTo
  <2>2. n \in 0..n
    OBVIOUS
  <2> QED BY <2>1, <2>2
<1>4. E \cap (1..n) = E
  OBVIOUS
<1> QED BY <1>3, <1>4

\* cheapestLeg after each of the first n variants.
CheapestEach(f, v, n) ==
  f = [i \in 1..n |-> IF i = 1 THEN v[1] ELSE Cheaper(f[i - 1], v[i])]

\* cheapestLeg keeps the best variant of those read so far.
LEMMA CheapestUnfolds ==
  ASSUME NEW v, Len(v) \in Nat
  PROVE  \E f : CheapestEach(f, v, Len(v)) /\ Cheapest(v) = f[Len(v)]
<1> DEFINE N == Len(v)
           G == {n \in 0..N : \E f : CheapestEach(f, v, n)}
           h == CHOOSE f : CheapestEach(f, v, N)
<1>1. 0 \in G
  <2>1. CheapestEach([i \in 1..0 |-> v[1]], v, 0)
    BY DEF CheapestEach
  <2> QED BY <2>1
<1>2. ASSUME NEW n \in 1..N, n - 1 \in G PROVE n \in G
  <2>1. PICK f : CheapestEach(f, v, n - 1)
    BY <1>2
  <2>2. CheapestEach([i \in 1..n |-> IF i = 1 THEN v[1]
                                     ELSE IF i = n THEN Cheaper(f[n - 1], v[n]) ELSE f[i]], v, n)
    BY <2>1 DEF CheapestEach
  <2> QED BY <2>2
<1>3. CheapestEach(h, v, N)
  <2>1. 0..N \subseteq G
    <3> HIDE DEF G
    <3> QED BY <1>1, <1>2, UpTo
  <2>2. N \in G
    BY <2>1
  <2> QED BY <2>2
<1>4. Cheapest(v) = h[N]
  BY DEF Cheapest, CheapestEach
<1> QED BY <1>3, <1>4

\* The choice of a hotel after each of the first n.
PickEach(f, v, n) ==
  f = [i \in 1..n |-> IF i = 1 THEN v[1] ELSE Better(f[i - 1], v[i])]

\* priceTrip keeps the best hotel of those read so far.
LEMMA PickUnfolds ==
  ASSUME NEW v, Len(v) \in Nat
  PROVE  \E f : PickEach(f, v, Len(v)) /\ Pick(v) = f[Len(v)]
<1> DEFINE N == Len(v)
           G == {n \in 0..N : \E f : PickEach(f, v, n)}
           h == CHOOSE f : PickEach(f, v, N)
<1>1. 0 \in G
  <2>1. PickEach([i \in 1..0 |-> v[1]], v, 0)
    BY DEF PickEach
  <2> QED BY <2>1
<1>2. ASSUME NEW n \in 1..N, n - 1 \in G PROVE n \in G
  <2>1. PICK f : PickEach(f, v, n - 1)
    BY <1>2
  <2>2. PickEach([i \in 1..n |-> IF i = 1 THEN v[1]
                                 ELSE IF i = n THEN Better(f[n - 1], v[n]) ELSE f[i]], v, n)
    BY <2>1 DEF PickEach
  <2> QED BY <2>2
<1>3. PickEach(h, v, N)
  <2>1. 0..N \subseteq G
    <3> HIDE DEF G
    <3> QED BY <1>1, <1>2, UpTo
  <2>2. N \in G
    BY <2>1
  <2> QED BY <2>2
<1>4. Pick(v) = h[N]
  BY DEF Pick, PickEach
<1> QED BY <1>3, <1>4

\* The least of some naturals is the one below the others.
LEMMA MinIs ==
  ASSUME NEW S \in SUBSET Nat, NEW x \in S, \A y \in S : x <= y
  PROVE  Min(S) = x
<1>1. Min(S) \in S /\ \A y \in S : Min(S) <= y
  BY DEF Min
<1>2. Min(S) \in Nat /\ x \in Nat /\ Min(S) <= x /\ x <= Min(S)
  BY <1>1
<1> QED BY <1>2

\* The leg that cheapestLeg keeps costs the lowest known fare of the answer.
LEMMA CheapestIsLowest ==
  ASSUME NEW a \in Seq(Variant), a # <<>>
  PROVE  Cheapest(a).fare \in Nat /\ Cheapest(a).fare = Lowest(a)
<1> DEFINE N == Len(a)
           fare == [i \in 1..N |-> a[i].fare]
<1>1. N \in Nat \ {0} /\ DOMAIN a = 1..N
  OBVIOUS
<1>2. ASSUME NEW i \in 1..N PROVE a[i].fare \in Nat
  <2>1. a[i] \in Variant
    BY <1>1
  <2> QED BY <2>1 DEF Variant
<1>3. PICK f : CheapestEach(f, a, N) /\ Cheapest(a) = f[N]
  BY <1>1, CheapestUnfolds
<1> DEFINE best == [i \in 1..N |-> f[i].fare]
           E == 1..N
<1>4. fare \in [1..N -> Nat]
  BY <1>2
<1>5. best[1] = fare[1]
  BY <1>1, <1>3 DEF CheapestEach
<1>6. ASSUME NEW i \in 2..N, best[i - 1] \in Nat
      PROVE  best[i] = IF i \in E /\ fare[i] > 0 /\ (best[i - 1] = 0 \/ fare[i] < best[i - 1])
                       THEN fare[i] ELSE best[i - 1]
  <2>1. i \in 1..N /\ i # 1 /\ i - 1 \in 1..N
    BY <1>1
  <2>2. f[i] = Cheaper(f[i - 1], a[i])
    BY <1>3, <2>1 DEF CheapestEach
  <2>3. f[i - 1].fare \in Nat
    BY <1>6, <2>1
  <2> QED BY <2>1, <2>2, <2>3 DEF Cheaper
<1>7. best[N] \in Nat /\ LowestOf(best[N], fare, E)
  <2>1. E \in SUBSET (1..N) /\ 1 \in E
    BY <1>1
  <2> HIDE DEF fare, best, E, N
  <2> QED BY <1>1, <1>4, <1>5, <1>6, <2>1, KeepsLowest
<1>8. best[N] = Cheapest(a).fare
  BY <1>1, <1>3
<1>9. {v.fare : v \in Range(a)} = {fare[i] : i \in E}
  BY <1>1 DEF Range
<1>10. {fare[i] : i \in E} \subseteq Nat
  BY <1>4
<1> DEFINE known == {v.fare : v \in Range(a)} \ {0}
<1>11. IF known = {} THEN best[N] = 0
       ELSE best[N] \in known /\ \A y \in known : best[N] <= y
  BY <1>7, <1>9 DEF LowestOf
<1>12. known \in SUBSET Nat
  BY <1>9, <1>10
<1>13. Lowest(a) = IF known = {} THEN 0 ELSE Min(known)
  BY DEF Lowest
<1> HIDE DEF known
<1> QED BY <1>7, <1>8, <1>11, <1>12, <1>13, MinIs

\* So does the hotel, of those that may be taken.
LEMMA PickIsLowest ==
  ASSUME NEW a \in Seq(Room), a # <<>>
  PROVE  Pick(a).fare \in Nat /\ Pick(a).fare = LowestStay(a)
<1> DEFINE N == Len(a)
           fare == [i \in 1..N |-> a[i].fare]
<1>1. N \in Nat \ {0} /\ DOMAIN a = 1..N
  OBVIOUS
<1>2. ASSUME NEW i \in 1..N PROVE a[i].fare \in Nat
  <2>1. a[i] \in Room
    BY <1>1
  <2> QED BY <2>1 DEF Room
<1>3. PICK f : PickEach(f, a, N) /\ Pick(a) = f[N]
  BY <1>1, PickUnfolds
<1> DEFINE best == [i \in 1..N |-> f[i].fare]
           E == {i \in 1..N : i = 1 \/ a[i].liked}
<1>4. fare \in [1..N -> Nat]
  BY <1>2
<1>5. best[1] = fare[1]
  BY <1>1, <1>3 DEF PickEach
<1>6. ASSUME NEW i \in 2..N, best[i - 1] \in Nat
      PROVE  best[i] = IF i \in E /\ fare[i] > 0 /\ (best[i - 1] = 0 \/ fare[i] < best[i - 1])
                       THEN fare[i] ELSE best[i - 1]
  <2>1. i \in 1..N /\ i # 1 /\ i - 1 \in 1..N
    BY <1>1
  <2>2. f[i] = Better(f[i - 1], a[i])
    BY <1>3, <2>1 DEF PickEach
  <2> QED BY <2>1, <2>2 DEF Better
<1>7. best[N] \in Nat /\ LowestOf(best[N], fare, E)
  <2>1. E \in SUBSET (1..N) /\ 1 \in E
    BY <1>1
  <2> HIDE DEF fare, best, E, N
  <2> QED BY <1>1, <1>4, <1>5, <1>6, <2>1, KeepsLowest
<1>8. best[N] = Pick(a).fare
  BY <1>1, <1>3
<1> DEFINE known == {a[i].fare : i \in {i \in DOMAIN a : i = 1 \/ a[i].liked}} \ {0}
<1>9. known = {fare[i] : i \in E} \ {0}
  BY <1>1
<1>10. known \in SUBSET Nat
  BY <1>4, <1>9
<1>11. IF known = {} THEN best[N] = 0
       ELSE best[N] \in known /\ \A y \in known : best[N] <= y
  BY <1>7, <1>9 DEF LowestOf
<1>12. LowestStay(a) = IF known = {} THEN 0 ELSE Min(known)
  BY DEF LowestStay
<1> HIDE DEF known
<1> QED BY <1>7, <1>8, <1>10, <1>11, <1>12, MinIs

-----------------------------------------------------------------------------
(* The wheel's lists of cities are lists *)

Listed(p) == p \in Seq(Range(p))

\* A sequence is the function that lists its entries.
LEMMA SeqIsListed ==
  ASSUME NEW S, NEW p \in Seq(S)
  PROVE  Listed(p)
<1>1. Len(p) \in Nat /\ p \in [1..Len(p) -> Range(p)]
  <2>1. p = [i \in 1..Len(p) |-> p[i]] /\ Len(p) \in Nat /\ DOMAIN p = 1..Len(p)
    OBVIOUS
  <2> QED BY <2>1 DEF Range
<1> HIDE DEF Range
<1> QED BY <1>1 DEF Listed

\* A list cut to length is a list of what it listed.
LEMMA CutListed ==
  ASSUME NEW S, NEW p \in Seq(S)
  PROVE  Listed(Cut(p))
<1> DEFINE n == IF Len(p) < Most THEN Len(p) ELSE Most
<1>1. n \in Nat /\ n <= Len(p) /\ Len(p) \in Nat
  BY TripsAssumption
<1>2. \A i \in 1..n : p[i] \in S
  BY <1>1
<1>3. SubSeq(p, 1, n) \in Seq(S)
  <2> HIDE DEF n
  <2> QED BY <1>1, <1>2, SubSeqProperties
<1> QED BY <1>3, SeqIsListed DEF Cut

\* A shuffle of finitely many cities.
LEMMA ShuffleListed ==
  ASSUME NEW want, NEW scope, NEW from, NEW visaFree,
         NEW p \in SetToSeqs({c.city : c \in Fitting(want, scope, from, visaFree)})
  PROVE  \E S : p \in Seq(S)
<1> DEFINE C == {c.city : c \in Fitting(want, scope, from, visaFree)}
           D == {Table[i].city : i \in 1..Len(Table)}
           f == [i \in 1..Len(Table) |-> Table[i].city]
<1>1. Len(Table) \in Nat /\ DOMAIN Table = 1..Len(Table)
  BY TripsAssumption
<1>2. IsFiniteSet(D)
  <2>1. f \in Surjection(1..Len(Table), D)
    BY DEF Surjection
  <2>2. IsFiniteSet(1..Len(Table))
    BY <1>1, FS_Interval
  <2> HIDE DEF f, D
  <2> QED BY <2>1, <2>2, FS_Surjection
<1>3. C \subseteq D
  BY <1>1 DEF Fitting, Range
<1>4. IsFiniteSet(C) /\ Cardinality(C) \in Nat
  <2> HIDE DEF C, D
  <2> QED BY <1>2, <1>3, FS_Subset, FS_CardinalityType
<1>5. p \in [1..Cardinality(C) -> C]
  BY DEF SetToSeqs
<1> HIDE DEF C
<1> QED BY <1>4, <1>5

\* The lists of a batch are lists of cities (handleRoulette).
LEMMA BatchListed ==
  ASSUME NEW from, NEW want, NEW q \in BatchPools(from, want)
  PROVE  Listed(q)
<1> DEFINE Shuffles(filter) ==
             SetToSeqs({c.city : c \in Fitting(want, filter[1], from, filter[2])})
           lists == Proposals \cup UNION {Shuffles(filter) :
                                            filter \in {"rf", "abroad", "any"} \X BOOLEAN}
<1>1. BatchPools(from, want) = {Cut(p) : p \in lists \ {<<>>}}
  BY DEF BatchPools
<1>2. \A filter : \A p \in Shuffles(filter) : \E S : p \in Seq(S)
  BY ShuffleListed
<1> HIDE DEF Shuffles
<1>3. \A p \in lists : p \in Proposals \/ \E filter : p \in Shuffles(filter)
  OBVIOUS
<1> HIDE DEF lists
<1>4. PICK p \in lists : q = Cut(p)
  BY <1>1
<1>5. \E S : p \in Seq(S)
  BY <1>2, <1>3, TripsAssumption
<1> QED BY <1>4, <1>5, CutListed

\* The city and its reserve are a list of cities (handleRoulettePrice).
LEMMA LandListed ==
  ASSUME NEW q \in LandPools
  PROVE  Listed(q)
<1> DEFINE Reserve(p) == Only(Tail(p), Range(p) \ {p[1]})
           Few(s) == SubSeq(s, 1, IF Len(s) < 2 THEN Len(s) ELSE 2)
<1>1. PICK p \in Proposals \ {<<>>} : q = <<p[1]>> \o Few(Reserve(p))
  BY DEF LandPools
<1> DEFINE S == Range(p)
<1>2. p \in Seq(S) /\ p # <<>>
  BY TripsAssumption
<1> HIDE DEF S
<1>3. Tail(p) \in Seq(S) /\ p[1] \in S
  BY <1>2
<1>4. Reserve(p) \in Seq(S)
  <2>1. Reserve(p) \in Seq(S \cap (Range(p) \ {p[1]}))
    BY <1>3, OnlyKeeps
  <2> QED BY <2>1
<1>5. \A s \in Seq(S) : Few(s) \in Seq(S)
  <2> TAKE s \in Seq(S)
  <2> DEFINE n == IF Len(s) < 2 THEN Len(s) ELSE 2
  <2>1. n \in Nat /\ \A i \in 1..n : s[i] \in S
    OBVIOUS
  <2>2. SubSeq(s, 1, n) \in Seq(S)
    <3> HIDE DEF n
    <3> QED BY <2>1, SubSeqProperties
  <2> QED BY <2>2
<1> HIDE DEF Few, Reserve
<1>6. q \in Seq(S)
  BY <1>1, <1>3, <1>4, <1>5
<1> QED BY <1>6, SeqIsListed

-----------------------------------------------------------------------------
(* What a trip costs *)

\* A trip with a road both ways, at the lowest fares of its own searches.
Right(o) ==
  /\ None \notin {o.there, o.back}
  /\ o.via = None <=> {o.feeder, o.feederBack} = {None}
  /\ o.via # None => /\ None \notin {o.feeder, o.feederBack}
                     /\ o.via = Hub /\ Start # Hub /\ o.city # Hub
  /\ o.total = Lowest(o.there.from) + Lowest(o.back.from)
               + (IF o.stay = None THEN 0 ELSE LowestStay(o.stay.from))
               + (IF o.via = None THEN 0
                  ELSE Lowest(o.feeder.from) + Lowest(o.feederBack.from))
  /\ o.total \in Nat

\* A leg costs the lowest fare of its answer, or nothing when it is missing.
LEMMA LegCosts ==
  ASSUME NEW a \in Answers, Leg(a) # None
  PROVE  /\ Leg(a).fare = Lowest(Leg(a).from) /\ Leg(a).fare \in Nat
         /\ Fare(Leg(a)) = Leg(a).fare
<1>1. a # <<>> /\ Leg(a) = [fare |-> Cheapest(a).fare, from |-> a]
  BY DEF Leg
<1>2. a \in Seq(Variant)
  BY TripsAssumption
<1> QED BY <1>1, <1>2, CheapestIsLowest DEF Fare

\* A stay costs what priceTrip chooses of the hotels, or nothing when there is none.
LEMMA StayCosts ==
  ASSUME NEW h \in Hotels
  PROVE  /\ Fare(Stay(h)) = IF Stay(h) = None THEN 0 ELSE LowestStay(Stay(h).from)
         /\ Fare(Stay(h)) \in Nat
<1>1. CASE Stay(h) = None
  BY <1>1 DEF Fare
<1>2. CASE Stay(h) # None
  <2>1. h # <<>> /\ Stay(h) = [fare |-> Pick(h).fare, from |-> h]
    BY <1>2 DEF Stay
  <2>2. h \in Seq(Room)
    BY TripsAssumption
  <2> QED BY <1>2, <2>1, <2>2, PickIsLowest DEF Fare
<1> QED BY <1>1, <1>2

\* priceTrip, when it finds both ways.
LEMMA TripCosts ==
  ASSUME NEW there \in Answers, NEW back \in Answers, NEW stay \in Hotels, NEW city,
         Complete(Trip(city, there, back, stay))
  PROVE  /\ Right(Trip(city, there, back, stay))
         /\ Trip(city, there, back, stay).city = city
         /\ Trip(city, there, back, stay).via = None
<1> DEFINE o == Trip(city, there, back, stay)
<1>1. o = [city |-> city, there |-> Leg(there), back |-> Leg(back), stay |-> Stay(stay),
           via |-> None, feeder |-> None, feederBack |-> None,
           total |-> Fare(Leg(there)) + Fare(Leg(back)) + Fare(Stay(stay))]
  BY DEF Trip
<1> HIDE DEF o
<1>2. Leg(there) # None /\ Leg(back) # None
  BY <1>1 DEF Complete, o
<1>3. /\ Fare(Leg(there)) = Lowest(o.there.from) /\ Fare(Leg(there)) \in Nat
      /\ Fare(Leg(back)) = Lowest(o.back.from) /\ Fare(Leg(back)) \in Nat
  BY <1>1, <1>2, LegCosts
<1>4. /\ Fare(Stay(stay)) = IF o.stay = None THEN 0 ELSE LowestStay(o.stay.from)
      /\ Fare(Stay(stay)) \in Nat
  BY <1>1, StayCosts
<1>5. Right(o)
  <2>1. o.total = Fare(Leg(there)) + Fare(Leg(back)) + Fare(Stay(stay))
    BY <1>1
  <2>2. o.total \in Nat
    BY <1>3, <1>4, <2>1
  <2>3. o.total = Lowest(o.there.from) + Lowest(o.back.from)
                  + (IF o.stay = None THEN 0 ELSE LowestStay(o.stay.from)) + 0
    BY <1>3, <1>4, <2>1
  <2>4. /\ o.there = Leg(there) /\ o.back = Leg(back) /\ o.via = None
        /\ o.feeder = None /\ o.feederBack = None
    BY <1>1
  <2> QED BY <1>2, <2>2, <2>3, <2>4 DEF Right
<1> QED BY <1>1, <1>5 DEF o

\* A trip by the hub also pays for the way to the hub and back.
LEMMA RelayCosts ==
  ASSUME NEW there \in Answers, NEW back \in Answers, NEW stay \in Hotels, NEW city,
         Complete(Trip(city, there, back, stay)),
         NEW f \in FeederPairs, Live(f), Hub # None, Start # Hub, city # Hub
  PROVE  /\ Right(Relayed(Trip(city, there, back, stay), Hub, f))
         /\ Relayed(Trip(city, there, back, stay), Hub, f).city = city
<1> DEFINE o == Trip(city, there, back, stay)
           r == Relayed(o, Hub, f)
<1>1. Right(o) /\ o.city = city /\ o.via = None
  BY TripCosts
<1>2. PICK a \in Answers, b \in Answers : f.there = Leg(a) /\ f.back = Leg(b)
  BY DEF FeederPairs
<1>3. /\ f.there # None /\ f.back # None
      /\ f.there.fare = Lowest(f.there.from) /\ f.there.fare \in Nat
      /\ f.back.fare = Lowest(f.back.from) /\ f.back.fare \in Nat
  BY <1>2, LegCosts DEF Live
<1>4. /\ r.city = o.city /\ r.there = o.there /\ r.back = o.back /\ r.stay = o.stay
      /\ r.via = Hub /\ r.feeder = f.there /\ r.feederBack = f.back
      /\ r.total = o.total + f.there.fare + f.back.fare
  BY DEF Relayed, Trip
<1> HIDE DEF o, r
<1> DEFINE base == Lowest(o.there.from) + Lowest(o.back.from)
                   + (IF o.stay = None THEN 0 ELSE LowestStay(o.stay.from))
<1>5. o.total = base + 0 /\ o.total \in Nat /\ None \notin {o.there, o.back}
  BY <1>1 DEF Right
<1>6. r.total = base + (Lowest(f.there.from) + Lowest(f.back.from)) /\ r.total \in Nat
  <2>1. base + 0 = o.total
    BY <1>5
  <2>2. r.total \in Nat
    BY <1>3, <1>4, <1>5
  <2>3. Lowest(o.there.from) \in Nat /\ Lowest(o.back.from) \in Nat
        /\ (IF o.stay = None THEN 0 ELSE LowestStay(o.stay.from)) \in Nat
    <3>1. Leg(there) # None /\ Leg(back) # None /\ o.there = Leg(there)
          /\ o.back = Leg(back) /\ o.stay = Stay(stay)
      BY DEF o, Complete, Trip
    <3> QED BY <3>1, LegCosts, StayCosts
  <2>4. base \in Nat
    BY <2>3
  <2> HIDE DEF base
  <2> QED BY <1>3, <1>4, <2>1, <2>2, <2>4
<1>7. Right(r)
  BY <1>3, <1>4, <1>5, <1>6, <1>1 DEF Right
<1> QED BY <1>1, <1>4, <1>7 DEF o, r

-----------------------------------------------------------------------------
(* What the wheel offers *)

\* What a place's result is when its goroutines are about to do the next thing.
PlaceTrip(i) ==
  /\ Complete(options[i]) => Right(options[i]) /\ options[i].city = pool[i]
  /\ stage[i] \in {"feed", "relay"} => Start # Hub /\ pool[i] # Hub
  /\ stage[i] = "relay" => feeders[i] \in FeederPairs /\ Live(feeders[i])

\* The inductive invariant: the results are right, place by place, and nothing
\* of them changes once the request is answered.
WheelInv ==
  /\ pool \in Seq(Range(pool)) /\ Start \in Starts /\ request.budget \in Nat
  /\ options = [i \in Places |-> options[i]] /\ DOMAIN stage = Places
  /\ DOMAIN feeders = Places
  /\ \A i \in Places : PlaceTrip(i)
  /\ reply # None => AllDone
  /\ TotalIsHonest

TripInv == ForTrips => WheelInv

\* The invariant of the wheel holds when its request arrives.
LEMMA TripInit == Init => TripInv
<1> SUFFICES ASSUME Init, ForTrips PROVE WheelInv
  BY DEF TripInv
<1>1. /\ stage = [i \in Places |-> "direct"] /\ options = [i \in Places |-> None]
      /\ feeders = [i \in Places |-> None] /\ reply = None
  BY DEF Init
<1>2. request \in [kind : {"batch", "land"}, from : {<<s>> : s \in Starts},
                   want : {{}}, budget : Budgets]
  BY DEF Init, ForTrips
<1>3. Start \in Starts /\ request.budget \in Nat
  <2>1. request.from \in {<<s>> : s \in Starts} /\ request.budget \in Budgets
    BY <1>2
  <2>2. PICK s \in Starts : request.from = <<s>>
    BY <2>1
  <2>3. Start = s
    BY <2>2 DEF Start
  <2>4. Budgets \subseteq Nat
    BY TripsAssumption
  <2> QED BY <2>1, <2>3, <2>4
<1>4. Listed(pool)
  <2>1. CASE request.kind = "batch"
    <3>1. \E want \in SUBSET Interests : pool \in BatchPools(Start, want)
      BY <2>1 DEF Init
    <3> QED BY <3>1, BatchListed
  <2>2. CASE request.kind = "land"
    <3>1. pool \in LandPools
      BY <2>2 DEF Init
    <3> QED BY <3>1, LandListed
  <2> QED BY <2>1, <2>2 DEF ForTrips
<1>5. \A i \in Places : PlaceTrip(i)
  BY <1>1 DEF PlaceTrip, Complete
<1>6. TotalIsHonest
  BY <1>1 DEF TotalIsHonest, Offers
<1> QED BY <1>1, <1>3, <1>4, <1>5, <1>6 DEF WheelInv, Listed

\* While goroutines run nothing has been answered.
LEMMA NotAnswered ==
  ASSUME WheelInv, NEW k \in Places, stage[k] \notin {"done", "relayed"}
  PROVE  reply = None
  BY DEF WheelInv, AllDone

\* One goroutine leaves a right result, or none.
LEMMA LeavesRight ==
  ASSUME WheelInv, ForTrips, NEW k \in Places, stage[k] \notin {"done", "relayed"},
         NEW o, NEW next, Leaves(k, o, next),
         DOMAIN feeders' = Places, \A j \in Places : j # k => feeders'[j] = feeders[j],
         Complete(o) => Right(o) /\ o.city = pool[k],
         next \in {"feed", "relay"} => Start # Hub /\ pool[k] # Hub,
         next = "relay" => feeders'[k] \in FeederPairs /\ Live(feeders'[k])
  PROVE  TripInv'
<1>1. reply = None /\ reply' = None
  BY NotAnswered DEF Leaves
<1>2. /\ request' = request /\ pool' = pool /\ Places' = Places
      /\ Start' = Start /\ Hub' = Hub /\ ForTrips' = ForTrips
  BY DEF Leaves, Places, Start, Hub, ForTrips
<1>3. /\ options' = [options EXCEPT ![k] = o]
      /\ stage' = [stage EXCEPT ![k] = next]
  BY DEF Leaves
<1>4. /\ options' = [i \in Places |-> IF i = k THEN o ELSE options[i]]
      /\ DOMAIN stage' = Places
      /\ \A i \in Places : stage'[i] = IF i = k THEN next ELSE stage[i]
  BY <1>3 DEF WheelInv
<1>5. options' = [i \in Places |-> options'[i]]
  BY <1>4
<1>6. ASSUME NEW i \in Places PROVE PlaceTrip(i)'
  <2>1. CASE i = k
    BY <1>2, <1>4, <2>1 DEF PlaceTrip, Right
  <2>2. CASE i # k
    <3>1. options'[i] = options[i] /\ stage'[i] = stage[i] /\ feeders'[i] = feeders[i]
      BY <1>4, <2>2
    <3>2. PlaceTrip(i)
      BY DEF WheelInv
    <3> QED BY <1>2, <3>1, <3>2 DEF PlaceTrip, Right
  <2> QED BY <2>1, <2>2
<1>7. TotalIsHonest'
  BY <1>1 DEF TotalIsHonest, Offers
<1>8. WheelInv'
  BY <1>1, <1>2, <1>4, <1>5, <1>6, <1>7 DEF WheelInv
<1> QED BY <1>8 DEF TripInv

\* Pricing a city from the start keeps the invariant.
LEMMA DirectRight ==
  ASSUME WheelInv, ForTrips, NEW k \in Places, Direct(k)
  PROVE  TripInv'
<1>1. stage[k] = "direct" /\ feeders' = feeders /\ DOMAIN feeders = Places
  BY DEF Direct, WheelInv
<1>2. PICK there \in Answers, back \in Answers, stay \in Hotels :
        LET o == Trip(pool[k], there, back, stay)
        IN IF request.kind = "batch" \/ Complete(o) THEN Leaves(k, o, "done")
           ELSE Leaves(k, None, IF Hub \in {Start, pool[k]} THEN "done" ELSE "feed")
  BY DEF Direct
<1> DEFINE o == Trip(pool[k], there, back, stay)
<1>3. Complete(o) => Right(o) /\ o.city = pool[k]
  BY TripCosts
<1> HIDE DEF o
<1>4. CASE Leaves(k, o, "done")
  BY <1>1, <1>3, <1>4, LeavesRight
<1>5. CASE Leaves(k, None, IF Hub \in {Start, pool[k]} THEN "done" ELSE "feed")
  <2>1. ~Complete(None)
    BY DEF Complete
  <2>2. CASE Hub \in {Start, pool[k]}
    <3>1. Leaves(k, None, "done")
      BY <1>5, <2>2
    <3> QED BY <1>1, <2>1, <3>1, LeavesRight
  <2>3. CASE Hub \notin {Start, pool[k]}
    <3>1. Leaves(k, None, "feed")
      BY <1>5, <2>3
    <3> QED BY <1>1, <2>1, <2>3, <3>1, LeavesRight
  <2> QED BY <2>2, <2>3
<1> QED BY <1>2, <1>4, <1>5 DEF o

\* Looking for the way to the hub keeps the invariant.
LEMMA FeedRight ==
  ASSUME WheelInv, ForTrips, NEW k \in Places, Feed(k)
  PROVE  TripInv'
<1>1. /\ stage[k] = "feed" /\ DOMAIN feeders = Places
      /\ Start # Hub /\ pool[k] # Hub
  BY DEF Feed, WheelInv, PlaceTrip
<1>2. PICK f \in FeederPairs :
        IF Live(f) THEN feeders' = [feeders EXCEPT ![k] = f] /\ Leaves(k, None, "relay")
        ELSE Leaves(k, None, "done") /\ UNCHANGED feeders
  BY DEF Feed
<1>3. ~Complete(None)
  BY DEF Complete
<1>4. CASE Live(f)
  <2>1. /\ DOMAIN feeders' = Places /\ feeders'[k] = f
        /\ \A j \in Places : j # k => feeders'[j] = feeders[j]
        /\ Leaves(k, None, "relay")
    BY <1>1, <1>2, <1>4
  <2> QED BY <1>1, <1>3, <1>4, <2>1, LeavesRight
<1>5. CASE ~Live(f)
  <2>1. feeders' = feeders /\ Leaves(k, None, "done")
    BY <1>2, <1>5
  <2> QED BY <1>1, <1>3, <2>1, LeavesRight
<1> QED BY <1>4, <1>5

\* Pricing a city from the hub keeps the invariant.
LEMMA RelayRight ==
  ASSUME WheelInv, ForTrips, NEW k \in Places, Relay(k)
  PROVE  TripInv'
<1>1. /\ stage[k] = "relay" /\ DOMAIN feeders = Places /\ feeders' = feeders
      /\ Start # Hub /\ pool[k] # Hub
      /\ feeders[k] \in FeederPairs /\ Live(feeders[k])
      /\ Complete(options[k]) => Right(options[k]) /\ options[k].city = pool[k]
  BY DEF Relay, WheelInv, PlaceTrip
<1>2. Hub # None
  BY TripsAssumption DEF WheelInv, Hub
<1>3. PICK there \in Answers, back \in Answers, stay \in Hotels :
        LET o == Trip(pool[k], there, back, stay)
        IN Leaves(k, IF Complete(o) THEN Relayed(o, Hub, feeders[k]) ELSE options[k],
                  "relayed")
  BY DEF Relay
<1> DEFINE o == Trip(pool[k], there, back, stay)
<1>4. Complete(o) => /\ Right(Relayed(o, Hub, feeders[k]))
                     /\ Relayed(o, Hub, feeders[k]).city = pool[k]
  BY <1>1, <1>2, RelayCosts
<1> HIDE DEF o
<1>5. CASE Complete(o)
  <2>1. Leaves(k, Relayed(o, Hub, feeders[k]), "relayed")
    BY <1>3, <1>5 DEF o
  <2> QED BY <1>1, <1>4, <1>5, <2>1, LeavesRight
<1>6. CASE ~Complete(o)
  <2>1. Leaves(k, options[k], "relayed")
    BY <1>3, <1>6 DEF o
  <2> QED BY <1>1, <2>1, LeavesRight
<1> QED BY <1>5, <1>6

\* The attempt of the batch to go by the hub keeps the invariant.
LEMMA HubRight ==
  ASSUME WheelInv, ForTrips, TryHub
  PROVE  TripInv'
<1>1. /\ reply = None /\ reply' = None /\ options' = options /\ Start # Hub
      /\ request' = request /\ pool' = pool /\ Places' = Places
      /\ Start' = Start /\ Hub' = Hub
  BY DEF TryHub, FewPriced, Places, Start, Hub
<1>2. PICK f \in FeederPairs :
        /\ feeders' = [i \in Places |-> f]
        /\ stage' = [i \in Places |-> IF Live(f) /\ Stranded(i) THEN "relay" ELSE "relayed"]
  BY DEF TryHub
<1>3. ASSUME NEW i \in Places PROVE PlaceTrip(i)'
  <2>1. PlaceTrip(i)
    BY DEF WheelInv
  <2> QED BY <1>1, <1>2, <2>1 DEF PlaceTrip, Right, Stranded
<1>4. TotalIsHonest'
  BY <1>1 DEF TotalIsHonest, Offers
<1>5. WheelInv'
  BY <1>1, <1>2, <1>3, <1>4 DEF WheelInv
<1> QED BY <1>5 DEF TripInv

\* The results are read in the order of the list.
LEMMA ReplyRight ==
  ASSUME WheelInv, ForTrips, Reply
  PROVE  TripInv'
<1> DEFINE S == Range(options)
           T == {o \in Range(options) : Complete(o)}
           live == Only(options, T)
           N == Len(pool)
<1>1. /\ reply = None /\ AllDone
      /\ UNCHANGED <<request, pool, stage, options, feeders>>
      /\ Start' = Start /\ Hub' = Hub /\ Places' = Places /\ ForTrips' = ForTrips
  BY DEF Reply, Start, Hub, Places, ForTrips
<1>2. N \in Nat /\ Places = 1..N
  BY DEF WheelInv, Places
<1>3. /\ options \in Seq(S) /\ Len(options) = N
      /\ \A x \in S : \E i \in Places : x = options[i]
      /\ \A i \in Places : options[i] \in S
  <2>1. options = [i \in 1..N |-> options[i]]
    BY <1>2 DEF WheelInv
  <2>2. S = {options[i] : i \in 1..N}
    BY <2>1 DEF Range
  <2> HIDE DEF S, N
  <2> QED BY <1>2, <2>1, <2>2
<1>4. \A i \in Places : options[i] \in T <=> Complete(options[i])
  BY <1>3
<1> HIDE DEF S, T
<1>5. live \in Seq(S \cap T)
  BY <1>3, OnlyKeeps
<1>6. ASSUME NEW i \in DOMAIN live
      PROVE  Right(live[i]) /\ \E j \in Places : live[i] = options[j]
  <2>1. live[i] \in S /\ live[i] \in T
    BY <1>5
  <2>2. PICK j \in Places : live[i] = options[j]
    BY <1>3, <2>1
  <2>3. PlaceTrip(j)
    BY DEF WheelInv
  <2> QED BY <1>4, <2>1, <2>2, <2>3 DEF PlaceTrip
<1>7. /\ request.kind = "batch" => reply' = [i \in DOMAIN live |-> Offered(live[i])]
      /\ request.kind = "land" /\ live = <<>> => reply' = <<>>
      /\ request.kind = "land" /\ live # <<>> => reply' = Landing(live)
  BY DEF Reply, T, S
<1>8. live # <<>> => 1 \in DOMAIN live
  <2> HIDE DEF live
  <2> QED BY <1>5
<1>9. \A i \in Places : PlaceTrip(i)' = PlaceTrip(i)
  BY <1>1 DEF PlaceTrip, Right
<1>10. TotalIsHonest'
  <2>1. ASSUME NEW x \in Offers'
        PROVE  \E i \in DOMAIN live : x = Offered(live[i])
    <3>1. x \in Range(reply')
      BY <2>1 DEF Offers
    <3> HIDE DEF live
    <3>2. CASE request.kind = "batch"
      BY <1>7, <3>1, <3>2 DEF Range
    <3>3. CASE request.kind = "land" /\ live = <<>>
      BY <1>7, <3>1, <3>3 DEF Range
    <3>4. CASE request.kind = "land" /\ live # <<>>
      <4>1. reply' = <<Offered(live[1])>> /\ 1 \in DOMAIN live
        BY <1>7, <1>8, <3>4 DEF Landing
      <4> QED BY <3>1, <4>1 DEF Range
    <3> QED BY <3>2, <3>3, <3>4 DEF ForTrips
  <2>2. ASSUME NEW x \in Offers', NEW i \in DOMAIN live, x = Offered(live[i])
        PROVE  /\ x.option = live[i] /\ Right(live[i])
               /\ x.inBudget <=> (request.budget = 0 \/ request.budget >= live[i].total)
    <3>1. Right(live[i])
      BY <1>6
    <3> HIDE DEF live
    <3>2. x.option = live[i] /\ x.inBudget = InBudget(live[i])
      BY <2>2 DEF Offered
    <3>3. live[i].total \in Nat /\ request.budget \in Nat
      BY <3>1 DEF Right, WheelInv
    <3>4. InBudget(live[i]) <=> (request.budget = 0 \/ request.budget >= live[i].total)
      BY <3>3 DEF InBudget
    <3> QED BY <3>1, <3>2, <3>4
  <2> HIDE DEF live
  <2> QED BY <1>1, <2>1, <2>2 DEF TotalIsHonest, Right
<1>11. WheelInv'
  BY <1>1, <1>9, <1>10 DEF WheelInv, AllDone
<1> QED BY <1>11 DEF TripInv

\* Every step keeps the invariant of the wheel.
LEMMA TripStep == TripInv /\ [Next]_vars => TripInv'
<1> SUFFICES ASSUME TripInv, [Next]_vars PROVE TripInv'
  OBVIOUS
<1>1. request' = request
  BY DEF Next, Place, Direct, Feed, Relay, Weigh, Leaves, TryHub, Reply, vars
<1>2. CASE ~ForTrips
  BY <1>1, <1>2 DEF TripInv, ForTrips
<1>3. CASE ForTrips
  <2>1. WheelInv
    BY <1>3 DEF TripInv
  <2>2. ASSUME NEW k \in Places, Place(k) PROVE TripInv'
    <3>1. ~Weigh(k)
      BY <1>3 DEF Weigh, ForTrips
    <3> QED BY <1>3, <2>1, <2>2, <3>1, DirectRight, FeedRight, RelayRight DEF Place
  <2>3. CASE TryHub
    BY <1>3, <2>1, <2>3, HubRight
  <2>4. CASE Reply
    BY <1>3, <2>1, <2>4, ReplyRight
  <2>5. CASE UNCHANGED vars
    <3>1. /\ UNCHANGED <<request, pool, stage, options, feeders, reply>>
          /\ Start' = Start /\ Hub' = Hub /\ Places' = Places /\ ForTrips' = ForTrips
      BY <2>5 DEF vars, Start, Hub, Places, ForTrips
    <3>2. \A i \in Places : PlaceTrip(i)' = PlaceTrip(i)
      BY <3>1 DEF PlaceTrip, Right
    <3>3. Offers' = Offers
      BY <3>1 DEF Offers
    <3>4. TotalIsHonest' = TotalIsHonest
      BY <3>1, <3>3 DEF TotalIsHonest
    <3>5. AllDone' = AllDone
      BY <3>1 DEF AllDone
    <3>6. WheelInv'
      BY <2>1, <3>1, <3>2, <3>4, <3>5 DEF WheelInv
    <3> QED BY <3>6 DEF TripInv
  <2> QED BY <2>2, <2>3, <2>4, <2>5 DEF Next
<1> QED BY <1>2, <1>3

\* Outside the wheel nothing is said of trips.
LEMMA TripInvSays == TripInv => TotalIsHonest
<1>1. CASE ForTrips
  BY <1>1 DEF TripInv, WheelInv
<1>2. CASE ~ForTrips
  BY <1>2 DEF ForTrips, TotalIsHonest, Offers
<1> QED BY <1>1, <1>2

\* However many variants and hotels the searches name, an offered trip has a road
\* both ways and costs the sum of the lowest fares, the way to the hub included
\* (priceTrip, cheapestLeg, priceCityWithRelay).
THEOREM TotalsAreHonest == Spec => []TotalIsHonest
  BY TripInit, TripStep, TripInvSays, PTL DEF Spec

-----------------------------------------------------------------------------
(* Lists in order *)

\* The filter keeps the order of the list and leaves out nothing of T.
LEMMA OnlyInOrder ==
  ASSUME NEW S, NEW s \in Seq(S), NEW T
  PROVE  /\ \A a, b \in 1..Len(Only(s, T)) : a < b =>
              \E i, j \in 1..Len(s) : i < j /\ Only(s, T)[a] = s[i] /\ Only(s, T)[b] = s[j]
         /\ \A i \in 1..Len(s) : s[i] \in T =>
              \E a \in 1..Len(Only(s, T)) : Only(s, T)[a] = s[i]
<1> DEFINE N == Len(s)
<1>1. N \in Nat
  OBVIOUS
<1>2. PICK f : KeptEach(f, s, T, N) /\ Only(s, T) = f[N]
  BY <1>1, OnlyUnfolds
<1> DEFINE Good(n) == /\ f[n] \in Seq(S)
                      /\ \A a \in 1..Len(f[n]) : \E i \in 1..n : f[n][a] = s[i]
                      /\ \A a, b \in 1..Len(f[n]) : a < b =>
                           \E i, j \in 1..n : i < j /\ f[n][a] = s[i] /\ f[n][b] = s[j]
                      /\ \A i \in 1..n : s[i] \in T => \E a \in 1..Len(f[n]) : f[n][a] = s[i]
           G == {n \in 0..N : Good(n)}
<1>3. 0 \in G
  <2>1. f[0] = <<>>
    BY <1>1, <1>2 DEF KeptEach
  <2>2. f[0] \in Seq(S) /\ Len(f[0]) = 0
    BY <2>1
  <2>3. 1..0 = {} /\ 0 \in 0..N
    BY <1>1
  <2> QED BY <2>2, <2>3
<1>4. ASSUME NEW n \in 1..N, n - 1 \in G PROVE n \in G
  <2>1. n \in 0..N /\ n # 0 /\ n - 1 \in Nat /\ s[n] \in S /\ n \in Nat
    BY <1>1
  <2>2. Good(n - 1)
    BY <1>4
  <2>3. f[n] = Keep(f[n - 1], s[n], T)
    BY <1>2, <2>1 DEF KeptEach
  <2>4. 1..n = (1..(n - 1)) \cup {n} /\ \A i \in 1..(n - 1) : i < n
    BY <2>1
  <2>5. CASE s[n] \notin T
    <3>1. f[n] = f[n - 1]
      BY <2>3, <2>5 DEF Keep
    <3>2. Good(n)
      BY <2>2, <2>4, <2>5, <3>1
    <3> QED BY <2>1, <3>2
  <2>6. CASE s[n] \in T
    <3> DEFINE m == Len(f[n - 1])
    <3>1. f[n] = Append(f[n - 1], s[n]) /\ f[n - 1] \in Seq(S)
      BY <2>2, <2>3, <2>6 DEF Keep
    <3>2. /\ f[n] \in Seq(S) /\ m \in Nat /\ Len(f[n]) = m + 1
          /\ f[n][m + 1] = s[n]
          /\ \A a \in 1..m : f[n][a] = f[n - 1][a]
      BY <2>1, <3>1
    <3> HIDE DEF m
    <3>3. 1..Len(f[n]) = (1..m) \cup {m + 1}
      BY <3>2
    <3>4. /\ \A a \in 1..m : \E i \in 1..(n - 1) : f[n - 1][a] = s[i]
          /\ \A a, b \in 1..m : a < b =>
               \E i, j \in 1..(n - 1) : i < j /\ f[n - 1][a] = s[i] /\ f[n - 1][b] = s[j]
          /\ \A i \in 1..(n - 1) : s[i] \in T => \E a \in 1..m : f[n - 1][a] = s[i]
      BY <2>2 DEF m
    <3>5. ASSUME NEW a \in 1..Len(f[n]) PROVE \E i \in 1..n : f[n][a] = s[i]
      <4>1. CASE a = m + 1
        BY <2>4, <3>2, <4>1
      <4>2. CASE a \in 1..m
        BY <2>4, <3>2, <3>4, <4>2
      <4> QED BY <3>3, <4>1, <4>2
    <3>6. ASSUME NEW a \in 1..Len(f[n]), NEW b \in 1..Len(f[n]), a < b
          PROVE  \E i, j \in 1..n : i < j /\ f[n][a] = s[i] /\ f[n][b] = s[j]
      <4>1. a \in 1..m
        BY <3>2, <3>6
      <4>2. CASE b \in 1..m
        <5>1. PICK i, j \in 1..(n - 1) :
                i < j /\ f[n - 1][a] = s[i] /\ f[n - 1][b] = s[j]
          BY <3>4, <3>6, <4>1, <4>2
        <5>2. /\ i \in 1..n /\ j \in 1..n
              /\ f[n][a] = s[i] /\ f[n][b] = s[j]
          BY <2>4, <3>2, <4>1, <4>2, <5>1
        <5> QED BY <5>1, <5>2
      <4>3. CASE b = m + 1
        <5>1. PICK i \in 1..(n - 1) : f[n - 1][a] = s[i]
          BY <3>4, <4>1
        <5>2. i \in 1..n /\ n \in 1..n /\ i < n /\ f[n][a] = s[i] /\ f[n][b] = s[n]
          BY <2>4, <3>2, <4>1, <4>3, <5>1
        <5> QED BY <5>2
      <4> QED BY <3>3, <4>2, <4>3
    <3>7. ASSUME NEW i \in 1..n, s[i] \in T PROVE \E a \in 1..Len(f[n]) : f[n][a] = s[i]
      <4>1. CASE i = n
        <5>1. m + 1 \in 1..Len(f[n])
          BY <3>3
        <5> QED BY <3>2, <4>1, <5>1
      <4>2. CASE i \in 1..(n - 1)
        <5>1. PICK a \in 1..m : f[n - 1][a] = s[i]
          BY <3>4, <3>7, <4>2
        <5>2. a \in 1..Len(f[n]) /\ f[n][a] = s[i]
          BY <3>2, <3>3, <5>1
        <5> QED BY <5>2
      <4> QED BY <2>4, <4>1, <4>2
    <3>8. Good(n)
      BY <3>2, <3>5, <3>6, <3>7
    <3> QED BY <2>1, <3>8
  <2> QED BY <2>5, <2>6
<1>5. Good(N)
  <2>1. 0..N \subseteq G
    <3> HIDE DEF G, N
    <3> QED BY <1>1, <1>3, <1>4, UpTo
  <2>2. N \in G
    BY <1>1, <2>1
  <2> QED BY <2>2
<1>6. /\ \A a, b \in 1..Len(f[N]) : a < b =>
           \E i, j \in 1..N : i < j /\ f[N][a] = s[i] /\ f[N][b] = s[j]
      /\ \A i \in 1..N : s[i] \in T => \E a \in 1..Len(f[N]) : f[N][a] = s[i]
  <2> HIDE DEF N
  <2> QED BY <1>5
<1>7. Only(s, T) = f[N]
  BY <1>2
<1> HIDE DEF Good, G
<1>8. ASSUME NEW a \in 1..Len(Only(s, T)), NEW b \in 1..Len(Only(s, T)), a < b
      PROVE  \E i, j \in 1..Len(s) :
               i < j /\ Only(s, T)[a] = s[i] /\ Only(s, T)[b] = s[j]
  BY <1>6, <1>7, <1>8
<1>9. ASSUME NEW i \in 1..Len(s), s[i] \in T
      PROVE  \E a \in 1..Len(Only(s, T)) : Only(s, T)[a] = s[i]
  BY <1>6, <1>7, <1>9
<1> QED BY <1>8, <1>9

\* The order in which Sorted puts the places: by less, then as they were.
Goes(less, i, j) == <<i, j>> \in less \/ (<<j, i>> \notin less /\ i < j)

TurnOf(less, D, i) == Cardinality({j \in D : Goes(less, j, i)}) + 1

\* A relation by which places can be sorted: what two are not told apart by, is
\* not told apart from a third either.
WeakOrder(less, D) ==
  \A i, j \in D : /\ <<i, j>> \in less => <<j, i>> \notin less
                  /\ \A k \in D : <<i, k>> \in less => <<i, j>> \in less \/ <<j, k>> \in less

\* Nobody goes before itself.
LEMMA NotBeforeItself ==
  ASSUME NEW n \in Nat, NEW less, WeakOrder(less, 1..n), NEW i \in 1..n
  PROVE  ~Goes(less, i, i)
<1>1. <<i, i>> \in less => <<i, i>> \notin less
  BY DEF WeakOrder
<1>2. ~(i < i)
  OBVIOUS
<1> QED BY <1>1, <1>2 DEF Goes

\* Whoever goes before another has an earlier turn.
LEMMA TurnsGrow ==
  ASSUME NEW n \in Nat, NEW less, WeakOrder(less, 1..n),
         NEW i \in 1..n, NEW j \in 1..n, Goes(less, i, j)
  PROVE  TurnOf(less, 1..n, i) < TurnOf(less, 1..n, j)
<1> DEFINE Before(k) == {l \in 1..n : Goes(less, l, k)}
<1>1. Before(i) \subseteq Before(j)
  <2>1. ASSUME NEW l \in 1..n, Goes(less, l, i) PROVE Goes(less, l, j)
    <3>1. l < i /\ i < j => l < j
      OBVIOUS
    <3>2. /\ <<l, i>> \in less => <<l, j>> \in less \/ <<j, i>> \in less
          /\ <<i, j>> \in less => <<i, l>> \in less \/ <<l, j>> \in less
          /\ <<j, l>> \in less => <<j, i>> \in less \/ <<i, l>> \in less
          /\ <<l, i>> \in less => <<i, l>> \notin less
          /\ <<i, j>> \in less => <<j, i>> \notin less
      BY DEF WeakOrder
    <3> QED BY <2>1, <3>1, <3>2 DEF Goes
  <2> QED BY <2>1
<1>2. i \in Before(j) /\ i \notin Before(i)
  BY NotBeforeItself
<1>3. \A k \in 1..n : IsFiniteSet(Before(k)) /\ Cardinality(Before(k)) \in Nat
  <2> TAKE k \in 1..n
  <2>1. IsFiniteSet(1..n) /\ Before(k) \in SUBSET (1..n)
    BY FS_Interval
  <2> HIDE DEF Before
  <2> QED BY <2>1, FS_Subset, FS_CardinalityType
<1> HIDE DEF Before
<1>4. Cardinality(Before(i) \cup {i}) = Cardinality(Before(i)) + 1
  BY <1>2, <1>3, FS_AddElement
<1>5. Cardinality(Before(i) \cup {i}) <= Cardinality(Before(j))
  <2>1. Before(i) \cup {i} \in SUBSET Before(j)
    BY <1>1, <1>2
  <2> QED BY <1>3, <2>1, FS_Subset
<1>6. Cardinality(Before(i)) < Cardinality(Before(j))
  BY <1>3, <1>4, <1>5
<1>7. \A k \in 1..n : TurnOf(less, 1..n, k) = Cardinality(Before(k)) + 1
  BY DEF TurnOf, Before
<1> QED BY <1>3, <1>6, <1>7

\* The turns of n places are the numbers up to n.
LEMMA TurnsExact ==
  ASSUME NEW n \in Nat, NEW less, WeakOrder(less, 1..n)
  PROVE  /\ \A i \in 1..n : TurnOf(less, 1..n, i) \in 1..n
         /\ \A k \in 1..n : \E i \in 1..n : TurnOf(less, 1..n, i) = k
<1> DEFINE D == 1..n
           turn == [i \in D |-> TurnOf(less, D, i)]
<1>1. IsFiniteSet(D) /\ Cardinality(D) = n
  BY FS_Interval
<1>2. ASSUME NEW i \in D PROVE TurnOf(less, D, i) \in D
  <2> DEFINE B == {j \in D : Goes(less, j, i)}
  <2>1. B \in SUBSET (D \ {i})
    <3>1. ~Goes(less, i, i)
      BY NotBeforeItself
    <3> QED BY <3>1
  <2>2. IsFiniteSet(D \ {i}) /\ Cardinality(D \ {i}) = n - 1
    BY <1>1, FS_RemoveElement
  <2> HIDE DEF B
  <2>3. Cardinality(B) \in Nat /\ Cardinality(B) <= n - 1
    <3>1. IsFiniteSet(B) /\ Cardinality(B) <= Cardinality(D \ {i})
      <4> HIDE DEF D
      <4> QED BY <2>1, <2>2, FS_Subset
    <3>2. Cardinality(B) \in Nat
      BY <3>1, FS_CardinalityType
    <3> QED BY <2>2, <3>1, <3>2
  <2>4. TurnOf(less, D, i) = Cardinality(B) + 1
    BY DEF TurnOf, B
  <2> QED BY <2>3, <2>4
<1>3. ASSUME NEW i \in D, NEW j \in D, turn[i] = turn[j] PROVE i = j
  <2>1. TurnOf(less, D, i) = TurnOf(less, D, j) /\ TurnOf(less, D, i) \in D
    BY <1>2, <1>3
  <2>2. ~Goes(less, i, j) /\ ~Goes(less, j, i)
    BY <2>1, TurnsGrow
  <2>3. i = j \/ i < j \/ j < i
    OBVIOUS
  <2> QED BY <2>2, <2>3 DEF Goes, WeakOrder
<1>4. turn \in Injection(D, D)
  <2>1. turn \in [D -> D]
    BY <1>2
  <2> HIDE DEF turn, D
  <2>2. \A i, j \in D : turn[i] = turn[j] => i = j
    BY <1>3
  <2> QED BY <2>1, <2>2 DEF Injection, IsInjective
<1>5. turn \in Surjection(D, D)
  <2> HIDE DEF turn, D
  <2> QED BY <1>1, <1>4, FS_Injection
<1>6. \A k \in D : \E i \in D : turn[i] = k
  <2> HIDE DEF turn, D
  <2> QED BY <1>5 DEF Surjection
<1> QED BY <1>2, <1>6

\* A sorted list is the list in another order: no place goes before an earlier one.
LEMMA SortedProperties ==
  ASSUME NEW S, NEW s \in Seq(S), NEW less, WeakOrder(less, 1..Len(s))
  PROVE  /\ Sorted(s, less) \in Seq(S) /\ Len(Sorted(s, less)) = Len(s)
         /\ \A k, l \in 1..Len(s) : k < l =>
              \E i, j \in 1..Len(s) : /\ Sorted(s, less)[k] = s[i] /\ Sorted(s, less)[l] = s[j]
                                      /\ <<j, i>> \notin less
         /\ \A k \in 1..Len(s) : \E i \in 1..Len(s) : Sorted(s, less)[k] = s[i]
         /\ \A i \in 1..Len(s) : \E k \in 1..Len(s) : Sorted(s, less)[k] = s[i]
<1> DEFINE n == Len(s)
           D == 1..n
           at == [k \in D |-> CHOOSE i \in D : TurnOf(less, D, i) = k]
           t == Sorted(s, less)
<1>1. n \in Nat /\ DOMAIN s = D
  OBVIOUS
<1>2. /\ \A i \in D : TurnOf(less, D, i) \in D
      /\ \A k \in D : \E i \in D : TurnOf(less, D, i) = k
  <2> HIDE DEF n
  <2> QED BY <1>1, TurnsExact DEF n
<1>3. \A k \in D : at[k] \in D /\ TurnOf(less, D, at[k]) = k
  BY <1>2
<1>4. t = [k \in D |-> s[at[k]]]
  BY <1>1 DEF Sorted, TurnOf, Goes
<1>5. \A i \in D : s[i] \in S
  OBVIOUS
<1>6. \A i, j \in D : Goes(less, i, j) => TurnOf(less, D, i) < TurnOf(less, D, j)
  BY <1>1, TurnsGrow
<1>7. \A i, j \in D : i # j => Goes(less, i, j) \/ Goes(less, j, i)
  BY DEF Goes
<1>8. \A i, j \in D : Goes(less, i, j) => <<j, i>> \notin less
  BY DEF Goes, WeakOrder
<1> HIDE DEF at, t
<1>9. ASSUME NEW k \in D, NEW l \in D, k < l
      PROVE  t[k] = s[at[k]] /\ t[l] = s[at[l]] /\ <<at[l], at[k]>> \notin less
  <2>1. at[k] \in D /\ at[l] \in D /\ at[k] # at[l]
    BY <1>3, <1>9
  <2>2. ~Goes(less, at[l], at[k])
    BY <1>3, <1>6, <1>9, <2>1
  <2> QED BY <1>4, <1>7, <1>8, <2>1, <2>2
<1>10. ASSUME NEW i \in D PROVE \E k \in D : t[k] = s[i]
  <2> DEFINE k == TurnOf(less, D, i)
  <2>1. k \in D
    BY <1>2
  <2>2. at[k] = i
    <3>1. at[k] \in D /\ TurnOf(less, D, at[k]) = TurnOf(less, D, i)
      BY <1>3, <2>1
    <3>2. TurnOf(less, D, i) \in Nat
      BY <2>1
    <3> QED BY <1>6, <1>7, <3>1, <3>2
  <2>3. t[k] = s[i]
    BY <1>4, <2>1, <2>2
  <2> QED BY <2>1, <2>3
<1>11. t \in Seq(S) /\ Len(t) = n
  BY <1>1, <1>3, <1>4, <1>5
<1>12. \A k \in D : t[k] = s[at[k]] /\ at[k] \in D
  BY <1>3, <1>4
<1> QED BY <1>3, <1>9, <1>10, <1>11, <1>12 DEF t

-----------------------------------------------------------------------------
(* What gathering everyone in a city costs *)

\* The cheapest arrival in time after each of the first n variants.
InTimeEach(f, v, n) ==
  f = [i \in 0..n |-> IF i = 0 THEN -1 ELSE CheaperInTime(f[i - 1], v[i])]

\* RankVibeCities keeps the cheapest arrival in time of those read so far.
LEMMA InTimeUnfolds ==
  ASSUME NEW v, Len(v) \in Nat
  PROVE  \E f : InTimeEach(f, v, Len(v)) /\ InTimeFare(v) = f[Len(v)]
<1> DEFINE N == Len(v)
           G == {n \in 0..N : \E f : InTimeEach(f, v, n)}
           h == CHOOSE f : InTimeEach(f, v, N)
<1>1. 0 \in G
  <2>1. InTimeEach([i \in 0..0 |-> -1], v, 0)
    BY DEF InTimeEach
  <2> QED BY <2>1
<1>2. ASSUME NEW n \in 1..N, n - 1 \in G PROVE n \in G
  <2>1. PICK f : InTimeEach(f, v, n - 1)
    BY <1>2
  <2>2. InTimeEach([i \in 0..n |-> IF i = n THEN CheaperInTime(f[n - 1], v[n]) ELSE f[i]], v, n)
    BY <2>1 DEF InTimeEach
  <2> QED BY <2>2
<1>3. InTimeEach(h, v, N)
  <2>1. 0..N \subseteq G
    <3> HIDE DEF G
    <3> QED BY <1>1, <1>2, UpTo
  <2>2. N \in G
    BY <2>1
  <2> QED BY <2>2
<1>4. InTimeFare(v) = h[N]
  BY DEF InTimeFare, InTimeEach
<1> QED BY <1>3, <1>4

\* One more arrival: what is lowest of those read is lowest with it.
LEMMA LowerInTime ==
  ASSUME NEW I, NEW fare, NEW i, NEW best \in Int,
         \A k \in I \cup {i} : fare[k] \in Nat,
         IF I = {} THEN best = -1 ELSE best \in Nat /\ LowestOf(best, fare, I),
         NEW next, next = IF best < 0 \/ (fare[i] > 0 /\ (best = 0 \/ fare[i] < best))
                          THEN fare[i] ELSE best
  PROVE  next \in Nat /\ LowestOf(next, fare, I \cup {i})
<1> DEFINE known == {fare[k] : k \in I} \ {0}
           more  == {fare[k] : k \in I \cup {i}} \ {0}
<1>1. more = known \cup ({fare[i]} \ {0})
  OBVIOUS
<1>2. known \subseteq Nat /\ 0 \notin known /\ fare[i] \in Nat
  OBVIOUS
<1>3. CASE I = {}
  <2>1. next = fare[i] /\ known = {}
    BY <1>3
  <2>2. IF more = {} THEN next = 0 ELSE next \in more /\ \A y \in more : next <= y
    <3> HIDE DEF known, more
    <3> QED BY <1>1, <1>2, <2>1
  <2> QED BY <1>2, <2>1, <2>2 DEF LowestOf
<1>4. CASE I # {}
  <2>1. /\ best \in Nat
        /\ IF known = {} THEN best = 0 ELSE best \in known /\ \A y \in known : best <= y
    BY <1>4 DEF LowestOf
  <2>2. IF more = {} THEN next = 0 ELSE next \in more /\ \A y \in more : next <= y
    <3> HIDE DEF known, more
    <3>1. CASE fare[i] = 0
      BY <1>1, <1>2, <2>1, <3>1
    <3>2. CASE fare[i] > 0 /\ known = {}
      BY <1>1, <1>2, <2>1, <3>2
    <3>3. CASE fare[i] > 0 /\ known # {}
      BY <1>1, <1>2, <2>1, <3>3
    <3> QED BY <1>2, <3>1, <3>2, <3>3
  <2>3. next \in Nat
    BY <1>2, <2>1
  <2> QED BY <2>2, <2>3 DEF LowestOf
<1> QED BY <1>3, <1>4

\* The fare that RankVibeCities takes is the lowest known one that arrives in
\* time, and it is negative just where nothing does.
LEMMA InTimeIsLowest ==
  ASSUME NEW a \in Seq(Variant)
  PROVE  /\ InTimeFare(a) \in Int
         /\ InTimeFare(a) >= 0 <=> \E v \in Range(a) : ~v.late
         /\ IF InTimeFare(a) >= 0 THEN InTimeFare(a) = LowestInTime(a)
            ELSE LowestInTime(a) = 0
<1> DEFINE N == Len(a)
           fare == [i \in 1..N |-> a[i].fare]
           Timely(n) == {i \in 1..n : ~a[i].late}
<1>1. N \in Nat /\ DOMAIN a = 1..N
  OBVIOUS
<1>2. ASSUME NEW i \in 1..N PROVE fare[i] \in Nat
  <2>1. a[i] \in Variant
    BY <1>1
  <2> QED BY <2>1 DEF Variant
<1>3. PICK f : InTimeEach(f, a, N) /\ InTimeFare(a) = f[N]
  BY <1>1, InTimeUnfolds
<1> DEFINE Good(n) == /\ f[n] \in Int
                      /\ IF Timely(n) = {} THEN f[n] = -1
                         ELSE f[n] \in Nat /\ LowestOf(f[n], fare, Timely(n))
           G == {n \in 0..N : Good(n)}
<1>4. 0 \in G
  <2>1. f[0] = -1
    BY <1>1, <1>3 DEF InTimeEach
  <2>2. Timely(0) = {} /\ 0 \in 0..N /\ -1 \in Int
    BY <1>1
  <2> QED BY <2>1, <2>2
<1>5. ASSUME NEW n \in 1..N, n - 1 \in G PROVE n \in G
  <2>1. n \in 0..N /\ n # 0 /\ n \in Nat
    BY <1>1
  <2>2. Good(n - 1)
    BY <1>5
  <2>3. f[n] = CheaperInTime(f[n - 1], a[n])
    BY <1>3, <2>1 DEF InTimeEach
  <2>4. 1..n = (1..(n - 1)) \cup {n}
    BY <2>1
  <2>5. CASE a[n].late
    <3>1. f[n] = f[n - 1]
      BY <2>3, <2>5 DEF CheaperInTime
    <3>2. Timely(n) = Timely(n - 1)
      BY <2>4, <2>5
    <3> HIDE DEF Timely, fare
    <3>3. Good(n)
      BY <2>2, <3>1, <3>2
    <3> QED BY <2>1, <3>3
  <2>6. CASE ~a[n].late
    <3>1. f[n] = IF f[n - 1] < 0 \/ (fare[n] > 0 /\ (f[n - 1] = 0 \/ fare[n] < f[n - 1]))
                 THEN fare[n] ELSE f[n - 1]
      BY <2>3, <2>6 DEF CheaperInTime
    <3>2. Timely(n) = Timely(n - 1) \cup {n}
      BY <2>4, <2>6
    <3>3. \A k \in Timely(n - 1) \cup {n} : fare[k] \in Nat
      <4>1. \A k \in Timely(n - 1) \cup {n} : k \in 1..N
        BY <1>1
      <4> HIDE DEF Timely, fare
      <4> QED BY <1>2, <4>1
    <3> HIDE DEF Timely, fare
    <3>4. /\ f[n - 1] \in Int
          /\ IF Timely(n - 1) = {} THEN f[n - 1] = -1
             ELSE f[n - 1] \in Nat /\ LowestOf(f[n - 1], fare, Timely(n - 1))
      BY <2>2
    <3>5. f[n] \in Nat /\ LowestOf(f[n], fare, Timely(n - 1) \cup {n})
      BY <3>1, <3>3, <3>4, LowerInTime
    <3>6. Good(n)
      BY <3>2, <3>5
    <3> QED BY <2>1, <3>6
  <2> QED BY <2>5, <2>6
<1>6. Good(N)
  <2>1. 0..N \subseteq G
    <3> HIDE DEF G, N
    <3> QED BY <1>1, <1>4, <1>5, UpTo
  <2>2. N \in 0..N
    BY <1>1
  <2>3. N \in G
    <3> HIDE DEF G, N
    <3> QED BY <2>1, <2>2
  <2> QED BY <2>3
<1> DEFINE known == {v.fare : v \in {v \in Range(a) : ~v.late}} \ {0}
<1>7. known = {fare[i] : i \in Timely(N)} \ {0}
  <2>1. Range(a) = {a[i] : i \in 1..N}
    BY <1>1 DEF Range
  <2> QED BY <1>1, <2>1
<1>8. Timely(N) = {} <=> ~\E v \in Range(a) : ~v.late
  BY <1>1 DEF Range
<1>9. \A i \in Timely(N) : fare[i] \in Nat
  BY <1>2
<1>10. LowestInTime(a) = IF known = {} THEN 0 ELSE Min(known)
  BY DEF LowestInTime
<1>11. InTimeFare(a) = f[N]
  BY <1>3
<1> HIDE DEF Timely, fare, known, N
<1>12. CASE Timely(N) = {}
  <2>1. f[N] = -1 /\ known = {}
    BY <1>6, <1>7, <1>12
  <2> QED BY <1>8, <1>10, <1>11, <1>12, <2>1
<1>13. CASE Timely(N) # {}
  <2>1. f[N] \in Nat /\ LowestOf(f[N], fare, Timely(N))
    BY <1>6, <1>13
  <2>2. IF known = {} THEN f[N] = 0 ELSE f[N] \in known /\ \A y \in known : f[N] <= y
    BY <1>7, <2>1 DEF LowestOf
  <2>3. known \in SUBSET Nat
    BY <1>7, <1>9
  <2>4. f[N] = LowestInTime(a)
    BY <1>10, <2>1, <2>2, <2>3, MinIs
  <2>5. f[N] >= 0
    BY <2>1
  <2> QED BY <1>8, <1>11, <1>13, <2>1, <2>4, <2>5
<1> QED BY <1>12, <1>13

\* The sum after each of the first n numbers.
SumEach(f, s, n) == f = [i \in 0..n |-> IF i = 0 THEN 0 ELSE f[i - 1] + s[i]]

\* The sum of some naturals is one.
LEMMA SumIsNat ==
  ASSUME NEW s, Len(s) \in Nat, \A i \in 1..Len(s) : s[i] \in Nat
  PROVE  SumOf(s) \in Nat
<1> DEFINE N == Len(s)
           G == {n \in 0..N : \E f : SumEach(f, s, n)}
           h == CHOOSE f : SumEach(f, s, N)
<1>1. 0 \in G
  <2>1. SumEach([i \in 0..0 |-> 0], s, 0)
    BY DEF SumEach
  <2> QED BY <2>1
<1>2. ASSUME NEW n \in 1..N, n - 1 \in G PROVE n \in G
  <2>1. PICK f : SumEach(f, s, n - 1)
    BY <1>2
  <2>2. SumEach([i \in 0..n |-> IF i = n THEN f[n - 1] + s[n] ELSE f[i]], s, n)
    BY <2>1 DEF SumEach
  <2> QED BY <2>2
<1>3. SumEach(h, s, N)
  <2>1. 0..N \subseteq G
    <3> HIDE DEF G
    <3> QED BY <1>1, <1>2, UpTo
  <2>2. N \in G
    BY <2>1
  <2> QED BY <2>2
<1>4. SumOf(s) = h[N]
  BY DEF SumOf, SumEach
<1> HIDE DEF h
<1> DEFINE H == {n \in 0..N : h[n] \in Nat}
<1>5. 0 \in H
  BY <1>3 DEF SumEach
<1>6. ASSUME NEW n \in 1..N, n - 1 \in H PROVE n \in H
  <2>1. n \in 0..N /\ n # 0
    OBVIOUS
  <2>2. h[n] = h[n - 1] + s[n]
    BY <1>3, <2>1 DEF SumEach
  <2>3. h[n - 1] \in Nat /\ s[n] \in Nat
    BY <1>6
  <2> QED BY <2>1, <2>2, <2>3
<1>7. N \in H
  <2>1. 0..N \subseteq H
    <3> HIDE DEF H, N
    <3> QED BY <1>5, <1>6, UpTo DEF N
  <2> QED BY <2>1
<1> QED BY <1>4, <1>7

\* Who gets to a city in time, and what that costs.
Come(o) == {k \in DOMAIN o.from : \E v \in Range(o.from[k]) : ~v.late}

Costs(o) == SumOf([k \in DOMAIN o.from |-> LowestInTime(o.from[k])])

Fair(o) == /\ o.reachable = Cardinality(Come(o)) /\ o.reachable \in Nat
           /\ o.total = Costs(o) /\ o.total \in Nat

\* What RankVibeCities makes of a city: how many get there in time, and the sum of
\* the lowest fares with which they do.
LEMMA GatheredCosts ==
  ASSUME NEW N \in Nat, NEW answers \in [1..N -> Answers], NEW city
  PROVE  Fair(Gathered(city, answers))
<1> DEFINE o == Gathered(city, answers)
           fares == [i \in DOMAIN answers |-> InTimeFare(answers[i])]
           come == {i \in DOMAIN answers : fares[i] >= 0}
           paid == [i \in DOMAIN answers |-> IF i \in come THEN fares[i] ELSE 0]
           low == [k \in DOMAIN answers |-> LowestInTime(answers[k])]
<1>1. DOMAIN answers = 1..N /\ \A i \in 1..N : answers[i] \in Seq(Variant)
  BY TripsAssumption
<1>2. ASSUME NEW i \in 1..N
      PROVE  /\ fares[i] \in Int
             /\ i \in come <=> \E v \in Range(answers[i]) : ~v.late
             /\ paid[i] = low[i] /\ paid[i] \in Nat
  <2>1. fares[i] = InTimeFare(answers[i]) /\ answers[i] \in Seq(Variant)
    BY <1>1
  <2>2. /\ fares[i] \in Int
        /\ fares[i] >= 0 <=> \E v \in Range(answers[i]) : ~v.late
        /\ IF fares[i] >= 0 THEN fares[i] = LowestInTime(answers[i])
           ELSE LowestInTime(answers[i]) = 0
    BY <2>1, InTimeIsLowest
  <2>3. i \in come <=> fares[i] >= 0
    BY <1>1
  <2>4. paid[i] = (IF i \in come THEN fares[i] ELSE 0) /\ low[i] = LowestInTime(answers[i])
    BY <1>1
  <2> HIDE DEF fares, come, paid, low
  <2> QED BY <2>2, <2>3, <2>4
<1>3. /\ o.from = answers /\ o.reachable = Cardinality(come) /\ o.total = SumOf(paid)
  BY DEF Gathered
<1>4. paid = low
  BY <1>1, <1>2
<1>5. come = {k \in DOMAIN answers : \E v \in Range(answers[k]) : ~v.late}
  BY <1>1, <1>2
<1>6. Cardinality(come) \in Nat
  <2>1. come \in SUBSET (1..N) /\ IsFiniteSet(1..N)
    BY <1>1, FS_Interval
  <2> HIDE DEF come
  <2> QED BY <2>1, FS_Subset, FS_CardinalityType
<1>7. SumOf(paid) \in Nat
  <2>1. Len(paid) = N /\ \A i \in 1..N : paid[i] \in Nat
    BY <1>1, <1>2
  <2> HIDE DEF paid
  <2> QED BY <2>1, SumIsNat
<1> HIDE DEF o, fares, come, paid
<1>8. Come(o) = come /\ Costs(o) = SumOf(paid)
  BY <1>3, <1>4, <1>5 DEF Come, Costs, low
<1> QED BY <1>3, <1>6, <1>7, <1>8 DEF o, Fair

-----------------------------------------------------------------------------
(* The answer to those who want to meet *)

\* Every goroutine leaves what gathering in its city costs, once it has its
\* answers.
Weighed(i) == \E answers \in [DOMAIN request.from -> Answers] :
                options[i] = Gathered(pool[i], answers)

GatherInv ==
  /\ pool \in Seq(Range(pool)) /\ request.from \in Seq(Starts)
  /\ request.kind \in {"meet", "vibe"}
  /\ options = [i \in Places |-> options[i]] /\ DOMAIN stage = Places
  /\ \A i \in Places : /\ stage[i] \in {"direct", "done"}
                       /\ stage[i] = "done" => Weighed(i)
  /\ MostComeFirst

MeetInv == ~ForTrips => GatherInv

\* How many of the tags a city has is a number.
LEMMA ScoreIsNat ==
  ASSUME NEW c \in Range(Table), NEW want
  PROVE  Score(c, want) \in Nat
<1>1. IsFiniteSet(c.tags)
  BY TripsAssumption
<1>2. c.tags \cap want \in SUBSET c.tags
  OBVIOUS
<1> QED BY <1>1, <1>2, FS_Subset, FS_CardinalityType DEF Score

\* The filter lists every city of the table that fits.
LEMMA FitListed ==
  ASSUME NEW F \in SUBSET Range(Table)
  PROVE  /\ Only(Table, F) \in Seq(F)
         /\ \A c \in F : \E i \in 1..Len(Only(Table, F)) : Only(Table, F)[i] = c
<1>1. Table \in Seq(Range(Table)) /\ Range(Table) \cap F = F
  BY TripsAssumption
<1>2. Only(Table, F) \in Seq(Range(Table) \cap F)
  BY <1>1, OnlyKeeps
<1>3. \A i \in 1..Len(Table) : Table[i] \in F =>
        \E a \in 1..Len(Only(Table, F)) : Only(Table, F)[a] = Table[i]
  BY <1>1, OnlyInOrder
<1>4. \A c \in F : \E i \in 1..Len(Table) : Table[i] = c
  <2>1. DOMAIN Table = 1..Len(Table)
    BY <1>1
  <2> QED BY <2>1 DEF Range
<1> QED BY <1>1, <1>2, <1>3, <1>4

\* The pairs of places of which the first has the city with more of the tags.
MoreTags(less, fit, want) ==
  \A i, j \in 1..Len(fit) : <<i, j>> \in less <=> Score(fit[i], want) > Score(fit[j], want)

\* Cities sorted by how many of the tags they have.
LEMMA BestSorted ==
  ASSUME NEW F \in SUBSET Range(Table), NEW fit \in Seq(F), NEW want, NEW less,
         MoreTags(less, fit, want)
  PROVE  /\ Sorted(fit, less) \in Seq(F) /\ Len(Sorted(fit, less)) = Len(fit)
         /\ \A k, l \in 1..Len(fit) : k < l =>
              Score(Sorted(fit, less)[k], want) >= Score(Sorted(fit, less)[l], want)
         /\ \A i \in 1..Len(fit) : \E k \in 1..Len(fit) : Sorted(fit, less)[k] = fit[i]
<1> DEFINE n == Len(fit)
           best == Sorted(fit, less)
<1>1. n \in Nat /\ DOMAIN fit = 1..n /\ \A i \in 1..n : fit[i] \in F
  OBVIOUS
<1>2. \A i, j \in 1..n : <<i, j>> \in less <=> Score(fit[i], want) > Score(fit[j], want)
  BY DEF MoreTags
<1>3. \A i \in 1..n : Score(fit[i], want) \in Nat
  BY <1>1, ScoreIsNat
<1>4. WeakOrder(less, 1..n)
  <2> SUFFICES ASSUME NEW i \in 1..n, NEW j \in 1..n
               PROVE  /\ <<i, j>> \in less => <<j, i>> \notin less
                      /\ \A k \in 1..n : <<i, k>> \in less => <<i, j>> \in less \/ <<j, k>> \in less
    BY DEF WeakOrder
  <2> HIDE DEF n
  <2> QED BY <1>2, <1>3
<1>5. /\ best \in Seq(F) /\ Len(best) = n
      /\ \A i \in 1..n : \E k \in 1..n : best[k] = fit[i]
  BY <1>4, SortedProperties
<1>6. \A k, l \in 1..n : k < l =>
        \E i, j \in 1..n : best[k] = fit[i] /\ best[l] = fit[j] /\ <<j, i>> \notin less
  BY <1>4, SortedProperties
<1>7. ASSUME NEW k \in 1..n, NEW l \in 1..n, k < l
      PROVE  Score(best[k], want) >= Score(best[l], want)
  <2> HIDE DEF best, n
  <2>1. \E i, j \in 1..n : best[k] = fit[i] /\ best[l] = fit[j] /\ <<j, i>> \notin less
    BY <1>6, <1>7
  <2> PICK i \in 1..n, j \in 1..n :
        best[k] = fit[i] /\ best[l] = fit[j] /\ <<j, i>> \notin less
    BY <2>1
  <2>2. ~(Score(fit[j], want) > Score(fit[i], want))
    BY <1>2
  <2>3. Score(fit[i], want) \in Nat /\ Score(fit[j], want) \in Nat
    BY <1>3
  <2>4. Score(fit[i], want) >= Score(fit[j], want)
    BY <2>2, <2>3
  <2> QED BY <2>4
<1> QED BY <1>5, <1>7

Fits(want) == Fitting(want, "rf", None, FALSE)

Tagged(want) == CitiesByInterests(want, "rf", None, FALSE)

\* The cities by interests are those of the table that fit, the best fitting first
\* (CitiesByInterests).
LEMMA BestFitFirst ==
  ASSUME NEW want
  PROVE  /\ Tagged(want) \in Seq({c.city : c \in Fits(want)})
         /\ \A k, l \in 1..Len(Tagged(want)) : k < l =>
              \E c, d \in Fits(want) : /\ Tagged(want)[k] = c.city /\ Tagged(want)[l] = d.city
                                       /\ Score(c, want) >= Score(d, want)
         /\ \A c \in Fits(want) : \E k \in 1..Len(Tagged(want)) : Tagged(want)[k] = c.city
<1> DEFINE F == Fits(want)
           tagged == Tagged(want)
           fit == Only(Table, F)
           less == {p \in (DOMAIN fit) \X (DOMAIN fit) :
                      Score(fit[p[1]], want) > Score(fit[p[2]], want)}
           best == Sorted(fit, less)
           n == Len(fit)
<1>1. F \in SUBSET Range(Table)
  BY DEF Fitting, Fits
<1>2. fit \in Seq(F) /\ \A c \in F : \E i \in 1..n : fit[i] = c
  BY <1>1, FitListed
<1>3. tagged = [i \in DOMAIN best |-> best[i].city]
  BY DEF CitiesByInterests, Tagged, Fits
<1>4. /\ best \in Seq(F) /\ Len(best) = n
      /\ \A k, l \in 1..n : k < l => Score(best[k], want) >= Score(best[l], want)
      /\ \A i \in 1..n : \E k \in 1..n : best[k] = fit[i]
  <2>1. MoreTags(less, fit, want)
    <3>1. DOMAIN fit = 1..n
      <4> HIDE DEF fit
      <4> QED BY <1>2
    <3>2. \A i, j \in 1..n : <<i, j>> \in less <=> Score(fit[i], want) > Score(fit[j], want)
      <4> HIDE DEF fit, n
      <4> QED BY <3>1
    <3> HIDE DEF fit, less
    <3> QED BY <3>2 DEF MoreTags
  <2>2. fit \in Seq(F)
    BY <1>2
  <2> HIDE DEF fit, less, F
  <2>3. /\ Sorted(fit, less) \in Seq(F) /\ Len(Sorted(fit, less)) = Len(fit)
        /\ \A k, l \in 1..Len(fit) : k < l =>
             Score(Sorted(fit, less)[k], want) >= Score(Sorted(fit, less)[l], want)
        /\ \A i \in 1..Len(fit) : \E k \in 1..Len(fit) : Sorted(fit, less)[k] = fit[i]
    BY <1>1, <2>1, <2>2, BestSorted
  <2> QED BY <2>3
<1>5. n \in Nat
  <2> HIDE DEF fit
  <2> QED BY <1>2
<1> HIDE DEF F, tagged, best, less, fit, n
<1>6. DOMAIN best = 1..n /\ \A i \in 1..n : best[i] \in F
  BY <1>4, <1>5
<1>7. tagged = [i \in 1..n |-> best[i].city]
  BY <1>3, <1>6
<1>8. tagged \in Seq({c.city : c \in F}) /\ Len(tagged) = n
  <2>1. \A i \in 1..n : best[i].city \in {c.city : c \in F}
    BY <1>6
  <2> QED BY <1>5, <1>7, <2>1
<1>9. ASSUME NEW k \in 1..n, NEW l \in 1..n, k < l
       PROVE  \E c, d \in F : /\ tagged[k] = c.city /\ tagged[l] = d.city
                              /\ Score(c, want) >= Score(d, want)
  <2>1. tagged[k] = best[k].city /\ tagged[l] = best[l].city
    BY <1>7
  <2>2. best[k] \in F /\ best[l] \in F /\ Score(best[k], want) >= Score(best[l], want)
    BY <1>4, <1>6, <1>9
  <2> QED BY <2>1, <2>2
<1>10. ASSUME NEW c \in F PROVE \E k \in 1..n : tagged[k] = c.city
  <2>1. PICK i \in 1..n : fit[i] = c
    BY <1>2
  <2>2. PICK k \in 1..n : best[k] = c
    BY <1>4, <2>1
  <2> QED BY <1>7, <2>2
<1> QED BY <1>8, <1>9, <1>10 DEF F, tagged

\* Every list to choose from is a list.
LEMMA MeetFrom ==
  ASSUME NEW from, NEW want, NEW q \in MeetPools(from, want)
  PROVE  \E S : \E p \in Seq(S) : q = Cut(Only(p, Range(p) \ Range(from)))
<1> DEFINE tagged == Tagged(want)
           listed == IF want # {} /\ tagged # <<>> THEN tagged ELSE Hubs
<1>1. PICK p \in {listed} \cup (Proposals \ {<<>>}) :
        q = Cut(Only(p, Range(p) \ Range(from)))
  BY DEF MeetPools, Tagged
<1>2. tagged \in Seq({c.city : c \in Fits(want)})
  BY BestFitFirst
<1>3. p = tagged \/ p = Hubs \/ p \in Proposals
  OBVIOUS
<1> HIDE DEF tagged, listed
<1>4. \E S : p \in Seq(S)
  BY <1>2, <1>3, TripsAssumption
<1> QED BY <1>1, <1>4

\* A list cut to length begins as the list does.
LEMMA CutBegins ==
  ASSUME NEW S, NEW p \in Seq(S)
  PROVE  \E n \in Nat : /\ n <= Len(p) /\ DOMAIN Cut(p) = 1..n
                        /\ \A i \in 1..n : Cut(p)[i] = p[i]
<1> DEFINE n == IF Len(p) < Most THEN Len(p) ELSE Most
<1>1. n \in Nat /\ n <= Len(p) /\ Len(p) \in Nat
  BY TripsAssumption
<1>2. Cut(p) = SubSeq(p, 1, n)
  BY DEF Cut
<1> HIDE DEF n
<1>3. DOMAIN Cut(p) = 1..n /\ \A i \in 1..n : Cut(p)[i] = p[i]
  BY <1>1, <1>2, SubSeqProperties
<1> QED BY <1>1, <1>3

\* Nobody's own city is listed, and where the list is taken from the interests
\* what is left out fits them no better than what is in (handleMeet).
LEMMA MeetInit == Init => BestFitsAreWeighed
<1> SUFFICES ASSUME Init, request.kind = "meet" PROVE BestFitsAreWeighed
  BY DEF BestFitsAreWeighed
<1> DEFINE from == request.from
           want == request.want
           F == Fits(want)
           tagged == Tagged(want)
           own == Range(from)
           kept == Only(tagged, Range(tagged) \ own)
           FitsOf(city) == Score(CHOOSE c \in Range(Table) : c.city = city, want)
           fitting == {c.city : c \in {c \in Range(Table) :
                         ~c.abroad /\ Score(c, want) > 0}} \ own
<1>1. pool \in MeetPools(from, want)
  BY DEF Init
<1>2. Range(pool) \cap own = {}
  <2>1. PICK S : \E p \in Seq(S) : pool = Cut(Only(p, Range(p) \ own))
    BY <1>1, MeetFrom
  <2> PICK p \in Seq(S) : pool = Cut(Only(p, Range(p) \ own))
    BY <2>1
  <2> DEFINE o == Only(p, Range(p) \ own)
  <2>2. o \in Seq(S \cap (Range(p) \ own))
    BY OnlyKeeps
  <2> HIDE DEF o
  <2>3. PICK n \in Nat : /\ n <= Len(o) /\ DOMAIN pool = 1..n
                         /\ \A i \in 1..n : pool[i] = o[i]
    BY <2>2, CutBegins DEF o
  <2>4. \A i \in 1..n : o[i] \in Range(p) \ own
    BY <2>2, <2>3
  <2> QED BY <2>3, <2>4 DEF Range
<1>3. ASSUME want # {}, pool = Cut(kept),
             NEW in \in Range(pool), NEW out \in fitting \ Range(pool)
      PROVE  FitsOf(in) >= FitsOf(out)
  <2>1. /\ tagged \in Seq({c.city : c \in F})
        /\ \A k, l \in 1..Len(tagged) : k < l =>
             \E c, d \in F : /\ tagged[k] = c.city /\ tagged[l] = d.city
                             /\ Score(c, want) >= Score(d, want)
        /\ \A c \in F : \E k \in 1..Len(tagged) : tagged[k] = c.city
    BY BestFitFirst
  <2>2. PICK c \in F : c.city = out
    <3>1. PICK c \in Range(Table) : ~c.abroad /\ Score(c, want) > 0 /\ out = c.city
      BY <1>3
    <3>2. c.city # None
      BY TripsAssumption
    <3>3. c \in F
      BY <1>3, <3>1, <3>2 DEF Fitting, Fits
    <3> QED BY <3>1, <3>3
  <2>3. F \subseteq Range(Table)
    BY DEF Fitting, Fits
  <2>4. \A d \in F : FitsOf(d.city) = Score(d, want)
    <3>1. ASSUME NEW d \in F PROVE (CHOOSE e \in Range(Table) : e.city = d.city) = d
      BY <2>3, TripsAssumption
    <3> QED BY <3>1
  <2>5. out \notin own /\ out \notin Range(pool)
    BY <1>3
  <2> HIDE DEF F, tagged, fitting, FitsOf, own, want, from
  <2>6. PICK k \in 1..Len(tagged) : tagged[k] = out
    BY <2>1, <2>2
  <2>7. tagged[k] \in Range(tagged) \ own
    BY <2>1, <2>5, <2>6 DEF Range
  <2>8. /\ kept \in Seq({d.city : d \in F} \cap (Range(tagged) \ own))
        /\ \A a, b \in 1..Len(kept) : a < b =>
             \E i, j \in 1..Len(tagged) : i < j /\ kept[a] = tagged[i] /\ kept[b] = tagged[j]
        /\ \E b \in 1..Len(kept) : kept[b] = tagged[k]
    <3> HIDE DEF own
    <3>1. kept \in Seq({d.city : d \in F} \cap (Range(tagged) \ own))
      BY <2>1, OnlyKeeps
    <3>2. \A a, b \in 1..Len(kept) : a < b =>
             \E i, j \in 1..Len(tagged) : i < j /\ kept[a] = tagged[i] /\ kept[b] = tagged[j]
      BY <2>1, OnlyInOrder
    <3>3. \E b \in 1..Len(kept) : kept[b] = tagged[k]
      <4> DEFINE T == Range(tagged) \ own
      <4>1. tagged[k] \in T
        BY <2>7
      <4>2. kept = Only(tagged, T)
        OBVIOUS
      <4> HIDE DEF kept, T
      <4>3. tagged \in Seq({d.city : d \in F})
        BY <2>1
      <4>4. \A i \in 1..Len(tagged) : tagged[i] \in T =>
              \E b \in 1..Len(Only(tagged, T)) : Only(tagged, T)[b] = tagged[i]
        BY <4>3, OnlyInOrder
      <4> QED BY <4>1, <4>2, <4>4
    <3> QED BY <3>1, <3>2, <3>3
  <2> HIDE DEF kept
  <2>9. PICK n \in Nat : /\ n <= Len(kept) /\ DOMAIN pool = 1..n
                         /\ \A i \in 1..n : pool[i] = kept[i]
    BY <1>3, <2>8, CutBegins
  <2>10. PICK b \in 1..Len(kept) : kept[b] = out
    BY <2>6, <2>8
  <2>11. PICK a \in 1..n : in = kept[a]
    BY <1>3, <2>9 DEF Range
  <2>12. b \notin 1..n
    BY <2>5, <2>9, <2>10 DEF Range
  <2>13. a \in 1..Len(kept) /\ a < b
    BY <2>8, <2>9, <2>12
  <2>14. PICK i \in 1..Len(tagged), j \in 1..Len(tagged) :
           i < j /\ in = tagged[i] /\ out = tagged[j]
    BY <2>8, <2>10, <2>11, <2>13
  <2>15. PICK c1 \in F, d1 \in F : /\ in = c1.city /\ out = d1.city
                                   /\ Score(c1, want) >= Score(d1, want)
    BY <2>1, <2>14
  <2> QED BY <2>4, <2>15
<1> QED BY <1>2, <1>3 DEF BestFitsAreWeighed, Tagged

\* The invariant of those who want to meet holds when they ask.
LEMMA GatherInit == Init => MeetInv
<1> SUFFICES ASSUME Init, ~ForTrips PROVE GatherInv
  BY DEF MeetInv
<1>1. /\ stage = [i \in Places |-> "direct"] /\ options = [i \in Places |-> None]
      /\ reply = None
  BY DEF Init
<1>2. request \in [kind : {"meet", "vibe"}, from : Groups,
                   want : SUBSET Interests, budget : {0}]
  BY DEF Init, ForTrips
<1>3. request.kind \in {"meet", "vibe"} /\ request.from \in Seq(Starts)
  BY <1>2, TripsAssumption
<1>4. \E S : \E p \in Seq(S) : pool = Cut(p)
  <2>1. CASE request.kind = "meet"
    <3>1. pool \in MeetPools(request.from, request.want)
      BY <2>1 DEF Init
    <3> PICK S : \E p \in Seq(S) : pool = Cut(Only(p, Range(p) \ Range(request.from)))
      BY <3>1, MeetFrom
    <3> PICK p \in Seq(S) : pool = Cut(Only(p, Range(p) \ Range(request.from)))
      OBVIOUS
    <3>2. Only(p, Range(p) \ Range(request.from)) \in Seq(S \cap (Range(p) \ Range(request.from)))
      BY OnlyKeeps
    <3> QED BY <3>2
  <2>2. CASE request.kind = "vibe"
    <3>1. PICK p \in Proposals : pool = Cut(p)
      BY <2>2 DEF Init
    <3>2. p \in Seq(Range(p))
      BY TripsAssumption
    <3> QED BY <3>1, <3>2
  <2> QED BY <1>3, <2>1, <2>2
<1>5. pool \in Seq(Range(pool))
  BY <1>4, CutListed DEF Listed
<1>6. MostComeFirst
  BY <1>1 DEF MostComeFirst
<1> QED BY <1>1, <1>3, <1>5, <1>6 DEF GatherInv

\* A city's price is right when its goroutine has its answers.
LEMMA WeighKeeps ==
  ASSUME GatherInv, ~ForTrips, NEW k \in Places, Weigh(k)
  PROVE  GatherInv'
<1>1. PICK answers \in [DOMAIN request.from -> Answers] :
        Leaves(k, Gathered(pool[k], answers), "done")
  BY DEF Weigh
<1>2. /\ options' = [options EXCEPT ![k] = Gathered(pool[k], answers)]
      /\ stage' = [stage EXCEPT ![k] = "done"]
      /\ request' = request /\ pool' = pool /\ reply' = reply /\ Places' = Places
  BY <1>1 DEF Leaves, Places
<1>3. DOMAIN options = Places /\ DOMAIN stage = Places
  BY DEF GatherInv
<1>4. ASSUME NEW i \in Places
      PROVE  stage'[i] \in {"direct", "done"} /\ (stage'[i] = "done" => Weighed(i)')
  <2>1. CASE i = k
    <3>1. options'[i] = Gathered(pool[i], answers) /\ stage'[i] = "done"
      BY <1>2, <1>3, <2>1
    <3>2. Weighed(i)'
      BY <1>2, <3>1 DEF Weighed
    <3> QED BY <3>1, <3>2
  <2>2. CASE i # k
    <3>1. options'[i] = options[i] /\ stage'[i] = stage[i]
      BY <1>2, <1>3, <2>2
    <3>2. Weighed(i)' = Weighed(i)
      BY <1>2, <3>1 DEF Weighed
    <3> QED BY <3>1, <3>2 DEF GatherInv
  <2> QED BY <2>1, <2>2
<1>5. DOMAIN options' = Places /\ DOMAIN stage' = Places
  BY <1>2, <1>3
<1>6. options' = [i \in Places |-> options'[i]]
  BY <1>2, <1>3
<1>7. MostComeFirst'
  BY <1>2 DEF MostComeFirst, ForTrips, GatherInv
<1> QED BY <1>2, <1>4, <1>5, <1>6, <1>7 DEF GatherInv

\* Results of which each is fair, and the pairs of places that Ahead tells apart.
AllFair(s) == \A i \in 1..Len(s) : Fair(s[i])

ByAhead(less, s) == \A i, j \in 1..Len(s) : <<i, j>> \in less <=> Ahead(s[i], s[j])

\* Of two results the one that goes first is not behind the other.
LEMMA AheadOrder ==
  ASSUME NEW s, NEW less, Len(s) \in Nat, AllFair(s), ByAhead(less, s)
  PROVE  WeakOrder(less, 1..Len(s))
<1> DEFINE n == Len(s)
<1> SUFFICES ASSUME NEW i \in 1..n, NEW j \in 1..n
             PROVE  /\ <<i, j>> \in less => <<j, i>> \notin less
                    /\ \A k \in 1..n : <<i, k>> \in less => <<i, j>> \in less \/ <<j, k>> \in less
  BY DEF WeakOrder
<1>1. \A k, l \in 1..n : <<k, l>> \in less <=>
        \/ s[k].reachable > s[l].reachable
        \/ s[k].reachable = s[l].reachable /\ s[k].total < s[l].total
  BY DEF Ahead, ByAhead
<1>2. \A k \in 1..n : s[k].reachable \in Nat /\ s[k].total \in Nat
  BY DEF AllFair, Fair
<1> HIDE DEF n
<1>3. <<i, j>> \in less => <<j, i>> \notin less
  BY <1>1, <1>2
<1>4. ASSUME NEW k \in 1..n, <<i, k>> \in less PROVE <<i, j>> \in less \/ <<j, k>> \in less
  <2>1. /\ s[i].reachable \in Nat /\ s[j].reachable \in Nat /\ s[k].reachable \in Nat
        /\ s[i].total \in Nat /\ s[j].total \in Nat /\ s[k].total \in Nat
    BY <1>2
  <2>2. \/ s[i].reachable > s[k].reachable
        \/ s[i].reachable = s[k].reachable /\ s[i].total < s[k].total
    BY <1>1, <1>4
  <2>3. \/ s[i].reachable > s[j].reachable
        \/ s[i].reachable = s[j].reachable /\ s[i].total < s[j].total
        \/ s[j].reachable > s[k].reachable
        \/ s[j].reachable = s[k].reachable /\ s[j].total < s[k].total
    BY <2>1, <2>2
  <2> QED BY <1>1, <2>3
<1> QED BY <1>3, <1>4

\* Sorted results: the city that more people reach is first, then the cheaper one.
LEMMA FairSorted ==
  ASSUME NEW S, NEW s \in Seq(S), NEW less, AllFair(s), ByAhead(less, s)
  PROVE  /\ DOMAIN Sorted(s, less) = 1..Len(s)
         /\ \A k \in 1..Len(s) : Fair(Sorted(s, less)[k])
         /\ \A k, l \in 1..Len(s) : k < l =>
              ~Ahead(Sorted(s, less)[l], Sorted(s, less)[k])
<1> DEFINE n == Len(s)
           t == Sorted(s, less)
<1>1. n \in Nat
  OBVIOUS
<1>2. WeakOrder(less, 1..n)
  BY <1>1, AheadOrder
<1>3. /\ t \in Seq(S) /\ Len(t) = n
      /\ \A k \in 1..n : \E i \in 1..n : t[k] = s[i]
  BY <1>2, SortedProperties
<1>4. \A k, l \in 1..n : k < l =>
        \E i, j \in 1..n : t[k] = s[i] /\ t[l] = s[j] /\ <<j, i>> \notin less
  BY <1>2, SortedProperties
<1>5. \A i \in 1..n : Fair(s[i])
  BY DEF AllFair
<1>6. \A i, j \in 1..n : <<i, j>> \in less <=> Ahead(s[i], s[j])
  BY DEF ByAhead
<1> HIDE DEF t, n
<1>7. ASSUME NEW k \in 1..n, NEW l \in 1..n, k < l PROVE ~Ahead(t[l], t[k])
  <2>1. \E i, j \in 1..n : t[k] = s[i] /\ t[l] = s[j] /\ <<j, i>> \notin less
    BY <1>4, <1>7
  <2> PICK i \in 1..n, j \in 1..n : t[k] = s[i] /\ t[l] = s[j] /\ <<j, i>> \notin less
    BY <2>1
  <2> QED BY <1>6
<1>8. DOMAIN t = 1..n
  BY <1>1, <1>3
<1>9. \A k \in 1..n : Fair(t[k])
  BY <1>3, <1>5
<1> QED BY <1>7, <1>8, <1>9 DEF t, n

\* All have their answers: the results are sorted by how many get there.
LEMMA ReplyMeets ==
  ASSUME GatherInv, ~ForTrips, Reply
  PROVE  GatherInv'
<1> DEFINE n == Len(pool)
           less == {p \in Places \X Places : Ahead(options[p[1]], options[p[2]])}
           sorted == Sorted(options, less)
           m == Len(request.from)
<1>1. /\ AllDone /\ UNCHANGED <<request, pool, stage, options>> /\ Places' = Places
      /\ reply' = sorted
  BY DEF Reply, ForTrips, GatherInv, Places
<1>2. n \in Nat /\ Places = 1..n /\ m \in Nat /\ DOMAIN request.from = 1..m
  BY DEF GatherInv, Places
<1>3. ASSUME NEW i \in 1..n PROVE Fair(options[i])
  <2>1. Weighed(i)
    BY <1>1, <1>2 DEF GatherInv, AllDone
  <2>2. PICK answers \in [1..m -> Answers] : options[i] = Gathered(pool[i], answers)
    BY <1>2, <2>1 DEF Weighed
  <2> HIDE DEF m
  <2> QED BY <1>2, <2>2, GatheredCosts
<1>4. /\ options \in Seq({options[i] : i \in 1..n}) /\ Len(options) = n
      /\ DOMAIN options = 1..n
  <2>1. options = [i \in 1..n |-> options[i]]
    BY <1>2 DEF GatherInv
  <2> HIDE DEF n
  <2> DEFINE S == {options[i] : i \in 1..n}
  <2>2. \A i \in 1..n : options[i] \in S
    OBVIOUS
  <2> HIDE DEF S
  <2>3. options \in Seq(S) /\ Len(options) = n /\ DOMAIN options = 1..n
    BY <1>2, <2>1, <2>2
  <2> QED BY <2>3 DEF S
<1>5. ByAhead(less, options)
  <2>1. \A i, j \in 1..n : <<i, j>> \in less <=> Ahead(options[i], options[j])
    <3> HIDE DEF n
    <3> QED BY <1>2
  <2> HIDE DEF less, n
  <2> QED BY <1>4, <2>1 DEF ByAhead
<1>6. AllFair(options)
  <2> HIDE DEF n
  <2> QED BY <1>3, <1>4 DEF AllFair
<1>7. /\ DOMAIN sorted = 1..n
      /\ \A k \in 1..n : Fair(sorted[k])
      /\ \A k, l \in 1..n : k < l => ~Ahead(sorted[l], sorted[k])
  <2> HIDE DEF less
  <2>1. /\ DOMAIN Sorted(options, less) = 1..Len(options)
        /\ \A k \in 1..Len(options) : Fair(Sorted(options, less)[k])
        /\ \A k, l \in 1..Len(options) : k < l =>
             ~Ahead(Sorted(options, less)[l], Sorted(options, less)[k])
    BY <1>4, <1>5, <1>6, FairSorted
  <2>2. Len(options) = n
    BY <1>4
  <2> HIDE DEF n
  <2> QED BY <2>1, <2>2
<1> HIDE DEF sorted, n
<1>8. ASSUME NEW k \in 1..n, NEW l \in 1..n, k < l
      PROVE  \/ Cardinality(Come(sorted[k])) > Cardinality(Come(sorted[l]))
             \/ /\ Cardinality(Come(sorted[k])) = Cardinality(Come(sorted[l]))
                /\ sorted[k].total <= sorted[l].total
  <2>1. ~Ahead(sorted[l], sorted[k]) /\ Fair(sorted[k]) /\ Fair(sorted[l])
    BY <1>7, <1>8
  <2> QED BY <2>1 DEF Ahead, Fair
<1>9. MostComeFirst'
  <2> HIDE DEF m
  <2>1. reply' = sorted
    BY <1>1
  <2>2. \A k \in DOMAIN sorted : sorted[k].total = Costs(sorted[k])
    BY <1>7 DEF Fair
  <2> QED BY <1>7, <1>8, <2>1, <2>2 DEF MostComeFirst, Come, Costs
<1>10. \A i \in Places : Weighed(i)' = Weighed(i)
  BY <1>1 DEF Weighed
<1> QED BY <1>1, <1>9, <1>10 DEF GatherInv

\* Every step keeps the invariant of those who want to meet.
LEMMA MeetStep == MeetInv /\ [Next]_vars => MeetInv'
<1> SUFFICES ASSUME MeetInv, [Next]_vars PROVE MeetInv'
  OBVIOUS
<1>1. request' = request /\ pool' = pool
  BY DEF Next, Place, Direct, Feed, Relay, Weigh, Leaves, TryHub, Reply, vars
<1>2. CASE ForTrips
  BY <1>1, <1>2 DEF MeetInv, ForTrips
<1>3. CASE ~ForTrips
  <2>1. GatherInv
    BY <1>3 DEF MeetInv
  <2> SUFFICES GatherInv'
    BY DEF MeetInv
  <2>2. ASSUME NEW k \in Places, Place(k) PROVE GatherInv'
    <3>1. stage[k] \in {"direct", "done"}
      BY <2>1 DEF GatherInv
    <3>2. Weigh(k)
      BY <1>3, <2>2, <3>1 DEF Place, Direct, Feed, Relay, ForTrips
    <3> QED BY <1>3, <2>1, <3>2, WeighKeeps
  <2>3. CASE TryHub
    BY <1>3, <2>3 DEF TryHub, ForTrips
  <2>4. CASE Reply
    BY <1>3, <2>1, <2>4, ReplyMeets
  <2>5. CASE UNCHANGED vars
    <3>1. UNCHANGED <<request, pool, stage, options, reply>> /\ Places' = Places
          /\ ForTrips' = ForTrips
      BY <2>5 DEF vars, Places, ForTrips
    <3>2. \A i \in Places : Weighed(i)' = Weighed(i)
      BY <3>1 DEF Weighed
    <3>3. MostComeFirst' = MostComeFirst
      BY <3>1 DEF MostComeFirst
    <3> QED BY <2>1, <3>1, <3>2, <3>3 DEF GatherInv
  <2> QED BY <2>2, <2>3, <2>4, <2>5 DEF Next
<1> QED BY <1>2, <1>3

\* The request and its list of cities are read, never written.
LEMMA ListStays == BestFitsAreWeighed /\ [Next]_vars => BestFitsAreWeighed'
<1> SUFFICES ASSUME BestFitsAreWeighed, [Next]_vars PROVE BestFitsAreWeighed'
  OBVIOUS
<1>1. request' = request /\ pool' = pool
  BY DEF Next, Place, Direct, Feed, Relay, Weigh, Leaves, TryHub, Reply, vars
<1>2. CASE request.kind # "meet"
  BY <1>1, <1>2 DEF BestFitsAreWeighed
<1>3. CASE request.kind = "meet"
  <2> DEFINE tagged == Tagged(request.want)
             asTagged == Cut(Only(tagged, Range(tagged) \ Range(request.from)))
             FitsOf(city) == Score(CHOOSE c \in Range(Table) : c.city = city, request.want)
             fitting == {c.city : c \in {c \in Range(Table) :
                           ~c.abroad /\ Score(c, request.want) > 0}} \ Range(request.from)
  <2>1. tagged' = tagged /\ asTagged' = asTagged /\ fitting' = fitting
    BY <1>1
  <2>2. \A city : FitsOf(city)' = FitsOf(city)
    BY <1>1
  <2> QED BY <1>1, <1>3, <2>1, <2>2 DEF BestFitsAreWeighed, Tagged
<1> QED BY <1>2, <1>3

\* For any table, hubs, interests, groups and answers, in whatever order these
\* come: nobody's own city is weighed and none is left out for one that fits
\* fewer interests, a city costs the lowest fares that arrive in time, and the
\* city that more people reach comes first, then the cheaper one (handleMeet,
\* CitiesByInterests and RankVibeCities).
THEOREM MeetsWell == Spec => []MeetsWhereMostCome
<1>1. MeetInv => MostComeFirst
  <2>1. ForTrips => MostComeFirst
    BY DEF MostComeFirst
  <2> QED BY <2>1 DEF MeetInv, GatherInv
<1>2. MostComeFirst /\ BestFitsAreWeighed => MeetsWhereMostCome
  BY DEF MeetsWhereMostCome
<1> QED BY <1>1, <1>2, MeetInit, ListStays, GatherInit, MeetStep, PTL DEF Spec
=============================================================================
