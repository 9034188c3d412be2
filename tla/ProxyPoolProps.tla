--------------------------- MODULE ProxyPoolProps ----------------------------
(***************************************************************************)
(* What the pool of proxies promises to the calls that go through it.       *)
(***************************************************************************)
EXTENDS ProxyPool

\* Every variable keeps its type; no proxy in play counts as many failures as
\* would bench it.
TypeOK ==
  /\ seq \in Proxies
  /\ fails \in [Proxies -> 0..(BenchFails - 1)]
  /\ bench \subseteq Proxies /\ probing \subseteq Proxies
  /\ callers \in [Callers -> [pc : {"idle", "ready", "wire", "exhausted"},
                              proxy : Proxies, tries : 0..(MaxRetries + 1)]]
  /\ lone \subseteq Callers
  /\ sour \subseteq Proxies
  /\ met \in [Callers -> SUBSET Proxies]

\* The retries walk around dead addresses: a call that gives up although no
\* other call took a turn in between has itself failed on every proxy of the pool
\* that was not on the bench when it took a turn, whatever probes and benches do
\* meanwhile.
WalksAround ==
  \A c \in Callers : At(c, "exhausted") /\ c \in lone => met[c] = Proxies

\* What the comment on the number of retries says of every call: there are enough
\* to get around the dead addresses, at least one per proxy.
WalksAroundAmongOthers ==
  \A c \in Callers : At(c, "exhausted") => met[c] = Proxies

\* A proxy is benched for a failed probe or for a failure right after another:
\* never for one that follows a success, whoever reported it.
BenchedForCause ==
  [][\A p \in Proxies :
       p \in bench' \ bench => p \in sour \/ p \in probing \ probing']_vars

\* p is picked.
Picked(p) == \E c \in Callers : Pick(c, p)

\* Traffic is spread: as long as requests go out, a proxy that stays off the
\* bench gets its turn again and again.
EachTakesTurns ==
  \A p \in Proxies :
    /\ []<><<\E q \in Proxies : Picked(q)>>_vars
    /\ <>[](p \notin bench)
    => []<><<Picked(p)>>_vars

\* p fails, for a call or for the probe.
FailsOn(p) == \/ \E c \in Callers : Fail(c) /\ callers[c].proxy = p
              \/ ProbeBad(p)

\* A proxy that works again comes back from the bench to stay, in whatever order
\* the reports of the calls and of the probe arrive.
WorkingComesBack ==
  \A p \in Proxies : <>[][~FailsOn(p)]_vars => <>[](p \notin bench)
=============================================================================
