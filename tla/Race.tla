-------------------------------- MODULE Race --------------------------------
(***************************************************************************)
(* How DnsResolver sends one query to its nameservers: send_query tries    *)
(* the primary tier and then the fallback tier, and race runs one tier     *)
(* happy-eyeballs style over an order taken from the shared cost estimates *)
(* (rtt_map). Several queries run concurrently and share the estimates.    *)
(*                                                                         *)
(* A nameserver attempt (query_nameserver) is a dial that ends in success  *)
(* or failure after any time; module NameserverQuery models its inside for UDP. Costs are *)
(* integer levels, one level being the neutral baseline's 50ms.            *)
(***************************************************************************)
EXTENDS Integers, FiniteSets, Sequences

CONSTANTS Query,           \* concurrent calls of send_query
          NameserverCount, \* config.nameservers.len()
          PrimaryCount,    \* ResolverState::primary_count
          MaxConcurrent,   \* MAX_CONCURRENT_QUERIES
          NoTls,           \* the DoT and DoH nameservers, if no TLS config is set
          Samples,         \* attempt durations a success may report, in levels
          Baseline,        \* SRTT_BASELINE_MICROS
          Penalty,         \* SRTT_FAILURE_PENALTY_MICROS
          MaxCost          \* SRTT_MAX_MICROS

Server == 1 .. NameserverCount

ASSUME RaceAssumption ==
    /\ NameserverCount \in Nat
    /\ PrimaryCount \in 0 .. NameserverCount
    /\ MaxConcurrent \in Nat \ {0}
    /\ NoTls \subseteq Server
    /\ Samples \subseteq Nat
    /\ {Baseline, Penalty, MaxCost} \subseteq Nat
    /\ Baseline <= MaxCost

VARIABLES phase,  \* where each query is
          tier,   \* the tier it races
          race,   \* the local variables of its running race
          result, \* what send_query returned
          cost,   \* rtt_map: each nameserver's decayed attempt cost
          \* History, for the properties only:
          failed, \* the nameservers that failed the query
          waits,  \* how many attempt delays ran out in the running race
          calm    \* no cost has changed since the query began to sort

vars == <<phase, tier, race, result, cost, failed, waits, calm>>

Phase == {"idle", "ordering", "racing", "done"}
Tier == {"primary", "fallback"}
NoErr == "none"
\* The classes of error an attempt can end with: MissingTlsConfig is fatal to
\* a lookup, a timeout, transport failure or retryable rcode is not.
Failure == {"transient", "missingTls"}

TierServers(t) == IF t = "primary" THEN 1 .. PrimaryCount
                                   ELSE PrimaryCount + 1 .. NameserverCount
TierSize(t) == IF t = "primary" THEN PrimaryCount ELSE NameserverCount - PrimaryCount

\* The nameserver at place i of the tier, counted from 1.
Nth(t, i) == IF t = "primary" THEN i ELSE PrimaryCount + i

\* The local variables of race before its sort: the entry at hole is being
\* moved to its place among the first tail ones, which are otherwise sorted.
NewRace(t) ==
    [order |-> [i \in 1 .. TierSize(t) |-> Nth(t, i)],
     tail |-> 2, hole |-> 2,
     next |-> 0, dials |-> {}, delayed |-> FALSE, lastErr |-> NoErr]

Init == /\ phase = [q \in Query |-> "idle"]
        /\ tier = [q \in Query |-> "primary"]
        /\ race = [q \in Query |-> NewRace("primary")]
        /\ result = [q \in Query |-> NoErr]
        /\ cost = [s \in Server |-> Baseline]
        /\ failed = [q \in Query |-> {}]
        /\ waits = [q \in Query |-> 0]
        /\ calm = [q \in Query |-> TRUE]

-----------------------------------------------------------------------------
(* The shared cost estimates. *)

Capped(c) == IF c > MaxCost THEN MaxCost ELSE c
\* SRTT_ALPHA is 0.3.
Succeeded(c, sample) == Capped((3 * sample + 7 * c) \div 10)
\* Mutant: no upper bound on a penalty.
PenalizedUncapped(c) == c + Penalty
Penalized(c) == Capped(c + Penalty)

\* A query that is sorting reads the estimates as they change.
SetCost(s, c) == /\ cost' = [cost EXCEPT ![s] = c]
                 /\ calm' = [q \in Query |-> phase[q] # "ordering"]

\* An estimate relaxes towards the baseline as it ages.
Decay(s) == /\ cost[s] # Baseline
            /\ SetCost(s, IF cost[s] > Baseline THEN cost[s] - 1 ELSE cost[s] + 1)
            /\ UNCHANGED <<phase, tier, race, result, failed, waits>>

-----------------------------------------------------------------------------
(* order_indices: an insertion sort of the tier by cost. Each comparison    *)
(* takes the lock and reads the estimates anew.                              *)

\* send_query is called.
Begin(q) == /\ phase[q] = "idle"
            /\ IF NameserverCount = 0
                  THEN /\ phase' = [phase EXCEPT ![q] = "done"]
                       /\ result' = [result EXCEPT ![q] = "noNameservers"]
                  ELSE /\ phase' = [phase EXCEPT ![q] = "ordering"]
                       /\ UNCHANGED result
            /\ UNCHANGED <<tier, race, cost, failed, waits, calm>>

\* Mutant: an unstable comparison.
MisplacedUnstable(r) == r.hole > 1 /\ cost[r.order[r.hole]] <= cost[r.order[r.hole - 1]]

\* The entry at hole is faster than the one before it.
Misplaced(r) == r.hole > 1 /\ cost[r.order[r.hole]] < cost[r.order[r.hole - 1]]

Swapped(r) == [r EXCEPT !.order = [@ EXCEPT ![r.hole] = r.order[r.hole - 1],
                                            ![r.hole - 1] = r.order[r.hole]],
                        !.hole = @ - 1]

\* The entry at hole is in its place: the next one is taken.
Settled(r) == [r EXCEPT !.tail = @ + 1, !.hole = r.tail + 1]

Sort(q) == LET r == race[q]
           IN /\ phase[q] = "ordering"
              /\ r.tail <= Len(r.order)
              /\ race' = [race EXCEPT ![q] = IF Misplaced(r) THEN Swapped(r) ELSE Settled(r)]
              /\ UNCHANGED <<phase, tier, result, cost, failed, waits, calm>>

-----------------------------------------------------------------------------
(* race: the loop. *)

\* Mutants: the cap or the end of the list off by one.
MayStartUnderCap(r) == /\ ~r.delayed
                       /\ Cardinality(r.dials) < MaxConcurrent - 1
                       /\ r.next < Len(r.order)
MayStartOverCap(r) == /\ ~r.delayed
                      /\ Cardinality(r.dials) <= MaxConcurrent
                      /\ r.next < Len(r.order)
MayStartNotLast(r) == /\ ~r.delayed
                      /\ Cardinality(r.dials) < MaxConcurrent
                      /\ r.next + 1 < Len(r.order)

MayStart(r) == /\ ~r.delayed
               /\ Cardinality(r.dials) < MaxConcurrent
               /\ r.next < Len(r.order)

\* Mutant: the delay is never set.
StartUnpaced(r) == [r EXCEPT !.next = @ + 1,
                             !.dials = @ \cup {r.order[r.next + 1]},
                             !.delayed = FALSE]

\* The next nameserver is dialled; the delay is set unless it was the last.
Start(r) == [r EXCEPT !.next = @ + 1,
                      !.dials = @ \cup {r.order[r.next + 1]},
                      !.delayed = r.next + 1 < Len(r.order)]

\* The head of the loop, up to select.
LoopHead(r) == IF MayStart(r) THEN Start(r) ELSE r

Exhausted(r) == r.dials = {} /\ r.next >= Len(r.order)

\* Mutant: the test for a fallback tier inverted.
EscalatesNever(q) == tier[q] = "primary" /\ PrimaryCount = NameserverCount

\* Every primary nameserver failed and there is a fallback tier.
Escalates(q) == tier[q] = "primary" /\ PrimaryCount # NameserverCount

\* The race of q goes on with local variables r: it waits in select, or is
\* over and send_query escalates or returns its error.
Resume(q, r) ==
    LET h == LoopHead(r)
    IN CASE ~Exhausted(h) ->
              /\ phase' = [phase EXCEPT ![q] = "racing"]
              /\ race' = [race EXCEPT ![q] = h]
              /\ UNCHANGED <<tier, result>>
         [] Exhausted(h) /\ Escalates(q) ->
              /\ phase' = [phase EXCEPT ![q] = "ordering"]
              /\ tier' = [tier EXCEPT ![q] = "fallback"]
              /\ race' = [race EXCEPT ![q] = NewRace("fallback")]
              /\ UNCHANGED result
         [] Exhausted(h) /\ ~Escalates(q) ->
              /\ phase' = [phase EXCEPT ![q] = "done"]
              /\ race' = [race EXCEPT ![q] = h]
              /\ result' = [result EXCEPT ![q] = IF h.lastErr = NoErr THEN "noResponse"
                                                                      ELSE h.lastErr]
              /\ UNCHANGED tier

\* The order is settled and the loop entered.
Enter(q) == /\ phase[q] = "ordering"
            /\ race[q].tail > Len(race[q].order)
            /\ Resume(q, race[q])
            /\ waits' = [waits EXCEPT ![q] = 0]
            /\ calm' = [calm EXCEPT ![q] = TRUE]
            /\ UNCHANGED <<cost, failed>>

\* What a failed dial leaves: the next attempt is due at once.
Lose(r, s, e) == [r EXCEPT !.dials = @ \ {s}, !.lastErr = e, !.delayed = FALSE]

\* A dial fails: an error, a timeout, or a SERVFAIL, REFUSED or FORMERR.
DialFails(q, s) == /\ phase[q] = "racing"
                   /\ s \in race[q].dials
                   /\ \E e \in Failure : /\ e = "missingTls" <=> s \in NoTls
                                         /\ Resume(q, Lose(race[q], s, e))
                   /\ SetCost(s, Penalized(cost[s]))
                   /\ failed' = [failed EXCEPT ![q] = @ \cup {s}]
                   /\ UNCHANGED waits

\* A dial is answered: the race returns and drops the other dials.
DialSucceeds(q, s) == /\ phase[q] = "racing"
                      /\ s \in race[q].dials \ NoTls
                      /\ \E sample \in Samples : SetCost(s, Succeeded(cost[s], sample))
                      /\ phase' = [phase EXCEPT ![q] = "done"]
                      /\ race' = [race EXCEPT ![q].dials = {}]
                      /\ result' = [result EXCEPT ![q] = "answer"]
                      /\ UNCHANGED <<tier, failed, waits>>

\* QUERY_ATTEMPT_DELAY ran out.
DelayEnds(q) == /\ phase[q] = "racing"
                /\ race[q].delayed
                /\ Resume(q, [race[q] EXCEPT !.delayed = FALSE])
                /\ waits' = [waits EXCEPT ![q] = @ + 1]
                /\ UNCHANGED <<cost, failed, calm>>

\* The caller drops the future of the lookup.
Cancel(q) == /\ phase[q] \in {"ordering", "racing"}
             /\ phase' = [phase EXCEPT ![q] = "done"]
             /\ race' = [race EXCEPT ![q].dials = {}]
             /\ result' = [result EXCEPT ![q] = "dropped"]
             /\ calm' = [calm EXCEPT ![q] = TRUE]
             /\ UNCHANGED <<tier, cost, failed, waits>>

Finished == (\A q \in Query : phase[q] = "done") /\ UNCHANGED vars

Next == \/ \E q \in Query : \/ Begin(q) \/ Sort(q) \/ Enter(q)
                            \/ \E s \in Server : DialFails(q, s) \/ DialSucceeds(q, s)
                            \/ DelayEnds(q)
                            \/ Cancel(q)
        \/ \E s \in Server : Decay(s)
        \/ Finished

Spec == Init /\ [][Next]_vars

\* A polled query makes progress, its sleeps end, and every attempt ends: each
\* is bounded by its timeout. Nothing makes a caller call or cancel.
Fairness == \A q \in Query :
                /\ WF_vars(Sort(q)) /\ WF_vars(Enter(q)) /\ WF_vars(DelayEnds(q))
                /\ \A s \in Server : WF_vars(DialFails(q, s) \/ DialSucceeds(q, s))

FairSpec == Spec /\ Fairness

-----------------------------------------------------------------------------
(* Properties. *)

RaceState == [order : Seq(Server), tail : Nat, hole : Nat, next : Nat,
              dials : SUBSET Server, delayed : BOOLEAN, lastErr : Failure \cup {NoErr}]

\* Every variable has its type, and a race orders exactly its tier.
TypeOK == /\ phase \in [Query -> Phase]
          /\ tier \in [Query -> Tier]
          /\ race \in [Query -> RaceState]
          /\ \A q \in Query : race[q].order \in [1 .. TierSize(tier[q]) -> Server]
          /\ result \in [Query -> Failure \cup {NoErr, "answer", "dropped",
                                                "noResponse", "noNameservers"}]
          /\ cost \in [Server -> 0 .. MaxCost]
          /\ failed \in [Query -> SUBSET Server]
          /\ waits \in [Query -> Nat]
          /\ calm \in [Query -> BOOLEAN]

\* While race waits in select, an attempt is in flight, and another one is only
\* held back by the delay, by the cap or because none is left: no order of
\* failures, answers and delays leaves the loop waiting for nothing.
WorkConserving ==
    \A q \in Query : phase[q] = "racing" =>
        LET r == race[q]
        IN /\ r.dials # {}
           /\ Cardinality(r.dials) <= MaxConcurrent
           /\ r.delayed \/ Cardinality(r.dials) = MaxConcurrent \/ r.next = Len(r.order)

\* Every delay that ran out let one more nameserver in, until the cap or the end
\* of the list: however attempts fail meanwhile, the one at place k of the order
\* has started after k - 1 delays. default_order relies on it to have a DoH
\* nameserver, its third, asked within 200ms.
FirstWave ==
    \A q \in Query : phase[q] = "racing" =>
        \/ race[q].next > waits[q]
        \/ race[q].next >= MaxConcurrent
        \/ race[q].next = Len(race[q].order)

\* send_query asks a fallback nameserver only once every primary one has failed
\* or timed out in this query, and returns an error only when every configured
\* one has: no answer, and no nameserver not yet asked, is given up on.
TiersAreExhausted ==
    \A q \in Query :
        /\ race[q].dials \subseteq 1 .. PrimaryCount \/ 1 .. PrimaryCount \subseteq failed[q]
        /\ phase[q] = "done" /\ result[q] \notin {"answer", "dropped"} => failed[q] = Server

\* Losing a dial starts the next one in the same step, if one is left in the tier:
\* a failed attempt is not made to wait out the delay.
FailFast ==
    [][\A q \in Query :
          failed'[q] # failed[q] /\ race[q].next < Len(race[q].order)
             => race'[q].next = race[q].next + 1]_vars

\* s is asked before t: it costs less, or as much and is configured earlier.
Before(s, t) == cost[s] < cost[t] \/ (cost[s] = cost[t] /\ s < t)

\* The order of a race is by cost, and by place in the configuration where costs
\* are equal, unless other queries moved the costs during its sort.
SortedWhenCalm ==
    [][\A q \in Query :
          phase[q] = "ordering" /\ phase'[q] = "racing" /\ calm[q]
             => \A i, j \in DOMAIN race[q].order :
                   i < j => Before(race[q].order[i], race[q].order[j])]_vars

\* race and send_query keep what TieredQuery promises of a query.
Outcome(q) == IF phase[q] # "done" THEN "pending"
              ELSE IF result[q] \in {"answer", "dropped"} THEN result[q] ELSE "error"

Tiered == INSTANCE TieredQuery WITH
              inflight <- [q \in Query |-> race[q].dials],
              outcome <- [q \in Query |-> Outcome(q)]

ImplementsTieredQuery == Tiered!Spec

\* A query that was started returns.
QueryReturns == \A q \in Query : phase[q] = "ordering" ~> phase[q] = "done"

-----------------------------------------------------------------------------
(* The inductive invariant: what TypeOK, WorkConserving, FirstWave and     *)
(* TiersAreExhausted rest on.                                              *)

\* The nameservers that failed before the race of tier t began.
Earlier(t) == IF t = "primary" THEN {} ELSE 1 .. PrimaryCount

\* The nameservers the race has dialled so far.
Started(r) == {r.order[i] : i \in 1 .. r.next}

\* The order lists each nameserver of the tier once.
OrderOK(t, r) ==
    /\ r \in RaceState
    /\ r.order \in [1 .. TierSize(t) -> TierServers(t)]
    /\ \A i, j \in 1 .. TierSize(t) : r.order[i] = r.order[j] => i = j
    /\ \A s \in TierServers(t) : \E i \in 1 .. TierSize(t) : r.order[i] = s

\* Every nameserver started is in flight or has failed.
AccountOK(t, r, lost) ==
    /\ r.next <= TierSize(t)
    /\ r.dials \subseteq Started(r)
    /\ lost = Earlier(t) \cup (Started(r) \ r.dials)
    /\ Cardinality(r.dials) <= r.next

\* The loop is in select with something to wait for, and holds nothing back.
SelectOK(t, r) ==
    /\ r.dials # {}
    /\ Cardinality(r.dials) <= MaxConcurrent
    /\ r.delayed \/ Cardinality(r.dials) = MaxConcurrent \/ r.next = TierSize(t)

QueryInv(q) ==
    /\ OrderOK(tier[q], race[q])
    /\ tier[q] = "fallback" => PrimaryCount # NameserverCount
    /\ phase[q] # "done" => /\ AccountOK(tier[q], race[q], failed[q])
                            /\ result[q] = NoErr
    /\ phase[q] = "idle" => tier[q] = "primary"
    /\ phase[q] \in {"idle", "ordering"} =>
          /\ race[q].next = 0
          /\ ~race[q].delayed
          /\ race[q].hole \in 1 .. race[q].tail
    /\ phase[q] = "racing" => /\ SelectOK(tier[q], race[q])
                              /\ \/ race[q].next > waits[q]
                                 \/ race[q].next >= MaxConcurrent
                                 \/ race[q].next = TierSize(tier[q])
    /\ phase[q] = "done" => /\ race[q].dials = {}
                            /\ result[q] \in {"answer", "dropped"} \/ failed[q] = Server

\* Together with the types, this is preserved by every step.
Inv == TypeOK /\ \A q \in Query : QueryInv(q)

(* What SortedWhenCalm rests on besides.                                   *)

\* The sort has not been beyond tail, and the entry at hole, which it took from
\* there, was configured after all the others it has been over.
SortOK(t, r) ==
    /\ r.tail >= 2
    /\ r.tail > TierSize(t) => r.hole = r.tail
    /\ \A i \in 1 .. TierSize(t) :
          /\ i > r.tail => r.order[i] = Nth(t, i)
          /\ i <= r.tail /\ i # r.hole => r.order[i] < Nth(t, r.tail)
          /\ i = r.hole => r.order[i] = Nth(t, r.tail)

\* The entries up to tail are sorted, but that the one at hole may still have to move
\* to the front.
SortedSoFar(t, r) ==
    \A i, j \in 1 .. TierSize(t) :
        i < j /\ j <= r.tail /\ j # r.hole => Before(r.order[i], r.order[j])

SortInv(q) ==
    /\ phase[q] = "idle" => race[q] = NewRace("primary")
    /\ phase[q] = "ordering" => /\ SortOK(tier[q], race[q])
                                /\ calm[q] => SortedSoFar(tier[q], race[q])

\* Together with Inv, this is preserved by every step.
CalmInv == \A q \in Query : SortInv(q)

=============================================================================
