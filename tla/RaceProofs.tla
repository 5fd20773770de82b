----------------------------- MODULE RaceProofs -----------------------------
(***************************************************************************)
(* Proofs about Race, for any number of queries and nameservers, any split *)
(* into tiers and any cap: Inv is inductive, the safety invariants follow  *)
(* from it, a sort that no other query disturbs sorts, and Race implements *)
(* TieredQuery.                                                            *)
(***************************************************************************)
EXTENDS Race, FiniteSetTheorems, SequenceTheorems, TLAPS

-----------------------------------------------------------------------------
(* The constants and the operators on a race's local variables. *)

\* The tiers are disjoint parts of the nameservers and their sizes are numbers.
LEMMA TierFacts ==
    ASSUME NEW t \in Tier
    PROVE  /\ NameserverCount \in Nat
           /\ PrimaryCount \in Nat
           /\ PrimaryCount <= NameserverCount
           /\ TierSize(t) \in Nat
           /\ TierServers(t) \subseteq Server
           /\ Earlier(t) \subseteq Server
           /\ TierServers("primary") = 1 .. PrimaryCount
           /\ TierServers("fallback") = Server \ (1 .. PrimaryCount)
    BY RaceAssumption DEF Tier, TierSize, TierServers, Earlier, Server

\* The length of an order is the size of its tier.
LEMMA OrderLength ==
    ASSUME NEW t \in Tier, NEW r, OrderOK(t, r)
    PROVE  Len(r.order) = TierSize(t)
<1>1. r.order \in Seq(Server)
    BY DEF OrderOK, RaceState
<1>2. /\ Len(r.order) \in Nat
      /\ DOMAIN r.order = 1 .. Len(r.order)
    BY <1>1, LenProperties
<1>3. DOMAIN r.order = 1 .. TierSize(t)
    BY DEF OrderOK
<1>4. TierSize(t) \in Nat
    BY TierFacts
<1> QED
    BY <1>2, <1>3, <1>4

\* A set of nameservers is finite, so that its size is a number.
LEMMA ServersFinite ==
    ASSUME NEW S \in SUBSET Server
    PROVE  IsFiniteSet(S) /\ Cardinality(S) \in Nat
<1>1. IsFiniteSet(Server)
    BY RaceAssumption, FS_Interval DEF Server
<1> QED
    BY <1>1, FS_Subset, FS_CardinalityType

\* The race that a tier starts with lists the tier.
LEMMA NewRaceOK ==
    ASSUME NEW t \in Tier
    PROVE  /\ OrderOK(t, NewRace(t))
           /\ AccountOK(t, NewRace(t), Earlier(t))
<1> DEFINE r == NewRace(t)
<1>1. r.order \in [1 .. TierSize(t) -> TierServers(t)]
    BY TierFacts DEF NewRace, Nth, TierSize, TierServers, Tier
<1>2. r.order \in Seq(Server)
  <2>1. r.order \in [1 .. TierSize(t) -> Server]
      BY <1>1, TierFacts
  <2> QED
      BY <2>1, TierFacts, IsASeq
<1>3. r \in RaceState
    BY <1>2 DEF NewRace, RaceState
<1>4. \A i, j \in 1 .. TierSize(t) : r.order[i] = r.order[j] => i = j
    BY TierFacts DEF NewRace, Nth, Tier
<1>5. \A s \in TierServers(t) : \E i \in 1 .. TierSize(t) : r.order[i] = s
  <2> TAKE s \in TierServers(t)
  <2>1. CASE t = "primary"
      BY <2>1, TierFacts DEF NewRace, Nth, TierServers, TierSize
  <2>2. CASE t = "fallback"
    <3>1. s - PrimaryCount \in 1 .. TierSize(t)
        BY <2>2, TierFacts DEF TierServers, TierSize
    <3>2. r.order[s - PrimaryCount] = s
        BY <2>2, <3>1, TierFacts DEF NewRace, Nth, TierServers
    <3> QED
        BY <3>1, <3>2
  <2> QED
      BY <2>1, <2>2 DEF Tier
<1>6. /\ r.next = 0
      /\ r.dials = {}
    BY DEF NewRace
<1>7. /\ Started(r) = {}
      /\ Cardinality(r.dials) = 0
    BY <1>6, FS_EmptySet DEF Started
<1>8. OrderOK(t, r)
    BY <1>1, <1>3, <1>4, <1>5 DEF OrderOK
<1>9. AccountOK(t, r, Earlier(t))
    BY <1>6, <1>7, TierFacts DEF AccountOK
<1> QED
    BY <1>8, <1>9

\* Exchanging two neighbours keeps the order a listing of the tier.
LEMMA SwappedOK ==
    ASSUME NEW t \in Tier, NEW r, OrderOK(t, r),
           r.hole \in 2 .. TierSize(t)
    PROVE  OrderOK(t, Swapped(r))
<1> DEFINE o == r.order
           n == TierSize(t)
           p == [o EXCEPT ![r.hole] = o[r.hole - 1], ![r.hole - 1] = o[r.hole]]
<1>1. n \in Nat /\ r.hole \in 1 .. n /\ r.hole - 1 \in 1 .. n
    BY TierFacts
<1>2. o \in [1 .. n -> TierServers(t)] /\ o \in Seq(Server)
    BY DEF OrderOK, RaceState
<1>3. Swapped(r) = [r EXCEPT !.order = p, !.hole = r.hole - 1]
    BY DEF Swapped
<1>4. p \in [1 .. n -> TierServers(t)]
    BY <1>1, <1>2
<1>5. p \in Seq(Server)
  <2>1. Len(o) = n
      BY OrderLength
  <2>2. o[r.hole] \in Server /\ o[r.hole - 1] \in Server
      BY <1>1, <1>2, TierFacts
  <2> DEFINE o1 == [o EXCEPT ![r.hole] = o[r.hole - 1]]
  <2>3. o1 \in Seq(Server) /\ Len(o1) = n
      BY <1>1, <1>2, <2>1, <2>2, ExceptSeq
  <2>4. [o1 EXCEPT ![r.hole - 1] = o[r.hole]] \in Seq(Server)
    <3> HIDE DEF o1
    <3> QED
        BY <1>1, <2>2, <2>3, ExceptSeq
  <2> QED
      BY <2>4
<1>6. Swapped(r) \in RaceState /\ Swapped(r).order = p
  <2> HIDE DEF p, o, n
  <2>1. r \in RaceState
      BY DEF OrderOK
  <2>2. r.hole - 1 \in Nat
      BY <1>1, <2>1 DEF RaceState, n
  <2> QED
      BY <1>3, <1>5, <2>1, <2>2 DEF RaceState
<1>7. \A i \in 1 .. n : p[i] = o[IF i = r.hole THEN r.hole - 1
                                 ELSE IF i = r.hole - 1 THEN r.hole ELSE i]
    BY <1>1, <1>2
<1>8. \A i, j \in 1 .. n : p[i] = p[j] => i = j
  <2>1. \A i, j \in 1 .. n : o[i] = o[j] => i = j
      BY DEF OrderOK
  <2> QED
      BY <1>1, <1>7, <2>1
<1>9. \A s \in TierServers(t) : \E i \in 1 .. n : p[i] = s
  <2> TAKE s \in TierServers(t)
  <2>1. PICK i \in 1 .. n : o[i] = s
      BY DEF OrderOK
  <2> DEFINE j == IF i = r.hole THEN r.hole - 1 ELSE IF i = r.hole - 1 THEN r.hole ELSE i
  <2>2. j \in 1 .. n /\ p[j] = s
      BY <1>1, <1>7, <2>1
  <2> QED
      BY <2>2
<1> QED
    BY <1>4, <1>6, <1>8, <1>9 DEF OrderOK

\* What an OrderOK order means for the nameservers started so far.
LEMMA StartedFacts ==
    ASSUME NEW t \in Tier, NEW r, OrderOK(t, r), r.next <= TierSize(t)
    PROVE  /\ Started(r) \subseteq TierServers(t)
           /\ r.next = TierSize(t) => Started(r) = TierServers(t)
           /\ r.next < TierSize(t) =>
                 /\ r.order[r.next + 1] \in TierServers(t) \ Started(r)
                 /\ Started(Start(r)) = Started(r) \cup {r.order[r.next + 1]}
<1>1. TierSize(t) \in Nat /\ r.next \in Nat
    BY TierFacts DEF OrderOK, RaceState
<1>2. /\ r.order \in [1 .. TierSize(t) -> TierServers(t)]
      /\ \A i, j \in 1 .. TierSize(t) : r.order[i] = r.order[j] => i = j
      /\ \A s \in TierServers(t) : \E i \in 1 .. TierSize(t) : r.order[i] = s
    BY DEF OrderOK
<1>3. Started(r) \subseteq TierServers(t)
    BY <1>1, <1>2 DEF Started
<1>4. r.next = TierSize(t) => Started(r) = TierServers(t)
    BY <1>2, <1>3 DEF Started
<1>5. ASSUME r.next < TierSize(t)
      PROVE  /\ r.order[r.next + 1] \in TierServers(t) \ Started(r)
             /\ Started(Start(r)) = Started(r) \cup {r.order[r.next + 1]}
  <2>1. r.next + 1 \in 1 .. TierSize(t)
      BY <1>1, <1>5
  <2>2. r.order[r.next + 1] \in TierServers(t) \ Started(r)
      BY <1>1, <1>2, <2>1 DEF Started
  <2>3. Start(r).order = r.order /\ Start(r).next = r.next + 1
      BY DEF Start, OrderOK, RaceState
  <2>4. 1 .. r.next + 1 = (1 .. r.next) \cup {r.next + 1}
      BY <1>1
  <2> QED
      BY <2>2, <2>3, <2>4 DEF Started
<1> QED
    BY <1>3, <1>4, <1>5

\* The head of the loop keeps the account. It leaves a race that waits rightly in
\* select or, if it is over, one whose whole tier has failed.
LEMMA LoopHeadOK ==
    ASSUME NEW t \in Tier, NEW r, NEW lost,
           OrderOK(t, r), AccountOK(t, r, lost), ~r.delayed,
           Cardinality(r.dials) <= MaxConcurrent
    PROVE  LET h == LoopHead(r)
           IN /\ OrderOK(t, h)
              /\ AccountOK(t, h, lost)
              /\ ~Exhausted(h) => SelectOK(t, h)
              /\ Exhausted(h) => /\ lost = Earlier(t) \cup TierServers(t)
                                 /\ h.dials = {}
              /\ h.next = IF r.next < TierSize(t) /\ Cardinality(r.dials) < MaxConcurrent
                          THEN r.next + 1 ELSE r.next
<1>1. /\ TierSize(t) \in Nat
      /\ r.next \in Nat
      /\ r.dials \in SUBSET Server
      /\ MaxConcurrent \in Nat \ {0}
    BY TierFacts, RaceAssumption DEF OrderOK, RaceState
<1>2. Len(r.order) = TierSize(t)
    BY OrderLength
<1>3. IsFiniteSet(r.dials) /\ Cardinality(r.dials) \in Nat
    BY <1>1, ServersFinite
<1>4. r.next <= TierSize(t)
    BY DEF AccountOK
<1>5. CASE MayStart(r)
  <2> DEFINE h == Start(r)
             s == r.order[r.next + 1]
  <2>1. LoopHead(r) = h
      BY <1>5 DEF LoopHead
  <2>2. r.next < TierSize(t) /\ Cardinality(r.dials) < MaxConcurrent
      BY <1>2, <1>5 DEF MayStart
  <2>3. /\ h.order = r.order
        /\ h.next = r.next + 1
        /\ h.dials = r.dials \cup {s}
        /\ r.next + 1 < TierSize(t) => h.delayed
      BY <1>2 DEF Start, OrderOK, RaceState
  <2>4. s \in TierServers(t) \ Started(r) /\ Started(h) = Started(r) \cup {s}
      BY <1>4, <2>2, StartedFacts
  <2>5. OrderOK(t, h)
    <3>1. s \in Server /\ r.next + 1 \in Nat /\ r \in RaceState
        BY <1>1, <2>4, TierFacts DEF OrderOK
    <3>2. h \in RaceState
      <4> DEFINE d == r.next + 1 < Len(r.order)
      <4>1. h = [r EXCEPT !.next = r.next + 1, !.dials = r.dials \cup {s}, !.delayed = d]
          BY DEF Start
      <4>2. d \in BOOLEAN
          OBVIOUS
      <4> HIDE DEF s, h, d
      <4> QED
          BY <1>1, <3>1, <4>1, <4>2 DEF RaceState
    <3> QED
        BY <2>3, <3>2 DEF OrderOK
  <2>6. Cardinality(h.dials) <= Cardinality(r.dials) + 1
    <3>1. Cardinality(r.dials \cup {s}) = IF s \in r.dials THEN Cardinality(r.dials)
                                                         ELSE Cardinality(r.dials) + 1
        BY <1>3, FS_AddElement
    <3> QED
        BY <1>3, <2>3, <3>1
  <2>6a. Cardinality(h.dials) \in Nat
      BY <2>5, ServersFinite DEF OrderOK, RaceState
  <2>7. AccountOK(t, h, lost)
    <3>1. Started(h) \ h.dials = Started(r) \ r.dials
        BY <2>3, <2>4 DEF AccountOK
    <3> QED
        BY <1>1, <1>3, <2>2, <2>3, <2>4, <2>6, <2>6a, <3>1 DEF AccountOK
  <2>8. SelectOK(t, h) /\ ~Exhausted(h)
    <3>1. h.delayed \/ h.next = TierSize(t)
        BY <1>1, <2>2, <2>3
    <3>2. h.dials # {}
        BY <2>3
    <3>3. Cardinality(h.dials) <= MaxConcurrent
        BY <1>1, <1>3, <2>2, <2>6, <2>6a
    <3> QED
        BY <3>1, <3>2, <3>3 DEF SelectOK, Exhausted
  <2> QED
      BY <2>1, <2>2, <2>3, <2>5, <2>7, <2>8
<1>6. CASE ~MayStart(r)
  <2>1. LoopHead(r) = r
      BY <1>6 DEF LoopHead
  <2>2. r.next = TierSize(t) \/ Cardinality(r.dials) = MaxConcurrent
      BY <1>1, <1>2, <1>3, <1>4, <1>6 DEF MayStart
  <2>3. ~Exhausted(r) => SelectOK(t, r)
      BY <1>1, <1>2, <1>3, <2>2, FS_EmptySet DEF SelectOK, Exhausted
  <2>4. Exhausted(r) => lost = Earlier(t) \cup TierServers(t)
    <3> HAVE Exhausted(r)
    <3>1. r.dials = {} /\ r.next = TierSize(t)
        BY <1>1, <1>2, <1>4 DEF Exhausted
    <3>2. Started(r) = TierServers(t)
        BY <1>4, <3>1, StartedFacts
    <3> QED
        BY <3>1, <3>2 DEF AccountOK
  <2> QED
      BY <1>1, <1>3, <2>1, <2>2, <2>3, <2>4 DEF Exhausted
<1> QED
    BY <1>5, <1>6

\* A lost dial moves to the nameservers that failed.
LEMMA LoseOK ==
    ASSUME NEW t \in Tier, NEW r, NEW lost, NEW s \in r.dials, NEW e \in Failure,
           OrderOK(t, r), AccountOK(t, r, lost)
    PROVE  LET l == Lose(r, s, e)
           IN /\ OrderOK(t, l)
              /\ AccountOK(t, l, lost \cup {s})
              /\ ~l.delayed
              /\ l.next = r.next
              /\ Cardinality(l.dials) = Cardinality(r.dials) - 1
<1> DEFINE l == Lose(r, s, e)
<1>1. /\ l.order = r.order
      /\ l.next = r.next
      /\ l.dials = r.dials \ {s}
      /\ l.delayed = FALSE
    BY DEF Lose, OrderOK, RaceState
<1>2. r.dials \in SUBSET Server /\ r.next \in Nat
    BY DEF OrderOK, RaceState
<1>3. IsFiniteSet(r.dials) /\ Cardinality(r.dials) \in Nat
    BY <1>2, ServersFinite
<1>4. Cardinality(l.dials) = Cardinality(r.dials) - 1
    BY <1>1, <1>3, FS_RemoveElement
<1>5. OrderOK(t, l)
  <2>1. l \in RaceState
      BY DEF Lose, OrderOK, RaceState
  <2> QED
      BY <1>1, <2>1 DEF OrderOK
<1>6. AccountOK(t, l, lost \cup {s})
  <2>1. Started(l) = Started(r)
      BY <1>1 DEF Started
  <2> QED
      BY <1>1, <1>2, <1>3, <1>4, <2>1 DEF AccountOK
<1> QED
    BY <1>1, <1>4, <1>5, <1>6

-----------------------------------------------------------------------------
(* Inv is inductive. *)

\* The part of the state that belongs to query q is left alone.
Untouched(q) == /\ phase'[q] = phase[q]
                /\ tier'[q] = tier[q]
                /\ race'[q] = race[q]
                /\ result'[q] = result[q]
                /\ failed'[q] = failed[q]
                /\ waits'[q] = waits[q]

\* A query that a step does not touch keeps its part of the invariant.
LEMMA UntouchedInv ==
    ASSUME NEW q \in Query, QueryInv(q), Untouched(q)
    PROVE  QueryInv(q)'
<1>1. OrderOK(tier[q], race[q])' <=> OrderOK(tier[q], race[q])
  BY DEF Untouched, OrderOK, TierSize, TierServers, RaceState
<1>2. AccountOK(tier[q], race[q], failed[q])' <=> AccountOK(tier[q], race[q], failed[q])
  BY DEF Untouched, AccountOK, Started, Earlier, TierSize
<1>3. SelectOK(tier[q], race[q])' <=> SelectOK(tier[q], race[q])
  BY DEF Untouched, SelectOK, TierSize
<1>4. TierSize(tier[q])' = TierSize(tier[q])
  BY DEF Untouched, TierSize
<1> QED
  BY <1>1, <1>2, <1>3, <1>4 DEF QueryInv, Untouched

\* What a query's race may be on resuming: it has lost the nameservers in lost,
\* its delay is off, and has let one nameserver in for each delay before this one.
ReadyOK(q, r, lost) ==
    /\ phase[q] \in {"ordering", "racing"}
    /\ OrderOK(tier[q], r)
    /\ AccountOK(tier[q], r, lost)
    /\ ~r.delayed
    /\ Cardinality(r.dials) <= MaxConcurrent
    /\ \/ r.next >= waits'[q]
       \/ r.next >= MaxConcurrent
       \/ r.next = TierSize(tier[q])

\* Resuming a race keeps the invariant of its query and touches no other one.
LEMMA ResumeInv ==
    ASSUME Inv, NEW q \in Query, NEW r,
           ReadyOK(q, r, failed'[q]),
           Resume(q, r),
           cost' \in [Server -> 0 .. MaxCost],
           failed' \in [Query -> SUBSET Server],
           waits' \in [Query -> Nat],
           calm' \in [Query -> BOOLEAN],
           \A p \in Query \ {q} : failed'[p] = failed[p] /\ waits'[p] = waits[p]
    PROVE  Inv'
<1> DEFINE t == tier[q]
           h == LoopHead(r)
           lost == failed'[q]
<1>1. TypeOK /\ (\A p \in Query : QueryInv(p)) /\ t \in Tier
    BY DEF Inv, TypeOK
<1>2. /\ OrderOK(t, r)
      /\ AccountOK(t, r, lost)
      /\ ~r.delayed
      /\ Cardinality(r.dials) <= MaxConcurrent
    BY DEF ReadyOK
<1>3. /\ OrderOK(t, h)
      /\ AccountOK(t, h, lost)
      /\ ~Exhausted(h) => SelectOK(t, h)
      /\ Exhausted(h) => /\ lost = Earlier(t) \cup TierServers(t)
                         /\ h.dials = {}
      /\ h.next = IF r.next < TierSize(t) /\ Cardinality(r.dials) < MaxConcurrent
                  THEN r.next + 1 ELSE r.next
    BY <1>1, <1>2, LoopHeadOK
<1>4. /\ h \in RaceState
      /\ h.order \in [1 .. TierSize(t) -> Server]
      /\ h.lastErr \in Failure \cup {NoErr}
  <2>1. TierServers(t) \subseteq Server
      BY <1>1, TierFacts
  <2> QED
      BY <1>3, <2>1 DEF OrderOK, RaceState
<1>5. /\ t = "fallback" => PrimaryCount # NameserverCount
      /\ result[q] = NoErr
      /\ phase[q] # "done"
  <2>1. QueryInv(q)
      BY <1>1
  <2> QED
      BY <2>1 DEF QueryInv, ReadyOK
<1> USE DEF TypeOK
<1>6. CASE ~Exhausted(h)
  <2>1. /\ phase' = [phase EXCEPT ![q] = "racing"]
        /\ race' = [race EXCEPT ![q] = h]
        /\ UNCHANGED <<tier, result>>
      BY <1>6 DEF Resume
  <2>2. TypeOK'
      BY <1>1, <1>4, <2>1 DEF Phase
  <2>3. QueryInv(q)'
    <3>1. /\ phase'[q] = "racing"
          /\ tier'[q] = t
          /\ race'[q] = h
          /\ result'[q] = NoErr
        BY <1>1, <1>5, <2>1
    <3>2. \/ h.next > waits'[q]
          \/ h.next >= MaxConcurrent
          \/ h.next = TierSize(t)
      <4>1. Cardinality(r.dials) \in Nat /\ r.next \in Nat /\ TierSize(t) \in Nat
          BY <1>1, <1>2, ServersFinite, TierFacts DEF OrderOK, RaceState
      <4>2. r.next <= TierSize(t) /\ Cardinality(r.dials) <= r.next
          BY <1>2 DEF AccountOK
      <4>3. waits'[q] \in Nat /\ MaxConcurrent \in Nat
          BY RaceAssumption
      <4>4. \/ r.next >= waits'[q]
            \/ r.next >= MaxConcurrent
            \/ r.next = TierSize(t)
          BY DEF ReadyOK
      <4> QED
          BY <1>3, <4>1, <4>2, <4>3, <4>4
    <3> QED
        BY <1>3, <1>5, <1>6, <3>1, <3>2 DEF QueryInv
  <2>4. ASSUME NEW p \in Query \ {q} PROVE QueryInv(p)'
    <3>1. Untouched(p)
        BY <1>1, <2>1 DEF Untouched
    <3> QED
        BY <1>1, <3>1, UntouchedInv
  <2> QED
      BY <2>2, <2>3, <2>4 DEF Inv
<1>7. CASE Exhausted(h) /\ Escalates(q)
  <2> DEFINE n == NewRace("fallback")
  <2>1. /\ phase' = [phase EXCEPT ![q] = "ordering"]
        /\ tier' = [tier EXCEPT ![q] = "fallback"]
        /\ race' = [race EXCEPT ![q] = n]
        /\ UNCHANGED result
      BY <1>7 DEF Resume
  <2>2. t = "primary" /\ PrimaryCount # NameserverCount
      BY <1>7 DEF Escalates
  <2>3. OrderOK("fallback", n) /\ AccountOK("fallback", n, Earlier("fallback"))
      BY NewRaceOK DEF Tier
  <2>4. n \in RaceState /\ n.order \in [1 .. TierSize("fallback") -> Server]
    <3>1. TierServers("fallback") \subseteq Server
        BY TierFacts DEF Tier
    <3> QED
        BY <2>3, <3>1 DEF OrderOK
  <2>5. lost = Earlier("fallback")
      BY <1>3, <1>7, <2>2, TierFacts DEF Earlier, Tier
  <2>6. TypeOK'
    <3> HIDE DEF n
    <3> QED
        BY <1>1, <2>1, <2>4 DEF Phase, Tier
  <2>7. QueryInv(q)'
    <3>1. /\ phase'[q] = "ordering"
          /\ tier'[q] = "fallback"
          /\ race'[q] = n
          /\ result'[q] = NoErr
        BY <1>1, <1>5, <2>1
    <3>2. n.next = 0 /\ ~n.delayed /\ n.hole \in 1 .. n.tail
        BY DEF NewRace
    <3> HIDE DEF n
    <3> QED
        BY <2>2, <2>3, <2>5, <3>1, <3>2 DEF QueryInv
  <2>8. ASSUME NEW p \in Query \ {q} PROVE QueryInv(p)'
    <3>1. Untouched(p)
        BY <1>1, <2>1 DEF Untouched
    <3> QED
        BY <1>1, <3>1, UntouchedInv
  <2> QED
      BY <2>6, <2>7, <2>8 DEF Inv
<1>8. CASE Exhausted(h) /\ ~Escalates(q)
  <2>1. /\ phase' = [phase EXCEPT ![q] = "done"]
        /\ race' = [race EXCEPT ![q] = h]
        /\ result' = [result EXCEPT ![q] = IF h.lastErr = NoErr THEN "noResponse"
                                                                ELSE h.lastErr]
        /\ UNCHANGED tier
      BY <1>8 DEF Resume
  <2>2. TypeOK'
      BY <1>1, <1>4, <2>1 DEF Phase, Failure
  <2>3. QueryInv(q)'
    <3>1. phase'[q] = "done" /\ tier'[q] = t /\ race'[q] = h
        BY <1>1, <2>1
    <3>2. lost = Server /\ h.dials = {}
      <4>1. Earlier(t) \cup TierServers(t) = Server
          BY <1>1, <1>8, TierFacts DEF Escalates, Earlier, TierServers, Server, Tier
      <4> QED
          BY <1>3, <1>8, <4>1
    <3> QED
        BY <1>3, <1>5, <3>1, <3>2 DEF QueryInv
  <2>4. ASSUME NEW p \in Query \ {q} PROVE QueryInv(p)'
    <3>1. Untouched(p)
        BY <1>1, <2>1 DEF Untouched
    <3> QED
        BY <1>1, <3>1, UntouchedInv
  <2> QED
      BY <2>2, <2>3, <2>4 DEF Inv
<1> QED
    BY <1>6, <1>7, <1>8

\* A query that ends with an answer, or is dropped, keeps the invariant.
LEMMA EndInv ==
    ASSUME Inv, NEW q \in Query, NEW v \in {"answer", "dropped"},
           phase' = [phase EXCEPT ![q] = "done"],
           race' = [race EXCEPT ![q].dials = {}],
           result' = [result EXCEPT ![q] = v],
           cost' \in [Server -> 0 .. MaxCost],
           calm' \in [Query -> BOOLEAN],
           UNCHANGED <<tier, failed, waits>>
    PROVE  Inv'
<1> DEFINE r == [race[q] EXCEPT !.dials = {}]
<1>1. TypeOK /\ \A p \in Query : QueryInv(p)
    BY DEF Inv
<1>2. race' = [race EXCEPT ![q] = r]
    OBVIOUS
<1>3. OrderOK(tier[q], race[q])
    BY <1>1 DEF QueryInv
<1>4. /\ r \in RaceState
      /\ r.order = race[q].order
      /\ r.dials = {}
    BY <1>3 DEF OrderOK, RaceState
<1> HIDE DEF r
<1>5. TypeOK'
  <2>1. /\ race' \in [Query -> RaceState]
        /\ \A p \in Query : race'[p].order \in [1 .. TierSize(tier'[p]) -> Server]
      BY <1>1, <1>2, <1>4 DEF TypeOK
  <2>2. /\ phase' \in [Query -> Phase]
        /\ result' \in [Query -> Failure \cup {NoErr, "answer", "dropped",
                                              "noResponse", "noNameservers"}]
      BY <1>1 DEF TypeOK, Phase
  <2> QED
      BY <1>1, <2>1, <2>2 DEF TypeOK
<1>6. QueryInv(q)'
  <2>1. /\ phase'[q] = "done"
        /\ tier'[q] = tier[q]
        /\ race'[q] = r
        /\ result'[q] = v
      BY <1>1, <1>2 DEF TypeOK
  <2>2. OrderOK(tier[q], r)
      BY <1>3, <1>4 DEF OrderOK
  <2> QED
      BY <1>1, <1>4, <2>1, <2>2 DEF QueryInv
<1>7. ASSUME NEW p \in Query \ {q} PROVE QueryInv(p)'
  <2>1. Untouched(p)
      BY <1>1, <1>2 DEF Untouched, TypeOK
  <2> QED
      BY <1>1, <2>1, UntouchedInv
<1> QED
    BY <1>5, <1>6, <1>7 DEF Inv

\* The cost estimates stay levels up to the cap.
LEMMA CostBound ==
    ASSUME NEW c \in 0 .. MaxCost, NEW sample \in Samples
    PROVE  /\ Succeeded(c, sample) \in 0 .. MaxCost
           /\ Penalized(c) \in 0 .. MaxCost
    BY RaceAssumption DEF Succeeded, Penalized, Capped

\* Each of the three steps that resume a race leaves it ready for that.
LEMMA EnterReady ==
    ASSUME Inv, NEW q \in Query, Enter(q)
    PROVE  ReadyOK(q, race[q], failed'[q])
<1>1. /\ phase[q] = "ordering"
      /\ failed' = failed
      /\ waits'[q] = 0
    BY DEF Enter, Inv, TypeOK
<1>2. /\ OrderOK(tier[q], race[q])
      /\ AccountOK(tier[q], race[q], failed[q])
      /\ ~race[q].delayed
      /\ race[q].next = 0
    BY <1>1 DEF Inv, QueryInv
<1>3. Cardinality(race[q].dials) <= MaxConcurrent
  <2>1. Cardinality(race[q].dials) <= 0
      BY <1>2 DEF AccountOK
  <2>2. Cardinality(race[q].dials) \in Nat
      BY ServersFinite DEF Inv, TypeOK, RaceState
  <2> QED
      BY <2>1, <2>2, RaceAssumption
<1> QED
    BY <1>1, <1>2, <1>3 DEF ReadyOK

\* A dial that fails leaves the race ready for the head of the loop.
LEMMA LoseReady ==
    ASSUME Inv, NEW q \in Query, NEW s \in Server, NEW e \in Failure, DialFails(q, s)
    PROVE  ReadyOK(q, Lose(race[q], s, e), failed'[q])
<1> DEFINE l == Lose(race[q], s, e)
<1>1. /\ phase[q] = "racing"
      /\ s \in race[q].dials
      /\ failed'[q] = failed[q] \cup {s}
      /\ waits' = waits
      /\ tier[q] \in Tier
    BY DEF DialFails, Inv, TypeOK
<1>2. /\ OrderOK(tier[q], race[q])
      /\ AccountOK(tier[q], race[q], failed[q])
      /\ SelectOK(tier[q], race[q])
      /\ \/ race[q].next > waits[q]
         \/ race[q].next >= MaxConcurrent
         \/ race[q].next = TierSize(tier[q])
    BY <1>1 DEF Inv, QueryInv
<1>3. /\ OrderOK(tier[q], l)
      /\ AccountOK(tier[q], l, failed[q] \cup {s})
      /\ ~l.delayed
      /\ l.next = race[q].next
      /\ Cardinality(l.dials) = Cardinality(race[q].dials) - 1
    BY <1>1, <1>2, LoseOK
<1>4. Cardinality(l.dials) <= MaxConcurrent
  <2>1. Cardinality(race[q].dials) \in Nat
      BY ServersFinite DEF Inv, TypeOK, RaceState
  <2> QED
      BY <1>2, <1>3, <2>1, RaceAssumption DEF SelectOK
<1>5. race[q].next \in Nat /\ waits[q] \in Nat
    BY DEF Inv, TypeOK, RaceState
<1> HIDE DEF l
<1>6. \/ l.next >= waits'[q]
      \/ l.next >= MaxConcurrent
      \/ l.next = TierSize(tier[q])
    BY <1>1, <1>2, <1>3, <1>5
<1>7. AccountOK(tier[q], l, failed'[q])
    BY <1>1, <1>3
<1>8. ReadyOK(q, l, failed'[q])
    BY <1>1, <1>3, <1>4, <1>6, <1>7 DEF ReadyOK
<1> QED
    BY <1>8 DEF l

\* So does the end of a delay.
LEMMA DelayReady ==
    ASSUME Inv, NEW q \in Query, DelayEnds(q)
    PROVE  ReadyOK(q, [race[q] EXCEPT !.delayed = FALSE], failed'[q])
<1> DEFINE r == [race[q] EXCEPT !.delayed = FALSE]
<1>1. /\ phase[q] = "racing"
      /\ waits' = [waits EXCEPT ![q] = waits[q] + 1]
      /\ failed' = failed
    BY DEF DelayEnds
<1>2. /\ OrderOK(tier[q], race[q])
      /\ AccountOK(tier[q], race[q], failed[q])
      /\ SelectOK(tier[q], race[q])
      /\ \/ race[q].next > waits[q]
         \/ race[q].next >= MaxConcurrent
         \/ race[q].next = TierSize(tier[q])
    BY <1>1 DEF Inv, QueryInv
<1>3. /\ r \in RaceState
      /\ r.order = race[q].order
      /\ r.next = race[q].next
      /\ r.dials = race[q].dials
      /\ ~r.delayed
    BY <1>2 DEF OrderOK, RaceState
<1>4. r.next \in Nat /\ waits[q] \in Nat /\ waits'[q] = waits[q] + 1
    BY <1>1, <1>3 DEF Inv, TypeOK, RaceState
<1> HIDE DEF r
<1>5. OrderOK(tier[q], r) /\ AccountOK(tier[q], r, failed'[q])
    BY <1>1, <1>2, <1>3 DEF OrderOK, AccountOK, Started
<1>6. ReadyOK(q, r, failed'[q])
    BY <1>1, <1>2, <1>3, <1>4, <1>5 DEF ReadyOK, SelectOK
<1> QED
    BY <1>6 DEF r

\* Before a query starts, its race is a new one over the primary tier.
LEMMA InitInv == Init => Inv
<1> SUFFICES ASSUME Init PROVE Inv
    OBVIOUS
<1> DEFINE r == NewRace("primary")
<1>1. OrderOK("primary", r) /\ AccountOK("primary", r, {})
    BY NewRaceOK DEF Earlier, Tier
<1>2. /\ r \in RaceState
      /\ r.order \in [1 .. TierSize("primary") -> Server]
  <2>1. TierServers("primary") \subseteq Server
      BY TierFacts DEF Tier
  <2> QED
      BY <1>1, <2>1 DEF OrderOK
<1>3. r.next = 0 /\ ~r.delayed /\ r.hole \in 1 .. r.tail
    BY DEF NewRace
<1>4. race = [q \in Query |-> r]
    BY DEF Init
<1> HIDE DEF r
<1>5. TypeOK
    BY <1>2, <1>4, RaceAssumption DEF Init, TypeOK, Phase, Tier
<1>6. ASSUME NEW q \in Query PROVE QueryInv(q)
  <2>1. /\ phase[q] = "idle"
        /\ tier[q] = "primary"
        /\ race[q] = r
        /\ failed[q] = {}
        /\ result[q] = NoErr
      BY <1>4 DEF Init
  <2> QED
      BY <1>1, <1>3, <2>1 DEF QueryInv
<1> QED
    BY <1>5, <1>6 DEF Inv

\* Every step keeps the invariant.
LEMMA NextInv == Inv /\ [Next]_vars => Inv'
<1> SUFFICES ASSUME Inv, [Next]_vars PROVE Inv'
    OBVIOUS
<1>0. TypeOK /\ \A p \in Query : QueryInv(p)
    BY DEF Inv
<1>1. ASSUME NEW q \in Query, Begin(q) PROVE Inv'
  <2>1. TypeOK'
      BY <1>0, <1>1 DEF Begin, TypeOK, Phase
  <2>2. ASSUME NEW p \in Query \ {q} PROVE QueryInv(p)'
    <3>1. Untouched(p)
        BY <1>0, <1>1 DEF Begin, Untouched, TypeOK
    <3> QED
        BY <1>0, <3>1, UntouchedInv
  <2>3. /\ phase[q] = "idle"
        /\ tier'[q] = tier[q]
        /\ race'[q] = race[q]
        /\ failed'[q] = failed[q]
        /\ tier[q] = "primary"
      BY <1>0, <1>1 DEF Begin, QueryInv
  <2>4. QueryInv(q)'
    <3>1. CASE NameserverCount = 0
      <4>1. phase'[q] = "done"
          BY <1>0, <1>1, <3>1 DEF Begin, TypeOK
      <4>2. Server = {}
          BY <3>1 DEF Server
      <4>3. failed'[q] = Server /\ race[q].dials = {}
          BY <1>0, <2>3, <4>2 DEF TypeOK, RaceState
      <4> QED
          BY <1>0, <2>3, <4>1, <4>3 DEF QueryInv
    <3>2. CASE NameserverCount # 0
      <4>1. phase'[q] = "ordering" /\ result'[q] = result[q]
          BY <1>0, <1>1, <3>2 DEF Begin, TypeOK
      <4> QED
          BY <1>0, <2>3, <4>1 DEF QueryInv
    <3> QED
        BY <3>1, <3>2
  <2> QED
      BY <2>1, <2>2, <2>4 DEF Inv
<1>2. ASSUME NEW q \in Query, Sort(q) PROVE Inv'
  <2> DEFINE r == race[q]
             s == IF Misplaced(r) THEN Swapped(r) ELSE Settled(r)
             t == tier[q]
  <2>1. /\ phase[q] = "ordering"
        /\ race' = [race EXCEPT ![q] = s]
        /\ UNCHANGED <<phase, tier, result, cost, failed, waits, calm>>
        /\ r.tail <= Len(r.order)
      BY <1>2 DEF Sort
  <2>2. /\ t \in Tier
        /\ OrderOK(t, r)
        /\ AccountOK(t, r, failed[q])
        /\ r.next = 0
        /\ ~r.delayed
        /\ r.hole \in 1 .. r.tail
        /\ r.tail \in Nat
      BY <1>0, <2>1 DEF QueryInv, TypeOK, RaceState
  <2>3. /\ OrderOK(t, s)
        /\ s.hole \in 1 .. s.tail
        /\ s.next = r.next
        /\ s.dials = r.dials
        /\ ~s.delayed
    <3>1. CASE Misplaced(r)
      <4>1. s = Swapped(r) /\ r.hole \in 2 .. TierSize(t)
          BY <2>1, <2>2, <3>1, OrderLength, TierFacts DEF Misplaced
      <4>2. OrderOK(t, Swapped(r))
          BY <2>2, <4>1, SwappedOK
      <4>3. /\ Swapped(r).hole = r.hole - 1
            /\ Swapped(r).tail = r.tail
            /\ Swapped(r).next = r.next
            /\ Swapped(r).dials = r.dials
            /\ Swapped(r).delayed = r.delayed
          BY <2>2 DEF Swapped, OrderOK, RaceState
      <4> QED
          BY <2>2, <4>1, <4>2, <4>3
    <3>2. CASE ~Misplaced(r)
      <4>1. s = Settled(r) /\ r \in RaceState
          BY <2>2, <3>2 DEF OrderOK
      <4> HIDE DEF r, s
      <4>2. /\ s \in RaceState
            /\ s.order = r.order
            /\ s.hole \in 1 .. s.tail
            /\ s.next = r.next
            /\ s.dials = r.dials
            /\ s.delayed = r.delayed
        <5>1. s = [r EXCEPT !.tail = r.tail + 1, !.hole = r.tail + 1] /\ r.tail \in Nat
            BY <4>1 DEF RaceState, Settled
        <5>2. r.tail + 1 \in Nat
            BY <5>1
        <5>3. s \in RaceState
            BY <4>1, <5>1, <5>2 DEF RaceState
        <5>4. s.hole = r.tail + 1 /\ s.tail = r.tail + 1
            BY <4>1, <5>1 DEF RaceState
        <5>5. s.order = r.order /\ s.next = r.next /\ s.dials = r.dials
            BY <4>1, <5>1 DEF RaceState
        <5>6. s.delayed = r.delayed
            BY <4>1, <5>1 DEF RaceState
        <5> QED
            BY <5>1, <5>3, <5>4, <5>5, <5>6
      <4> QED
          BY <2>2, <4>2 DEF OrderOK
    <3> QED
        BY <3>1, <3>2
  <2> HIDE DEF s
  <2>4. AccountOK(t, s, failed[q])
    <3>1. Started(r) = {} /\ Started(s) = {}
        BY <2>2, <2>3 DEF Started
    <3> QED
        BY <2>2, <2>3, <3>1 DEF AccountOK
  <2>5. TypeOK'
    <3>1. s \in RaceState /\ s.order \in [1 .. TierSize(t) -> Server]
        BY <2>2, <2>3, TierFacts DEF OrderOK
    <3> QED
        BY <1>0, <2>1, <3>1 DEF TypeOK
  <2>6. QueryInv(q)'
    <3>1. race'[q] = s
        BY <1>0, <2>1 DEF TypeOK
    <3> QED
        BY <1>0, <2>1, <2>2, <2>3, <2>4, <3>1 DEF QueryInv
  <2>7. ASSUME NEW p \in Query \ {q} PROVE QueryInv(p)'
    <3>1. Untouched(p)
        BY <1>0, <2>1 DEF Untouched, TypeOK
    <3> QED
        BY <1>0, <3>1, UntouchedInv
  <2> QED
      BY <2>5, <2>6, <2>7 DEF Inv
<1>3. ASSUME NEW q \in Query, Enter(q) PROVE Inv'
  <2>1. ReadyOK(q, race[q], failed'[q])
      BY <1>3, EnterReady
  <2> QED
      BY <1>0, <1>3, <2>1, ResumeInv DEF Enter, TypeOK
<1>4. ASSUME NEW q \in Query, NEW s \in Server, DialFails(q, s) PROVE Inv'
  <2>1. PICK e \in Failure : Resume(q, Lose(race[q], s, e))
      BY <1>4 DEF DialFails
  <2>2. ReadyOK(q, Lose(race[q], s, e), failed'[q])
      BY <1>4, LoseReady
  <2>3. cost' \in [Server -> 0 .. MaxCost] /\ calm' \in [Query -> BOOLEAN]
    <3>1. Penalized(cost[s]) \in 0 .. MaxCost
        BY <1>0, RaceAssumption DEF TypeOK, Penalized, Capped
    <3> QED
        BY <1>0, <1>4, <3>1 DEF DialFails, SetCost, TypeOK
  <2>4. /\ failed' \in [Query -> SUBSET Server]
        /\ waits' \in [Query -> Nat]
        /\ \A p \in Query \ {q} : failed'[p] = failed[p] /\ waits'[p] = waits[p]
      BY <1>0, <1>4 DEF DialFails, TypeOK
  <2> QED
      BY <2>1, <2>2, <2>3, <2>4, ResumeInv
<1>5. ASSUME NEW q \in Query, NEW s \in Server, DialSucceeds(q, s) PROVE Inv'
  <2>1. cost' \in [Server -> 0 .. MaxCost] /\ calm' \in [Query -> BOOLEAN]
    <3>1. PICK sample \in Samples : SetCost(s, Succeeded(cost[s], sample))
        BY <1>5 DEF DialSucceeds
    <3>2. Succeeded(cost[s], sample) \in 0 .. MaxCost
        BY <1>0, CostBound DEF TypeOK
    <3> QED
        BY <1>0, <3>1, <3>2 DEF SetCost, TypeOK
  <2> QED
      BY <1>5, <2>1, EndInv DEF DialSucceeds
<1>6. ASSUME NEW q \in Query, DelayEnds(q) PROVE Inv'
  <2> DEFINE r == [race[q] EXCEPT !.delayed = FALSE]
  <2>1. ReadyOK(q, r, failed'[q]) /\ Resume(q, r)
      BY <1>6, DelayReady DEF DelayEnds
  <2>2. /\ cost' \in [Server -> 0 .. MaxCost]
        /\ failed' \in [Query -> SUBSET Server]
        /\ waits' \in [Query -> Nat]
        /\ calm' \in [Query -> BOOLEAN]
        /\ \A p \in Query \ {q} : failed'[p] = failed[p] /\ waits'[p] = waits[p]
      BY <1>0, <1>6 DEF DelayEnds, TypeOK
  <2> HIDE DEF r
  <2> QED
      BY <2>1, <2>2, ResumeInv
<1>7. ASSUME NEW q \in Query, Cancel(q) PROVE Inv'
    BY <1>0, <1>7, EndInv DEF Cancel, TypeOK
<1>8. ASSUME NEW s \in Server, Decay(s) PROVE Inv'
  <2>1. TypeOK'
      BY <1>0, <1>8, RaceAssumption DEF Decay, SetCost, TypeOK
  <2>2. ASSUME NEW p \in Query PROVE QueryInv(p)'
    <3>1. Untouched(p)
        BY <1>8 DEF Decay, Untouched
    <3> QED
        BY <1>0, <3>1, UntouchedInv
  <2> QED
      BY <2>1, <2>2 DEF Inv
<1>9. CASE UNCHANGED vars
  <2>1. TypeOK'
      BY <1>0, <1>9 DEF vars, TypeOK
  <2>2. ASSUME NEW p \in Query PROVE QueryInv(p)'
    <3>1. Untouched(p)
        BY <1>9 DEF vars, Untouched
    <3> QED
        BY <1>0, <3>1, UntouchedInv
  <2> QED
      BY <2>1, <2>2 DEF Inv
<1> QED
    BY <1>1, <1>2, <1>3, <1>4, <1>5, <1>6, <1>7, <1>8, <1>9 DEF Next, Finished

\* Inv holds throughout every behaviour.
THEOREM Invariance == Spec => []Inv
    BY InitInv, NextInv, PTL DEF Spec

-----------------------------------------------------------------------------
(* What follows from it. *)

\* Every variable keeps its type, and a race orders exactly its tier.
THEOREM TypeCorrect == Spec => []TypeOK
<1>1. Inv => TypeOK
    BY DEF Inv
<1> QED
    BY <1>1, Invariance, PTL

\* The loop of race never waits for nothing: there is a dial in flight, and what
\* holds the next one back is the delay, the cap or the end of the list.
THEOREM RaceNeverIdles == Spec => []WorkConserving
<1>1. Inv => WorkConserving
  <2> SUFFICES ASSUME Inv, NEW q \in Query, phase[q] = "racing"
               PROVE  LET r == race[q]
                      IN /\ r.dials # {}
                         /\ Cardinality(r.dials) <= MaxConcurrent
                         /\ \/ r.delayed
                            \/ Cardinality(r.dials) = MaxConcurrent
                            \/ r.next = Len(r.order)
      BY DEF WorkConserving
  <2>1. OrderOK(tier[q], race[q]) /\ SelectOK(tier[q], race[q]) /\ tier[q] \in Tier
      BY DEF Inv, QueryInv, TypeOK
  <2>2. Len(race[q].order) = TierSize(tier[q])
      BY <2>1, OrderLength
  <2> QED
      BY <2>1, <2>2 DEF SelectOK
<1> QED
    BY <1>1, Invariance, PTL

\* However attempts fail, the nameserver at place k starts within k - 1 delays, as
\* far as the cap allows.
THEOREM RaceAdmitsFirstWave == Spec => []FirstWave
<1>1. Inv => FirstWave
  <2> SUFFICES ASSUME Inv, NEW q \in Query, phase[q] = "racing"
               PROVE  \/ race[q].next > waits[q]
                      \/ race[q].next >= MaxConcurrent
                      \/ race[q].next = Len(race[q].order)
      BY DEF FirstWave
  <2>1. /\ OrderOK(tier[q], race[q])
        /\ tier[q] \in Tier
        /\ \/ race[q].next > waits[q]
           \/ race[q].next >= MaxConcurrent
           \/ race[q].next = TierSize(tier[q])
      BY DEF Inv, QueryInv, TypeOK
  <2>2. Len(race[q].order) = TierSize(tier[q])
      BY <2>1, OrderLength
  <2> QED
      BY <2>1, <2>2
<1> QED
    BY <1>1, Invariance, PTL

\* No fallback nameserver is asked before every primary one has failed the query,
\* and no error is returned before every configured one has.
THEOREM NoTierIsSkipped == Spec => []TiersAreExhausted
<1>1. Inv => TiersAreExhausted
  <2> SUFFICES ASSUME Inv, NEW q \in Query
               PROVE  /\ \/ race[q].dials \subseteq 1 .. PrimaryCount
                         \/ 1 .. PrimaryCount \subseteq failed[q]
                      /\ phase[q] = "done" /\ result[q] \notin {"answer", "dropped"}
                            => failed[q] = Server
      BY DEF TiersAreExhausted
  <2>1. QueryInv(q) /\ tier[q] \in Tier
      BY DEF Inv, TypeOK
  <2>2. CASE phase[q] = "done"
      BY <2>1, <2>2 DEF QueryInv
  <2>3. CASE phase[q] # "done"
    <3>1. OrderOK(tier[q], race[q]) /\ AccountOK(tier[q], race[q], failed[q])
        BY <2>1, <2>3 DEF QueryInv
    <3>2. race[q].dials \subseteq TierServers(tier[q])
        BY <2>1, <3>1, StartedFacts DEF AccountOK
    <3>3. Earlier(tier[q]) \subseteq failed[q]
        BY <3>1 DEF AccountOK
    <3> QED
        BY <2>1, <2>3, <3>2, <3>3 DEF Tier, TierServers, Earlier
  <2> QED
      BY <2>2, <2>3
<1> QED
    BY <1>1, Invariance, PTL

\* A lost dial is replaced in the same step, while the tier has a nameserver left.
THEOREM LostDialsAreReplaced == Spec => FailFast
<1> DEFINE Replaced(q) == failed'[q] # failed[q] /\ race[q].next < Len(race[q].order)
                             => race'[q].next = race[q].next + 1
<1>1. ASSUME Inv, NEW q \in Query, [Next]_vars, failed'[q] # failed[q],
             race[q].next < Len(race[q].order)
      PROVE  race'[q].next = race[q].next + 1
  <2>1. PICK s \in Server : DialFails(q, s)
    <3>1. failed \in [Query -> SUBSET Server]
        BY <1>1 DEF Inv, TypeOK
    <3>2. ASSUME NEW p \in Query, NEW s \in Server, DialFails(p, s) PROVE p = q
        BY <1>1, <3>1, <3>2 DEF DialFails
    <3> QED
        BY <1>1, <3>2 DEF Next, vars, Begin, Sort, Enter, DialSucceeds, DelayEnds, Cancel,
                          Decay, Finished
  <2>2. PICK e \in Failure : Resume(q, Lose(race[q], s, e))
      BY <2>1 DEF DialFails
  <2> DEFINE l == Lose(race[q], s, e)
             h == LoopHead(l)
             t == tier[q]
  <2>3. /\ OrderOK(t, race[q])
        /\ SelectOK(t, race[q])
        /\ AccountOK(t, race[q], failed[q])
        /\ t \in Tier
        /\ race \in [Query -> RaceState]
        /\ s \in race[q].dials
      BY <1>1, <2>1 DEF Inv, QueryInv, TypeOK, DialFails
  <2>4. /\ OrderOK(t, l)
        /\ AccountOK(t, l, failed[q] \cup {s})
        /\ ~l.delayed
        /\ l.next = race[q].next
        /\ Cardinality(l.dials) = Cardinality(race[q].dials) - 1
      BY <2>3, LoseOK
  <2>5. Cardinality(l.dials) < MaxConcurrent
    <3>1. Cardinality(race[q].dials) \in Nat
        BY <2>3, ServersFinite DEF RaceState
    <3> QED
        BY <2>3, <2>4, <3>1, RaceAssumption DEF SelectOK
  <2>6. MayStart(l)
    <3>1. Len(l.order) = TierSize(t) /\ Len(race[q].order) = TierSize(t)
        BY <2>3, <2>4, OrderLength
    <3> HIDE DEF l
    <3> QED
        BY <1>1, <2>4, <2>5, <3>1 DEF MayStart
  <2>7. h.next = race[q].next + 1 /\ h.dials # {}
    <3>1. l \in RaceState
        BY <2>4 DEF OrderOK
    <3>2. h = Start(l)
        BY <2>6 DEF LoopHead
    <3> HIDE DEF l, h
    <3> QED
        BY <2>4, <3>1, <3>2 DEF Start, RaceState
  <2>8. race' = [race EXCEPT ![q] = h]
    <3>1. ~Exhausted(h)
        BY <2>7 DEF Exhausted
    <3> QED
        BY <2>2, <3>1 DEF Resume
  <2> HIDE DEF h
  <2> QED
      BY <2>3, <2>7, <2>8
<1>2. Inv /\ [Next]_vars => [\A q \in Query : Replaced(q)]_vars
    BY <1>1
<1> QED
    BY <1>2, Invariance, PTL DEF Spec, FailFast

-----------------------------------------------------------------------------
(* The sort: what CalmInv says of an order is kept by each of its steps.     *)

\* The places of a tier are numbers in the order of the configuration.
LEMMA NthFacts ==
    ASSUME NEW t \in Tier
    PROVE  /\ \A i \in Nat : Nth(t, i) \in Nat
           /\ \A i, j \in Nat : i < j => Nth(t, i) < Nth(t, j)
    BY TierFacts DEF Nth

\* Costs, with places to tell equal ones apart, order the nameservers.
LEMMA BeforeTransitive ==
    ASSUME TypeOK, NEW s \in Server, NEW t \in Server, NEW u \in Server,
           Before(s, t), Before(t, u)
    PROVE  Before(s, u)
<1>1. /\ cost[s] \in Int /\ cost[t] \in Int /\ cost[u] \in Int
      /\ s \in Int /\ t \in Int /\ u \in Int
    BY RaceAssumption DEF TypeOK, Server
<1> QED
    BY <1>1 DEF Before

\* What the lemmas below read off an order before its sort ends.
LEMMA SortTypes ==
    ASSUME NEW t \in Tier, NEW r, OrderOK(t, r)
    PROVE  /\ TierSize(t) \in Nat
           /\ r \in RaceState
           /\ r.tail \in Nat
           /\ r.hole \in Nat
           /\ \A i \in 1 .. TierSize(t) : r.order[i] \in Server /\ r.order[i] \in Nat
<1>1. /\ TierSize(t) \in Nat
      /\ TierServers(t) \subseteq Server
      /\ Server \subseteq Nat
    BY TierFacts DEF Server
<1> QED
    BY <1>1 DEF OrderOK, RaceState

\* A new race has its sort before it.
LEMMA NewRaceSorted ==
    ASSUME NEW t \in Tier
    PROVE  SortOK(t, NewRace(t)) /\ SortedSoFar(t, NewRace(t))
<1> DEFINE r == NewRace(t)
<1>1. /\ r.tail = 2
      /\ r.hole = 2
      /\ \A i \in 1 .. TierSize(t) : r.order[i] = Nth(t, i)
    BY DEF NewRace
<1>2. TierSize(t) \in Nat
    BY TierFacts
<1> HIDE DEF r
<1>3. \A i \in 1 .. TierSize(t) : i <= 2 /\ i # 2 => r.order[i] < Nth(t, 2)
    BY <1>1, <1>2, NthFacts
<1>4. SortOK(t, r)
    BY <1>1, <1>2, <1>3 DEF SortOK
<1>5. SortedSoFar(t, r)
    BY <1>1, <1>2 DEF SortedSoFar
<1> QED
    BY <1>4, <1>5 DEF r

\* Moving the entry at hole one place to the front keeps the rest sorted: it costs
\* less than the one it passes.
LEMMA SwappedSorted ==
    ASSUME NEW t \in Tier, NEW r, OrderOK(t, r), SortOK(t, r),
           r.hole \in 1 .. r.tail, r.tail <= TierSize(t), Misplaced(r)
    PROVE  /\ SortOK(t, Swapped(r))
           /\ SortedSoFar(t, r) => SortedSoFar(t, Swapped(r))
<1> DEFINE o == r.order
           n == TierSize(t)
           h == r.hole
           p == [o EXCEPT ![h] = o[h - 1], ![h - 1] = o[h]]
           w == Swapped(r)
<1>1. /\ n \in Nat
      /\ r \in RaceState
      /\ r.tail \in Nat
      /\ h \in 2 .. r.tail
      /\ h \in 1 .. n
      /\ h - 1 \in 1 .. n
    BY SortTypes DEF Misplaced
<1>2. w.order = p /\ w.hole = h - 1 /\ w.tail = r.tail
    BY <1>1 DEF Swapped, RaceState
<1>3. /\ DOMAIN o = 1 .. n
      /\ p[h] = o[h - 1]
      /\ p[h - 1] = o[h]
      /\ \A i \in 1 .. n : i # h /\ i # h - 1 => p[i] = o[i]
    BY <1>1 DEF OrderOK
<1>4. /\ r.tail >= 2
      /\ \A i \in 1 .. n : /\ i > r.tail => o[i] = Nth(t, i)
                           /\ i <= r.tail /\ i # h => o[i] < Nth(t, r.tail)
                           /\ i = h => o[i] = Nth(t, r.tail)
    BY DEF SortOK
<1>5. Before(o[h], o[h - 1])
    BY DEF Misplaced, Before
<1> HIDE DEF o, h, p, w, n
<1>6. SortOK(t, w)
  <2>1. ASSUME NEW i \in 1 .. n
        PROVE  /\ i > r.tail => p[i] = Nth(t, i)
               /\ i <= r.tail /\ i # h - 1 => p[i] < Nth(t, r.tail)
               /\ i = h - 1 => p[i] = Nth(t, r.tail)
    <3>1. CASE i = h
        BY <1>1, <1>3, <1>4, <3>1
    <3>2. CASE i = h - 1
        BY <1>1, <1>3, <1>4, <3>2
    <3>3. CASE i # h /\ i # h - 1
        BY <1>1, <1>3, <1>4, <3>3
    <3> QED
        BY <3>1, <3>2, <3>3
  <2>2. ~(r.tail > n)
      BY <1>1 DEF n
  <2> QED
      BY <1>2, <1>4, <2>1, <2>2 DEF SortOK, n
<1>7. ASSUME SortedSoFar(t, r)
      PROVE  SortedSoFar(t, w)
  <2>1. \A i, j \in 1 .. n : i < j /\ j <= r.tail /\ j # h => Before(o[i], o[j])
      BY <1>7 DEF SortedSoFar, n, o, h
  <2>2. ASSUME NEW i \in 1 .. n, NEW j \in 1 .. n, i < j, j <= r.tail, j # h - 1
        PROVE  Before(p[i], p[j])
    <3>1. CASE j = h
      <4>1. CASE i = h - 1
          BY <1>3, <1>5, <3>1, <4>1
      <4>2. CASE i # h - 1
          BY <1>1, <1>3, <2>1, <2>2, <3>1, <4>2
      <4> QED
          BY <4>1, <4>2
    <3>2. CASE j # h
      <4>1. p[j] = o[j]
          BY <1>3, <2>2, <3>2
      <4>2. CASE i = h
          BY <1>1, <1>3, <2>1, <2>2, <3>2, <4>1, <4>2
      <4>3. CASE i = h - 1
          BY <1>1, <1>3, <2>1, <2>2, <3>2, <4>1, <4>3
      <4>4. CASE i # h /\ i # h - 1
          BY <1>3, <2>1, <2>2, <3>2, <4>1, <4>4
      <4> QED
          BY <4>2, <4>3, <4>4
    <3> QED
        BY <3>1, <3>2
  <2> QED
      BY <1>2, <2>2 DEF SortedSoFar, n
<1> QED
    BY <1>6, <1>7 DEF w

\* An entry that costs no less than the one before it is in its place: it was
\* configured after all the others, so that equal costs keep it behind.
LEMMA SettledSorted ==
    ASSUME TypeOK, NEW t \in Tier, NEW r, OrderOK(t, r), SortOK(t, r),
           r.hole \in 1 .. r.tail, r.tail <= TierSize(t), ~Misplaced(r)
    PROVE  /\ SortOK(t, Settled(r))
           /\ SortedSoFar(t, r) => SortedSoFar(t, Settled(r))
<1> DEFINE o == r.order
           n == TierSize(t)
           h == r.hole
           w == Settled(r)
<1>1. /\ n \in Nat
      /\ r \in RaceState
      /\ r.tail \in Nat
      /\ h \in Nat
      /\ \A i \in 1 .. n : o[i] \in Server /\ o[i] \in Nat
    BY SortTypes
<1>2. w.order = o /\ w.hole = r.tail + 1 /\ w.tail = r.tail + 1
    BY <1>1 DEF Settled, RaceState
<1>3. /\ r.tail >= 2
      /\ \A i \in 1 .. n : /\ i > r.tail => o[i] = Nth(t, i)
                           /\ i <= r.tail /\ i # h => o[i] < Nth(t, r.tail)
                           /\ i = h => o[i] = Nth(t, r.tail)
    BY DEF SortOK
<1>4. /\ Nth(t, r.tail) \in Nat
      /\ Nth(t, r.tail + 1) \in Nat
      /\ Nth(t, r.tail) < Nth(t, r.tail + 1)
    BY <1>1, NthFacts
<1>5. h > 1 => Before(o[h - 1], o[h])
  <2> HAVE h > 1
  <2>1. h \in 1 .. n /\ h - 1 \in 1 .. n
      BY <1>1
  <2>2. o[h - 1] < o[h]
      BY <1>1, <1>3, <2>1
  <2>3. ~(cost[o[h]] < cost[o[h - 1]])
      BY DEF Misplaced
  <2>4. cost[o[h]] \in Int /\ cost[o[h - 1]] \in Int
    <3>1. o[h] \in Server /\ o[h - 1] \in Server
        BY <1>1, <2>1
    <3> QED
        BY <3>1, RaceAssumption DEF TypeOK
  <2> HIDE DEF o, h
  <2> QED
      BY <2>2, <2>3, <2>4 DEF Before
<1>6. h <= r.tail /\ r.tail <= n
    BY <1>1
<1> HIDE DEF o, h, w, n
<1>7. SortOK(t, w)
  <2>1. ASSUME NEW i \in 1 .. n
        PROVE  /\ i > r.tail + 1 => o[i] = Nth(t, i)
               /\ i <= r.tail + 1 /\ i # r.tail + 1 => o[i] < Nth(t, r.tail + 1)
               /\ i = r.tail + 1 => o[i] = Nth(t, r.tail + 1)
    <3>1. CASE i > r.tail
        BY <1>1, <1>3, <3>1
    <3>2. CASE i <= r.tail
      <4>1. o[i] <= Nth(t, r.tail)
          BY <1>1, <1>3, <1>4, <3>2
      <4>2. o[i] < Nth(t, r.tail + 1)
          BY <1>1, <1>4, <4>1
      <4> QED
          BY <1>1, <3>2, <4>2
    <3> QED
        BY <1>1, <3>1, <3>2
  <2> QED
      BY <1>1, <1>2, <1>3, <2>1 DEF SortOK, n
<1>8. ASSUME SortedSoFar(t, r)
      PROVE  SortedSoFar(t, w)
  <2>1. \A i, j \in 1 .. n : i < j /\ j <= r.tail /\ j # h => Before(o[i], o[j])
      BY <1>8 DEF SortedSoFar, n, o, h
  <2>2. ASSUME NEW i \in 1 .. n, NEW j \in 1 .. n, i < j, j <= r.tail + 1, j # r.tail + 1
        PROVE  Before(o[i], o[j])
    <3>1. j <= r.tail
        BY <1>1, <2>2
    <3>2. CASE j # h
        BY <2>1, <2>2, <3>1, <3>2
    <3>3. CASE j = h /\ i = h - 1
        BY <1>1, <1>5, <2>2, <3>3
    <3>4. CASE j = h /\ i # h - 1
      <4>1. h - 1 \in 1 .. n /\ i < h - 1 /\ h - 1 <= r.tail /\ h - 1 # h
          BY <1>1, <1>6, <2>2, <3>4
      <4>2. Before(o[i], o[h - 1])
          BY <2>1, <4>1
      <4>3. Before(o[h - 1], o[h])
          BY <1>1, <1>5, <2>2, <3>4
      <4> QED
          BY <1>1, <2>2, <3>4, <4>1, <4>2, <4>3, BeforeTransitive
    <3> QED
        BY <3>2, <3>3, <3>4
  <2> QED
      BY <1>2, <2>2 DEF SortedSoFar, n
<1> QED
    BY <1>7, <1>8 DEF w

\* A query that a step leaves alone keeps its part of CalmInv: if it is sorting, then
\* either the costs are the same, or it is no longer calm.
LEMMA SortUntouched ==
    ASSUME NEW q \in Query, SortInv(q),
           phase'[q] = phase[q], tier'[q] = tier[q], race'[q] = race[q],
           phase[q] = "ordering" /\ calm'[q] => cost' = cost /\ calm[q]
    PROVE  SortInv(q)'
<1>1. NewRace("primary")' = NewRace("primary")
    BY DEF NewRace, TierSize, Nth
<1>2. SortOK(tier[q], race[q])' <=> SortOK(tier[q], race[q])
    BY DEF SortOK, TierSize, Nth
<1>3. ASSUME cost' = cost
      PROVE  SortedSoFar(tier[q], race[q])' <=> SortedSoFar(tier[q], race[q])
    BY <1>3 DEF SortedSoFar, TierSize, Before
<1> QED
    BY <1>1, <1>2, <1>3 DEF SortInv

\* Resuming a race leaves it past its sort or starts the sort of the next tier.
LEMMA ResumeSort ==
    ASSUME TypeOK, NEW q \in Query, NEW r, Resume(q, r)
    PROVE  /\ SortInv(q)'
           /\ \A p \in Query \ {q} : /\ phase'[p] = phase[p]
                                     /\ tier'[p] = tier[p]
                                     /\ race'[p] = race[p]
<1> DEFINE h == LoopHead(r)
<1>1. CASE ~Exhausted(h)
  <2>1. /\ phase' = [phase EXCEPT ![q] = "racing"]
        /\ race' = [race EXCEPT ![q] = h]
        /\ tier' = tier
      BY <1>1 DEF Resume
  <2> HIDE DEF h
  <2> QED
      BY <2>1 DEF TypeOK, SortInv
<1>2. CASE Exhausted(h) /\ Escalates(q)
  <2> DEFINE n == NewRace("fallback")
  <2>1. /\ phase' = [phase EXCEPT ![q] = "ordering"]
        /\ tier' = [tier EXCEPT ![q] = "fallback"]
        /\ race' = [race EXCEPT ![q] = n]
      BY <1>2 DEF Resume
  <2> HIDE DEF h, n
  <2>2. phase'[q] = "ordering" /\ tier'[q] = "fallback" /\ race'[q] = n
      BY <2>1 DEF TypeOK
  <2>3. SortInv(q)'
    <3>1. SortOK("fallback", n)
        BY NewRaceSorted DEF Tier, n
    <3>2. SortOK(tier'[q], race'[q])
        BY <2>2, <3>1
    <3>3. SortOK(tier[q], race[q])'
        BY <3>2 DEF SortOK, TierSize, Nth
    <3>4. SortedSoFar(tier[q], race[q])'
      <4>1. n.tail = 2 /\ n.hole = 2
          BY DEF NewRace, n
      <4>2. TierSize("fallback") \in Nat
          BY TierFacts DEF Tier
      <4>3. TierSize(tier[q])' = TierSize("fallback")
          BY <2>2 DEF TierSize
      <4> QED
          BY <2>2, <4>1, <4>2, <4>3 DEF SortedSoFar
    <3> QED
        BY <2>2, <3>3, <3>4 DEF SortInv
  <2> QED
      BY <2>1, <2>3 DEF TypeOK
<1>3. CASE Exhausted(h) /\ ~Escalates(q)
  <2>1. /\ phase' = [phase EXCEPT ![q] = "done"]
        /\ race' = [race EXCEPT ![q] = h]
        /\ tier' = tier
      BY <1>3 DEF Resume
  <2> HIDE DEF h
  <2> QED
      BY <2>1 DEF TypeOK, SortInv
<1> QED
    BY <1>1, <1>2, <1>3

\* Every step keeps CalmInv.
LEMMA NextCalm == Inv /\ CalmInv /\ [Next]_vars => CalmInv'
<1> SUFFICES ASSUME Inv, CalmInv, [Next]_vars, NEW q \in Query PROVE SortInv(q)'
    BY DEF CalmInv
<1>0. /\ TypeOK
      /\ QueryInv(q)
      /\ SortInv(q)
      /\ tier[q] \in Tier
    BY DEF Inv, CalmInv, TypeOK
<1>1. ASSUME NEW p \in Query, Begin(p) PROVE SortInv(q)'
  <2>1. CASE p # q
      BY <1>0, <1>1, <2>1, SortUntouched DEF Begin, TypeOK
  <2>2. CASE p = q
    <3> DEFINE r == NewRace("primary")
    <3>1. /\ race'[q] = r
          /\ race[q] = r
          /\ tier'[q] = "primary"
          /\ phase'[q] # "idle"
          /\ cost' = cost
        BY <1>0, <1>1, <2>2 DEF Begin, TypeOK, SortInv, QueryInv
    <3>2. SortOK("primary", r) /\ SortedSoFar("primary", r)
        BY NewRaceSorted DEF Tier
    <3> HIDE DEF r
    <3>3. SortOK(tier[q], race[q])'
        BY <3>1, <3>2 DEF SortOK, TierSize, Nth
    <3>4. SortedSoFar(tier[q], race[q])'
        BY <3>1, <3>2 DEF SortedSoFar, TierSize, Before
    <3> QED
        BY <3>1, <3>3, <3>4 DEF SortInv
  <2> QED
      BY <2>1, <2>2
<1>2. ASSUME NEW p \in Query, Sort(p) PROVE SortInv(q)'
  <2>1. CASE p # q
      BY <1>0, <1>2, <2>1, SortUntouched DEF Sort, TypeOK
  <2>2. CASE p = q
    <3> DEFINE r == race[q]
               t == tier[q]
               s == IF Misplaced(r) THEN Swapped(r) ELSE Settled(r)
    <3>1. /\ phase[q] = "ordering"
          /\ race' = [race EXCEPT ![q] = s]
          /\ UNCHANGED <<phase, tier, cost, calm>>
          /\ r.tail <= Len(r.order)
        BY <1>2, <2>2 DEF Sort
    <3>2. /\ OrderOK(t, r)
          /\ SortOK(t, r)
          /\ r.hole \in 1 .. r.tail
          /\ r.tail <= TierSize(t)
        BY <1>0, <3>1, OrderLength DEF QueryInv, SortInv
    <3>3. SortOK(t, s) /\ (SortedSoFar(t, r) => SortedSoFar(t, s))
      <4>1. CASE Misplaced(r)
          BY <1>0, <3>2, <4>1, SwappedSorted
      <4>2. CASE ~Misplaced(r)
          BY <1>0, <3>2, <4>2, SettledSorted
      <4> QED
          BY <4>1, <4>2
    <3> HIDE DEF s
    <3>4. race'[q] = s
        BY <1>0, <3>1 DEF TypeOK
    <3>5. SortOK(tier[q], race[q])'
        BY <3>1, <3>3, <3>4 DEF SortOK, TierSize, Nth
    <3>6. SortedSoFar(t, s) => SortedSoFar(tier[q], race[q])'
        BY <3>1, <3>4 DEF SortedSoFar, TierSize, Before
    <3> QED
        BY <1>0, <3>1, <3>3, <3>5, <3>6 DEF SortInv
  <2> QED
      BY <2>1, <2>2
<1>3. ASSUME NEW p \in Query, Enter(p) PROVE SortInv(q)'
  <2>1. Resume(p, race[p]) /\ cost' = cost /\ calm' = [calm EXCEPT ![p] = TRUE]
      BY <1>3 DEF Enter
  <2>2. CASE p = q
      BY <1>0, <2>1, <2>2, ResumeSort
  <2>3. CASE p # q
    <3>1. phase'[q] = phase[q] /\ tier'[q] = tier[q] /\ race'[q] = race[q]
        BY <1>0, <2>1, <2>3, ResumeSort
    <3>2. calm'[q] = calm[q]
        BY <1>0, <2>1, <2>3 DEF TypeOK
    <3> QED
        BY <1>0, <2>1, <3>1, <3>2, SortUntouched
  <2> QED
      BY <2>2, <2>3
<1>4. ASSUME NEW p \in Query, NEW s \in Server, DialFails(p, s) PROVE SortInv(q)'
  <2>1. PICK e \in Failure : Resume(p, Lose(race[p], s, e))
      BY <1>4 DEF DialFails
  <2>2. phase[q] = "ordering" => ~calm'[q]
      BY <1>4 DEF DialFails, SetCost
  <2>3. CASE p = q
      BY <1>0, <2>1, <2>3, ResumeSort
  <2>4. CASE p # q
    <3>1. phase'[q] = phase[q] /\ tier'[q] = tier[q] /\ race'[q] = race[q]
        BY <1>0, <2>1, <2>4, ResumeSort
    <3> QED
        BY <1>0, <2>2, <3>1, SortUntouched
  <2> QED
      BY <2>3, <2>4
<1>5. ASSUME NEW p \in Query, NEW s \in Server, DialSucceeds(p, s) PROVE SortInv(q)'
  <2>1. phase[q] = "ordering" => ~calm'[q]
      BY <1>5 DEF DialSucceeds, SetCost
  <2>2. CASE p = q
    <3>1. phase'[q] = "done"
        BY <1>0, <1>5, <2>2 DEF DialSucceeds, TypeOK
    <3> QED
        BY <3>1 DEF SortInv
  <2>3. CASE p # q
    <3>1. phase'[q] = phase[q] /\ tier'[q] = tier[q] /\ race'[q] = race[q]
        BY <1>0, <1>5, <2>3 DEF DialSucceeds, TypeOK
    <3> QED
        BY <1>0, <2>1, <3>1, SortUntouched
  <2> QED
      BY <2>2, <2>3
<1>6. ASSUME NEW p \in Query, DelayEnds(p) PROVE SortInv(q)'
  <2> DEFINE r == [race[p] EXCEPT !.delayed = FALSE]
  <2>1. Resume(p, r) /\ cost' = cost /\ calm' = calm
      BY <1>6 DEF DelayEnds
  <2> HIDE DEF r
  <2>2. CASE p = q
      BY <1>0, <2>1, <2>2, ResumeSort
  <2>3. CASE p # q
    <3>1. phase'[q] = phase[q] /\ tier'[q] = tier[q] /\ race'[q] = race[q]
        BY <1>0, <2>1, <2>3, ResumeSort
    <3> QED
        BY <1>0, <2>1, <3>1, SortUntouched
  <2> QED
      BY <2>2, <2>3
<1>7. ASSUME NEW p \in Query, Cancel(p) PROVE SortInv(q)'
  <2>1. CASE p = q
    <3>1. phase'[q] = "done"
        BY <1>0, <1>7, <2>1 DEF Cancel, TypeOK
    <3> QED
        BY <3>1 DEF SortInv
  <2>2. CASE p # q
    <3>1. phase'[q] = phase[q] /\ tier'[q] = tier[q] /\ race'[q] = race[q]
        BY <1>0, <1>7, <2>2 DEF Cancel, TypeOK
    <3>2. cost' = cost /\ calm'[q] = calm[q]
        BY <1>0, <1>7, <2>2 DEF Cancel, TypeOK
    <3> QED
        BY <1>0, <3>1, <3>2, SortUntouched
  <2> QED
      BY <2>1, <2>2
<1>8. ASSUME NEW s \in Server, Decay(s) PROVE SortInv(q)'
  <2>1. phase[q] = "ordering" => ~calm'[q]
      BY <1>8 DEF Decay, SetCost
  <2> QED
      BY <1>0, <1>8, <2>1, SortUntouched DEF Decay
<1>9. CASE UNCHANGED vars
    BY <1>0, <1>9, SortUntouched DEF vars
<1> QED
    BY <1>1, <1>2, <1>3, <1>4, <1>5, <1>6, <1>7, <1>8, <1>9 DEF Next, Finished

\* Unless other queries move the costs during the sort, a race asks the nameservers of
\* its tier by cost, and by place in the configuration where the costs are equal.
THEOREM CalmSortsAreSorted == Spec => SortedWhenCalm
<1> DEFINE Sorted(q) ==
              phase[q] = "ordering" /\ phase'[q] = "racing" /\ calm[q]
                 => \A i, j \in DOMAIN race[q].order :
                       i < j => Before(race[q].order[i], race[q].order[j])
<1>1. Init => CalmInv
    BY DEF Init, CalmInv, SortInv
<1>2. ASSUME Inv, CalmInv, [Next]_vars, NEW q \in Query,
             phase[q] = "ordering", phase'[q] = "racing", calm[q]
      PROVE  \A i, j \in DOMAIN race[q].order :
                 i < j => Before(race[q].order[i], race[q].order[j])
  <2>1. Enter(q)
    <3>1. TypeOK
        BY <1>2 DEF Inv
    <3>2. ASSUME NEW p \in Query, NEW r, Resume(p, r), phase[p] # "ordering"
          PROVE  FALSE
        BY <1>2, <3>1, <3>2, ResumeSort
    <3>3. ASSUME NEW p \in Query, Enter(p)
          PROVE  p = q
        BY <1>2, <3>1, <3>3, ResumeSort DEF Enter
    <3>4. ASSUME NEW p \in Query, Begin(p) \/ Sort(p) \/ DelayEnds(p) \/ Cancel(p)
          PROVE  FALSE
        BY <1>2, <3>1, <3>2, <3>4 DEF Begin, Sort, DelayEnds, Cancel, TypeOK
    <3>5. ASSUME NEW p \in Query, NEW s \in Server, DialFails(p, s) \/ DialSucceeds(p, s)
          PROVE  FALSE
        BY <1>2, <3>1, <3>2, <3>5 DEF DialFails, DialSucceeds, TypeOK
    <3>6. ASSUME (\E s \in Server : Decay(s)) \/ UNCHANGED vars
          PROVE  FALSE
        BY <1>2, <3>6 DEF Decay, vars
    <3> QED
        BY <1>2, <3>3, <3>4, <3>5, <3>6 DEF Next, Finished
  <2>2. /\ OrderOK(tier[q], race[q])
        /\ SortOK(tier[q], race[q])
        /\ SortedSoFar(tier[q], race[q])
        /\ tier[q] \in Tier
        /\ race[q].tail > Len(race[q].order)
      BY <1>2, <2>1 DEF Inv, CalmInv, QueryInv, SortInv, TypeOK, Enter
  <2>3. /\ Len(race[q].order) = TierSize(tier[q])
        /\ DOMAIN race[q].order = 1 .. TierSize(tier[q])
        /\ TierSize(tier[q]) \in Nat
        /\ race[q].tail \in Nat
      BY <2>2, OrderLength, SortTypes DEF OrderOK
  <2>4. race[q].hole = race[q].tail
      BY <2>2, <2>3 DEF SortOK
  <2> QED
      BY <2>2, <2>3, <2>4 DEF SortedSoFar
<1>3. Inv /\ CalmInv /\ [Next]_vars => [\A q \in Query : Sorted(q)]_vars
    BY <1>2
<1> QED
    BY <1>1, <1>3, NextCalm, Invariance, PTL DEF Spec, SortedWhenCalm

-----------------------------------------------------------------------------
(* Race implements TieredQuery: the dials of a running race are the abstract *)
(* attempts in flight, and each step is a step of TieredQuery on one query,  *)
(* or changes nothing there.                                                 *)

\* The instance of TieredQuery counts as this module does.
LEMMA SameCardinality == \A S : Tiered!Cardinality(S) = Cardinality(S)
    BY Zenon DEF Tiered!Cardinality, Cardinality, Tiered!IsFiniteSet, IsFiniteSet

\* A nameserver in flight is not among those that failed.
LEMMA InFlightNotLost ==
    ASSUME NEW t \in Tier, NEW r, NEW lost,
           OrderOK(t, r), AccountOK(t, r, lost)
    PROVE  /\ r.dials \subseteq Server
           /\ r.dials \cap lost = {}
<1>1. Started(r) \subseteq TierServers(t)
    BY StartedFacts DEF AccountOK
<1>2. TierServers(t) \subseteq Server /\ TierServers(t) \cap Earlier(t) = {}
    BY TierFacts DEF TierServers, Earlier, Tier
<1> QED
    BY <1>1, <1>2 DEF AccountOK

\* The head of the loop leaves the dials, or adds one eligible nameserver.
LEMMA LoopHeadDials ==
    ASSUME NEW t \in Tier, NEW r, NEW lost,
           OrderOK(t, r), AccountOK(t, r, lost)
    PROVE  \/ LoopHead(r).dials = r.dials
           \/ \E s \in Server : /\ LoopHead(r).dials = r.dials \cup {s}
                                /\ Tiered!Eligible(s, lost, r.dials)
<1>1. CASE ~MayStart(r)
    BY <1>1 DEF LoopHead
<1>2. CASE MayStart(r)
  <2> DEFINE s == r.order[r.next + 1]
  <2>1. LoopHead(r).dials = r.dials \cup {s}
      BY <1>2 DEF LoopHead, Start, OrderOK, RaceState
  <2>2. r.next < TierSize(t) /\ Cardinality(r.dials) < MaxConcurrent
      BY <1>2, OrderLength DEF MayStart
  <2>3. s \in TierServers(t) \ Started(r)
      BY <2>2, StartedFacts DEF AccountOK
  <2>4. /\ TierServers(t) \subseteq Server
        /\ TierServers(t) \cap Earlier(t) = {}
        /\ t = "primary" => TierServers(t) = 1 .. PrimaryCount
        /\ t = "fallback" => Earlier(t) = 1 .. PrimaryCount
      BY TierFacts DEF TierServers, Earlier, Tier
  <2>5. Tiered!Eligible(s, lost, r.dials)
    <3>1. s \in Server \ (lost \cup r.dials)
        BY <2>3, <2>4 DEF AccountOK
    <3>2. s \in 1 .. PrimaryCount \/ 1 .. PrimaryCount \subseteq lost
        BY <2>3, <2>4 DEF AccountOK, Tier
    <3> HIDE DEF s
    <3> QED
        BY <2>2, <3>1, <3>2, SameCardinality
        DEF Tiered!Eligible, Tiered!Server, Tiered!Primary, Server
  <2> QED
      BY <2>1, <2>3, <2>4, <2>5
<1> QED
    BY <1>1, <1>2

\* The abstract state is a function of the queries.
Inflight == [q \in Query |-> race[q].dials]
Outcomes == [q \in Query |-> Outcome(q)]

\* What resuming a race means for its query in TieredQuery.
LEMMA ResumeMaps ==
    ASSUME Inv, NEW q \in Query, NEW r,
           ReadyOK(q, r, failed'[q]),
           Resume(q, r)
    PROVE  /\ Outcomes[q] = "pending"
           /\ \/ Inflight' = [Inflight EXCEPT ![q] = r.dials]
              \/ \E s \in Server :
                    /\ Inflight' = [Inflight EXCEPT ![q] = r.dials \cup {s}]
                    /\ Tiered!Eligible(s, failed'[q], r.dials)
           /\ Outcomes' = [Outcomes EXCEPT ![q] =
                              IF failed'[q] = Server THEN "error" ELSE "pending"]
           /\ failed'[q] = Server => r.dials = {} /\ Inflight' = [Inflight EXCEPT ![q] = {}]
<1> DEFINE t == tier[q]
           h == LoopHead(r)
           lost == failed'[q]
<1>1. TypeOK /\ QueryInv(q) /\ t \in Tier
    BY DEF Inv, TypeOK
<1>2. /\ phase[q] \in {"ordering", "racing"}
      /\ OrderOK(t, r)
      /\ AccountOK(t, r, lost)
      /\ ~r.delayed
      /\ Cardinality(r.dials) <= MaxConcurrent
    BY DEF ReadyOK
<1>3. /\ OrderOK(t, h)
      /\ AccountOK(t, h, lost)
      /\ ~Exhausted(h) => SelectOK(t, h)
      /\ Exhausted(h) => /\ lost = Earlier(t) \cup TierServers(t)
                         /\ h.dials = {}
    BY <1>1, <1>2, LoopHeadOK
<1>4. /\ h.dials \subseteq Server
      /\ h.dials \cap lost = {}
    BY <1>1, <1>3, InFlightNotLost
<1>5. \/ h.dials = r.dials
      \/ \E s \in Server : /\ h.dials = r.dials \cup {s}
                           /\ Tiered!Eligible(s, lost, r.dials)
    BY <1>1, <1>2, LoopHeadDials
<1>6. Outcomes[q] = "pending"
    BY <1>2 DEF Outcomes, Outcome
<1>7. ASSUME race' = [race EXCEPT ![q] = h]
      PROVE  Inflight' = [Inflight EXCEPT ![q] = h.dials]
    BY <1>1, <1>7 DEF Inflight, TypeOK
<1>8. ASSUME NEW v, Outcome(q)' = v,
             \A p \in Query \ {q} : phase'[p] = phase[p] /\ result'[p] = result[p]
      PROVE  Outcomes' = [Outcomes EXCEPT ![q] = v]
    BY <1>8 DEF Outcomes, Outcome
<1>9. CASE ~Exhausted(h)
  <2>1. /\ phase' = [phase EXCEPT ![q] = "racing"]
        /\ race' = [race EXCEPT ![q] = h]
        /\ UNCHANGED result
      BY <1>9 DEF Resume
  <2>2. Inflight' = [Inflight EXCEPT ![q] = h.dials]
      BY <1>7, <2>1
  <2>3. h.dials # {} /\ lost # Server
      BY <1>3, <1>4, <1>9 DEF SelectOK
  <2>4. Outcome(q)' = "pending"
      BY <1>1, <2>1 DEF Outcome, TypeOK
  <2>5. Outcomes' = [Outcomes EXCEPT ![q] = "pending"]
      BY <1>1, <1>8, <2>1, <2>4 DEF TypeOK
  <2> QED
      BY <1>5, <1>6, <2>2, <2>3, <2>5
<1>10. CASE Exhausted(h) /\ Escalates(q)
  <2>1. /\ phase' = [phase EXCEPT ![q] = "ordering"]
        /\ race' = [race EXCEPT ![q] = NewRace("fallback")]
        /\ UNCHANGED result
      BY <1>10 DEF Resume
  <2>2. h.dials = {} /\ r.dials = {}
      BY <1>3, <1>5, <1>10
  <2>3. Inflight' = [Inflight EXCEPT ![q] = {}]
    <3>1. NewRace("fallback").dials = {}
        BY DEF NewRace
    <3> QED
        BY <1>1, <2>1, <3>1 DEF Inflight, TypeOK
  <2>4. lost # Server
    <3>1. lost = 1 .. PrimaryCount
        BY <1>3, <1>10 DEF Escalates, Earlier, TierServers
    <3>2. NameserverCount \in Server \ (1 .. PrimaryCount)
        BY <1>1, <1>10, TierFacts DEF Escalates, Server
    <3> QED
        BY <3>1, <3>2
  <2>5. Outcome(q)' = "pending"
      BY <1>1, <2>1 DEF Outcome, TypeOK
  <2>6. Outcomes' = [Outcomes EXCEPT ![q] = "pending"]
      BY <1>1, <1>8, <2>1, <2>5 DEF TypeOK
  <2> QED
      BY <1>6, <2>2, <2>3, <2>4, <2>6
<1>11. CASE Exhausted(h) /\ ~Escalates(q)
  <2>1. /\ phase' = [phase EXCEPT ![q] = "done"]
        /\ race' = [race EXCEPT ![q] = h]
        /\ result' = [result EXCEPT ![q] = IF h.lastErr = NoErr THEN "noResponse"
                                                                ELSE h.lastErr]
      BY <1>11 DEF Resume
  <2>2. h.dials = {} /\ r.dials = {}
      BY <1>3, <1>5, <1>11
  <2>3. Inflight' = [Inflight EXCEPT ![q] = {}]
      BY <1>7, <2>1, <2>2
  <2>4. lost = Server
    <3>1. Earlier(t) \cup TierServers(t) = Server
        BY <1>1, <1>11, TierFacts DEF Escalates, Earlier, TierServers, Server, Tier
    <3> QED
        BY <1>3, <1>11, <3>1
  <2>5. Outcome(q)' = "error"
    <3>1. h.lastErr \in Failure \cup {NoErr}
        BY <1>3 DEF OrderOK, RaceState
    <3> QED
        BY <1>1, <2>1, <3>1 DEF Outcome, TypeOK, Failure, NoErr
  <2>6. Outcomes' = [Outcomes EXCEPT ![q] = "error"]
      BY <1>1, <1>8, <2>1, <2>5 DEF TypeOK
  <2> QED
      BY <1>6, <2>2, <2>3, <2>4, <2>6
<1> QED
    BY <1>9, <1>10, <1>11

-----------------------------------------------------------------------------
\* The initial states of Race are initial states of TieredQuery.
LEMMA InitMaps == Init => Tiered!Init
<1> SUFFICES ASSUME Init PROVE Tiered!Init
    OBVIOUS
<1>1. Inflight = [q \in Query |-> {}]
    BY DEF Init, Inflight, NewRace
<1>2. Outcomes = [q \in Query |-> "pending"]
    BY DEF Init, Outcomes, Outcome
<1> QED
    BY <1>1, <1>2 DEF Init, Tiered!Init, Inflight, Outcomes

\* A step that leaves the mapped state alone stutters.
LEMMA StutterMaps ==
    ASSUME Inflight' = Inflight, Outcomes' = Outcomes, failed' = failed
    PROVE  UNCHANGED Tiered!vars
    BY DEF Tiered!vars, Inflight, Outcomes

\* A query ends with v: its dials are dropped.
Ends(q, v) == /\ phase[q] \in {"ordering", "racing"}
              /\ phase' = [phase EXCEPT ![q] = "done"]
              /\ race' = [race EXCEPT ![q].dials = {}]
              /\ result' = [result EXCEPT ![q] = v]
              /\ failed' = failed

\* A query that ends for good moves its outcome in TieredQuery and asks nobody any more.
LEMMA EndMaps ==
    ASSUME Inv, NEW q \in Query, NEW v \in {"answer", "dropped"}, Ends(q, v)
    PROVE  /\ Outcomes[q] = "pending"
           /\ Inflight' = [Inflight EXCEPT ![q] = {}]
           /\ Outcomes' = [Outcomes EXCEPT ![q] = v]
           /\ failed' = failed
<1>1. TypeOK
    BY DEF Inv
<1> QED
    BY <1>1 DEF Ends, Inflight, Outcomes, Outcome, TypeOK, RaceState

\* A query that resumes with no nameserver lost dials one, stutters or, without any
\* nameserver, is refused.
LEMMA QuietResumeMaps ==
    ASSUME Inv, NEW q \in Query, NEW r,
           ReadyOK(q, r, failed'[q]),
           Resume(q, r),
           failed' = failed,
           r.dials = race[q].dials,
           r.dials # {} \/ failed[q] # Server \/ Server = {}
    PROVE  [Tiered!Next]_(Tiered!vars)
<1>1. /\ Outcomes[q] = "pending"
      /\ \/ Inflight' = [Inflight EXCEPT ![q] = r.dials]
         \/ \E s \in Server :
               /\ Inflight' = [Inflight EXCEPT ![q] = r.dials \cup {s}]
               /\ Tiered!Eligible(s, failed[q], r.dials)
      /\ Outcomes' = [Outcomes EXCEPT ![q] =
                         IF failed[q] = Server THEN "error" ELSE "pending"]
      /\ failed[q] = Server => r.dials = {} /\ Inflight' = [Inflight EXCEPT ![q] = {}]
    BY ResumeMaps
<1>2. Inflight[q] = r.dials
    BY DEF Inflight
<1>3. CASE failed[q] = Server
  <2>1. Server = {} /\ Inflight' = Inflight /\ Outcomes' = [Outcomes EXCEPT ![q] = "error"]
      BY <1>1, <1>2, <1>3 DEF Inflight
  <2>2. Tiered!Refuse(q)
      BY <1>1, <2>1 DEF Tiered!Refuse, Tiered!Server, Server, Inflight, Outcomes
  <2> QED
      BY <2>2 DEF Tiered!Next
<1>4. CASE failed[q] # Server
  <2>1. Outcomes' = Outcomes
      BY <1>1, <1>4 DEF Outcomes
  <2>2. CASE Inflight' = [Inflight EXCEPT ![q] = r.dials]
    <3>1. Inflight' = Inflight
        BY <1>2, <2>2 DEF Inflight
    <3> QED
        BY <2>1, <3>1, StutterMaps
  <2>3. ASSUME NEW s \in Server,
               Inflight' = [Inflight EXCEPT ![q] = r.dials \cup {s}],
               Tiered!Eligible(s, failed[q], r.dials)
        PROVE  [Tiered!Next]_(Tiered!vars)
    <3>1. Tiered!Dial(q, s)
        BY <1>1, <1>2, <2>1, <2>3 DEF Tiered!Dial, Inflight, Outcomes
    <3> QED
        BY <3>1 DEF Tiered!Next, Tiered!Server, Server
  <2> QED
      BY <1>1, <2>2, <2>3
<1> QED
    BY <1>3, <1>4

\* Every step of Race is a step of TieredQuery or leaves its state alone.
LEMMA NextMaps == Inv /\ [Next]_vars => [Tiered!Next]_(Tiered!vars)
<1> SUFFICES ASSUME Inv, [Next]_vars PROVE [Tiered!Next]_(Tiered!vars)
    OBVIOUS
<1>0. TypeOK /\ \A p \in Query : QueryInv(p)
    BY DEF Inv
<1>1. ASSUME NEW q \in Query, Begin(q) PROVE [Tiered!Next]_(Tiered!vars)
  <2>1. Inflight' = Inflight /\ failed' = failed /\ Outcomes[q] = "pending"
      BY <1>1 DEF Begin, Inflight, Outcomes, Outcome
  <2>2. CASE NameserverCount = 0
    <3>1. /\ phase' = [phase EXCEPT ![q] = "done"]
          /\ result' = [result EXCEPT ![q] = "noNameservers"]
        BY <1>1, <2>2 DEF Begin
    <3>2. Outcomes' = [Outcomes EXCEPT ![q] = "error"]
        BY <1>0, <3>1 DEF Outcomes, Outcome, TypeOK
    <3>3. Tiered!Refuse(q)
        BY <2>1, <2>2, <3>2 DEF Tiered!Refuse, Tiered!Server, Inflight, Outcomes
    <3> QED
        BY <3>3 DEF Tiered!Next
  <2>3. CASE NameserverCount # 0
    <3>1. phase' = [phase EXCEPT ![q] = "ordering"] /\ result' = result
        BY <1>1, <2>3 DEF Begin
    <3>2. Outcomes' = Outcomes
        BY <1>0, <1>1, <3>1 DEF Begin, Outcomes, Outcome, TypeOK
    <3> QED
        BY <2>1, <3>2, StutterMaps
  <2> QED
      BY <2>2, <2>3
<1>2. ASSUME NEW q \in Query, Sort(q) PROVE [Tiered!Next]_(Tiered!vars)
  <2> DEFINE r == race[q]
             s == IF Misplaced(r) THEN Swapped(r) ELSE Settled(r)
  <2>1. race' = [race EXCEPT ![q] = s] /\ UNCHANGED <<phase, result, failed>>
      BY <1>2 DEF Sort
  <2>2. s.dials = r.dials
    <3>1. r \in RaceState
        BY <1>0 DEF TypeOK
    <3>2. Swapped(r).dials = r.dials /\ Settled(r).dials = r.dials
        BY <3>1 DEF Swapped, Settled, RaceState
    <3> QED
        BY <3>2
  <2>3. Inflight' = Inflight
    <3> HIDE DEF s
    <3> QED
        BY <1>0, <2>1, <2>2 DEF Inflight, TypeOK
  <2>4. Outcomes' = Outcomes
      BY <2>1 DEF Outcomes, Outcome
  <2> QED
      BY <2>1, <2>3, <2>4, StutterMaps
<1>3. ASSUME NEW q \in Query, Enter(q) PROVE [Tiered!Next]_(Tiered!vars)
  <2>1. ReadyOK(q, race[q], failed'[q]) /\ Resume(q, race[q]) /\ failed' = failed
      BY <1>3, EnterReady DEF Enter
  <2>2. failed[q] # Server \/ Server = {}
    <3>1. /\ AccountOK(tier[q], race[q], failed[q])
          /\ race[q].next = 0
          /\ tier[q] = "fallback" => PrimaryCount # NameserverCount
          /\ tier[q] \in Tier
        BY <1>0, <1>3 DEF Enter, QueryInv, TypeOK
    <3>2. failed[q] = Earlier(tier[q])
        BY <3>1 DEF AccountOK, Started
    <3>3. CASE tier[q] = "primary"
        BY <3>2, <3>3 DEF Earlier
    <3>4. CASE tier[q] = "fallback"
      <4>1. NameserverCount \in Server \ (1 .. PrimaryCount)
          BY <3>1, <3>4, TierFacts DEF Server
      <4> QED
          BY <3>2, <3>4, <4>1 DEF Earlier
    <3> QED
        BY <3>1, <3>3, <3>4 DEF Tier
  <2> QED
      BY <2>1, <2>2, QuietResumeMaps
<1>4. ASSUME NEW q \in Query, NEW s \in Server, DialFails(q, s)
      PROVE  [Tiered!Next]_(Tiered!vars)
  <2>1. PICK e \in Failure : Resume(q, Lose(race[q], s, e))
      BY <1>4 DEF DialFails
  <2> DEFINE l == Lose(race[q], s, e)
             lost == failed[q] \cup {s}
  <2>2. ReadyOK(q, l, failed'[q])
      BY <1>4, LoseReady
  <2>3. /\ failed' = [failed EXCEPT ![q] = lost]
        /\ failed'[q] = lost
        /\ s \in race[q].dials
      BY <1>0, <1>4 DEF DialFails, TypeOK
  <2>4. l.dials = race[q].dials \ {s}
      BY <1>0 DEF Lose, TypeOK, RaceState
  <2>5. /\ Outcomes[q] = "pending"
        /\ \/ Inflight' = [Inflight EXCEPT ![q] = l.dials]
           \/ \E t \in Server :
                 /\ Inflight' = [Inflight EXCEPT ![q] = l.dials \cup {t}]
                 /\ Tiered!Eligible(t, failed'[q], l.dials)
        /\ Outcomes' = [Outcomes EXCEPT ![q] =
                           IF failed'[q] = Server THEN "error" ELSE "pending"]
    <3> HIDE DEF l
    <3>1. Resume(q, l)
        BY <2>1 DEF l
    <3> QED
        BY <2>2, <3>1, ResumeMaps
  <2>6. Inflight[q] = race[q].dials
      BY DEF Inflight
  <2> HIDE DEF l
  <2>7. Tiered!Fail(q, s)
    <3>1. l.dials = Inflight[q] \ {s}
        BY <2>4, <2>6
    <3>2. \/ Inflight' = [Inflight EXCEPT ![q] = Inflight[q] \ {s}]
          \/ \E t \in Server :
                /\ Tiered!Eligible(t, lost, Inflight[q] \ {s})
                /\ Inflight' = [Inflight EXCEPT ![q] = (Inflight[q] \ {s}) \cup {t}]
        BY <2>3, <2>5, <3>1
    <3>3. Outcomes' = [Outcomes EXCEPT ![q] = IF lost = Server THEN "error" ELSE @]
        BY <2>3, <2>5
    <3>4. s \in Inflight[q]
        BY <2>3, <2>6
    <3> HIDE DEF lost
    <3> QED
        BY <2>3, <2>5, <3>2, <3>3, <3>4
        DEF Tiered!Fail, Tiered!Server, Server, Inflight, Outcomes, lost
  <2> QED
      BY <2>7 DEF Tiered!Next, Tiered!Server, Server
<1>5. ASSUME NEW q \in Query, NEW s \in Server, DialSucceeds(q, s)
      PROVE  [Tiered!Next]_(Tiered!vars)
  <2>1. Ends(q, "answer") /\ race[q].dials # {}
      BY <1>5 DEF DialSucceeds, Ends
  <2>2. Tiered!Answer(q)
      BY <2>1, EndMaps DEF Tiered!Answer, Inflight, Outcomes
  <2> QED
      BY <2>2 DEF Tiered!Next
<1>6. ASSUME NEW q \in Query, DelayEnds(q) PROVE [Tiered!Next]_(Tiered!vars)
  <2> DEFINE r == [race[q] EXCEPT !.delayed = FALSE]
  <2>1. ReadyOK(q, r, failed'[q]) /\ Resume(q, r) /\ failed' = failed
      BY <1>6, DelayReady DEF DelayEnds
  <2>2. r.dials = race[q].dials /\ race[q].dials # {}
      BY <1>0, <1>6 DEF DelayEnds, QueryInv, SelectOK, TypeOK, RaceState
  <2> HIDE DEF r
  <2> QED
      BY <2>1, <2>2, QuietResumeMaps
<1>7. ASSUME NEW q \in Query, Cancel(q) PROVE [Tiered!Next]_(Tiered!vars)
  <2>1. Ends(q, "dropped")
      BY <1>7 DEF Cancel, Ends
  <2>2. Tiered!Drop(q)
      BY <2>1, EndMaps DEF Tiered!Drop, Inflight, Outcomes
  <2> QED
      BY <2>2 DEF Tiered!Next
<1>8. ASSUME NEW s \in Server, Decay(s) PROVE [Tiered!Next]_(Tiered!vars)
    BY <1>8, StutterMaps DEF Decay, Inflight, Outcomes, Outcome
<1>9. CASE UNCHANGED vars
    BY <1>9, StutterMaps DEF vars, Inflight, Outcomes, Outcome
<1> QED
    BY <1>1, <1>2, <1>3, <1>4, <1>5, <1>6, <1>7, <1>8, <1>9 DEF Next, Finished

\* race and send_query keep what TieredQuery promises of every query.
THEOREM RaceImplementsTieredQuery == Spec => ImplementsTieredQuery
    BY InitMaps, NextMaps, Invariance, PTL DEF Spec, ImplementsTieredQuery, Tiered!Spec

=============================================================================
