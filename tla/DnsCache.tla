------------------------------ MODULE DnsCache ------------------------------
(***************************************************************************)
(* The resolver's cache (DnsCache) as operators on its value: a sequence   *)
(* of entries, most recently used first, with one entry per hash slot.     *)
(* A Name stands for a normalized host together with a record kind.        *)
(***************************************************************************)
EXTENDS Integers, Sequences, SequencesExt

CONSTANTS Name,     \* normalized hosts (with the kind that is looked up)
          Slot,     \* cache_key: the u64 hash of each name
          Capacity, \* MAX_CACHE_ENTRIES
          MaxTtl    \* MAX_TTL_SECS

ASSUME CacheAssumption ==
    /\ DOMAIN Slot = Name
    /\ Capacity \in Nat \ {0}
    /\ MaxTtl \in Nat \ {0}

\* CachedResult: records of the name, or an absence.
NoData == [kind |-> "nodata"]
NxDomain == [kind |-> "nxdomain"]
Positive(n, v) == [kind |-> "positive", name |-> n, version |-> v]
IsPositive(result) == result.kind = "positive"

\* Mutant: the stored host is not compared.
FindInSlot(c, n) == {e \in Range(c) : Slot[e.name] = Slot[n]}

\* The entry of n, if its slot holds it and not a colliding name.
Find(c, n) == {e \in Range(c) : e.name = n}

\* get: an expired entry is a miss, and stays.
Fresh(c, n, now) == {e \in Find(c, n) : now - e.at <= e.ttl}

\* Mutant: the window has no end.
StaleForever(c, n, now, maxStale) ==
    {e \in Find(c, n) : IsPositive(e.result) /\ now - e.at > e.ttl}

\* get_stale: a positive entry that expired no more than maxStale ago.
Stale(c, n, now, maxStale) ==
    {e \in Find(c, n) : /\ IsPositive(e.result)
                        /\ now - e.at > e.ttl
                        /\ now - e.at <= e.ttl + maxStale}

\* The slot of a name, and what is left without the entry in it.
InSlot(c, n) == {i \in DOMAIN c : Slot[c[i].name] = Slot[n]}
Elsewhere(c, n) == IF InSlot(c, n) = {} THEN c ELSE RemoveAt(c, CHOOSE i \in InSlot(c, n) : TRUE)

\* Both probes make the entry in the slot the most recently used one, whether or
\* not they return it.
Touch(c, n) == IF InSlot(c, n) = {} THEN c
               ELSE <<c[CHOOSE i \in InSlot(c, n) : TRUE]>> \o Elsewhere(c, n)

\* Mutant: the entry in the slot is not replaced.
InsertBeside(c, n, result, ttl, now, lost) ==
    IF ttl = 0 THEN c
    ELSE LET entry == [name |-> n, result |-> result, at |-> now,
                       ttl |-> IF ttl > MaxTtl THEN MaxTtl ELSE ttl, lost |-> lost]
             all == <<entry>> \o c
         IN SubSeq(all, 1, IF Len(all) > Capacity THEN Capacity ELSE Len(all))

\* insert: a TTL of 0 is not cached. The slot's entry is replaced, or the least
\* recently used one evicted when the cache is full. lost is history: the names
\* whose queries failed the lookup that inserts.
Insert(c, n, result, ttl, now, lost) ==
    IF ttl = 0 THEN c
    ELSE LET entry == [name |-> n, result |-> result, at |-> now,
                       ttl |-> IF ttl > MaxTtl THEN MaxTtl ELSE ttl, lost |-> lost]
             all == <<entry>> \o Elsewhere(c, n)
         IN SubSeq(all, 1, IF Len(all) > Capacity THEN Capacity ELSE Len(all))

=============================================================================
