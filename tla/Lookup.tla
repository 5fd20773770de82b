------------------------------- MODULE Lookup -------------------------------
(***************************************************************************)
(* The generic lookup path, lookup_record_impl, run by several tasks that  *)
(* share one cache while the records they ask for change. A lookup probes  *)
(* the cache under the host it was given, then asks for each candidate of  *)
(* the search list in turn, caches what it learns and, when every          *)
(* candidate failed, may serve an expired answer.                          *)
(*                                                                         *)
(* send_query_following_cnames is two steps: a nameserver reads its zone   *)
(* (or the query fails), and the lookup takes the reply, the two within    *)
(* Flight of its start. Time is discrete; MaxTime bounds it.               *)
(***************************************************************************)
EXTENDS DnsCache

CONSTANTS Task,       \* concurrent callers, of one resolver or of its resets
          Host,       \* the hosts callers ask for
          Candidates, \* search_names: what each host expands to
          Key,        \* normalize: the name each host is cached under
          Version,    \* record sets a name may have
          Ttls,       \* TTLs of positive answers
          SoaTtls,    \* negative TTLs derived from the SOA of a NODATA response, or NoSoa
          MinTtl,     \* Builder::cache_min_ttl, or 0
          NegMax,     \* Builder::negative_max_ttl capped by NEGATIVE_TTL_MAX_SECS, or 0
          NegTtl,     \* NEGATIVE_TTL_SECS
          MaxStale,   \* Builder::serve_stale, or NoStale
          Flight,     \* bound on the time one candidate's query takes
          MaxChanges, \* bound on changes of the zone
          MaxTime     \* bound on time

NoSoa == -1
NoStale == -1

ASSUME LookupAssumption ==
    /\ Candidates \in [Host -> Seq(Name) \ {<<>>}]
    /\ Key \in [Host -> Name]
    \* A host is always one of its own candidates, the bare name.
    /\ \A h \in Host : Key[h] \in Range(Candidates[h])
    /\ Version \cap {"nodata", "nxdomain", "none", "transient", "fatal"} = {}
    /\ {MinTtl, NegMax, NegTtl, Flight, MaxChanges, MaxTime} \subseteq Nat
    /\ Ttls \subseteq Nat
    /\ SoaTtls \subseteq Nat \cup {NoSoa}
    /\ MaxStale \in Nat \cup {NoStale}

VARIABLES cache,   \* DnsCache
          task,    \* each task's lookup
          now,     \* the clock
          zone,    \* what the nameservers hold for each name
          changes, \* how often it has changed
          lastHeld \* history: when each name was last seen to lose each state

vars == <<cache, task, now, zone, changes, lastHeld>>

Absent == {"nodata", "nxdomain"}
Never == -1

\* A lookup's local variables. at is when it asked for the candidate, or ended;
\* lost is the history of candidates whose queries failed it, or failed the lookup
\* that cached its answer.
Idle == [pc |-> "idle"]

Asking(h) == [pc |-> "asking", host |-> h, i |-> 1, reply |-> "none", ttl |-> 0, at |-> now,
              firstNegative |-> "none", negativeTtl |-> 0, lost |-> {}]

\* What a lookup returns: a CachedResult or an error, and where it came from.
Done(h, result, from, lost) == [pc |-> "done", host |-> h, result |-> result, from |-> from,
                                at |-> now, lost |-> lost]

Failed == [kind |-> "error"]

Init == /\ cache = <<>>
        /\ task = [p \in Task |-> Idle]
        /\ now = 0
        /\ zone \in [Name -> Absent \cup Version]
        /\ changes = 0
        /\ lastHeld = [n \in Name |-> [z \in Absent \cup Version |-> Never]]

-----------------------------------------------------------------------------
(* The nameservers and the clock. *)

ZoneChanges(n) ==
    /\ changes < MaxChanges
    /\ \E z \in (Absent \cup Version) \ {zone[n]} : zone' = [zone EXCEPT ![n] = z]
    /\ changes' = changes + 1
    /\ lastHeld' = [lastHeld EXCEPT ![n][zone[n]] = now]
    /\ UNCHANGED <<cache, task, now>>

\* A query takes at most Flight: every attempt has its timeout.
Tick == /\ now < MaxTime
        /\ \A p \in Task : task[p].pc \in {"asking", "replied"} => now - task[p].at < Flight
        /\ now' = now + 1
        /\ UNCHANGED <<cache, task, zone, changes, lastHeld>>

-----------------------------------------------------------------------------
(* The lookup. *)

\* The cache is probed under the host's key; a miss asks the first candidate.
Begin(p, h) ==
    /\ task[p].pc \in {"idle", "done"}
    /\ cache' = Touch(cache, Key[h])
    /\ task' = [task EXCEPT ![p] =
           IF Fresh(cache, Key[h], now) = {} THEN Asking(h)
           ELSE LET e == CHOOSE e \in Fresh(cache, Key[h], now) : TRUE
                IN Done(h, e.result, "cache", e.lost)]
    /\ UNCHANGED <<now, zone, changes, lastHeld>>

Current(t) == Candidates[t.host][t.i]

\* The TTL that comes with what a zone holds. Only a NODATA response is read for its
\* SOA: an NXDOMAIN reaches the lookup as an error.
TtlsOf(z) == IF z = "nodata" THEN SoaTtls ELSE IF z = "nxdomain" THEN {NoSoa} ELSE Ttls

\* A nameserver answers from its zone.
Serve(p) ==
    /\ task[p].pc = "asking"
    /\ LET z == zone[Current(task[p])]
       IN \E ttl \in TtlsOf(z) :
             task' = [task EXCEPT ![p] = [@ EXCEPT !.pc = "replied", !.reply = z, !.ttl = ttl]]
    /\ UNCHANGED <<cache, now, zone, changes, lastHeld>>

\* Every nameserver failed for this candidate, or for any ("fatal").
Fail(p) ==
    /\ task[p].pc = "asking"
    /\ \E e \in {"transient", "fatal"} :
          task' = [task EXCEPT ![p] = [@ EXCEPT !.pc = "replied", !.reply = e]]
    /\ UNCHANGED <<cache, now, zone, changes, lastHeld>>

\* negative_cache_ttl_secs
NegativeTtl(soa) == LET ttl == IF soa = NoSoa THEN NegTtl ELSE soa
                    IN IF ttl > NegMax THEN NegMax ELSE ttl

\* A positive reply is cached under its candidate and returned.
TakePositive(p) ==
    LET t == task[p]
        answer == Positive(Current(t), t.reply)
    IN /\ t.pc = "replied"
       /\ t.reply \in Version
       /\ cache' = Insert(cache, Current(t), answer, IF t.ttl > MinTtl THEN t.ttl ELSE MinTtl,
                          now, t.lost)
       /\ task' = [task EXCEPT ![p] = Done(t.host, answer, "server", t.lost)]
       /\ UNCHANGED <<now, zone, changes, lastHeld>>

\* A fatal error ends the lookup at once.
TakeFatal(p) ==
    /\ task[p].pc = "replied"
    /\ task[p].reply = "fatal"
    /\ task' = [task EXCEPT ![p] = Done(@.host, Failed, "server", @.lost)]
    /\ UNCHANGED <<cache, now, zone, changes, lastHeld>>

\* Mutant: the last absence is kept.
NotedLast(t) ==
    [t EXCEPT !.firstNegative = IF t.reply \in Absent THEN t.reply ELSE @,
              !.negativeTtl = IF t.reply \in Absent THEN NegativeTtl(t.ttl) ELSE @,
              !.lost = IF t.reply = "transient" THEN @ \cup {Current(t)} ELSE @]

\* The first absence in search order is kept, an indeterminate failure counted.
Noted(t) ==
    LET first == t.reply \in Absent /\ t.firstNegative = "none"
    IN [t EXCEPT !.firstNegative = IF first THEN t.reply ELSE @,
                 !.negativeTtl = IF first THEN NegativeTtl(t.ttl) ELSE @,
                 !.lost = IF t.reply = "transient" THEN @ \cup {Current(t)} ELSE @]

Inconclusive(t) == t.pc = "replied" /\ t.reply \in Absent \cup {"transient"}

TakeNext(p) ==
    LET t == Noted(task[p])
    IN /\ Inconclusive(task[p])
       /\ t.i < Len(Candidates[t.host])
       /\ task' = [task EXCEPT ![p] = [t EXCEPT !.pc = "asking", !.i = @ + 1,
                                                !.reply = "none", !.ttl = 0, !.at = now]]
       /\ UNCHANGED <<cache, now, zone, changes, lastHeld>>

\* Mutant: an absence is cached though a candidate failed.
TakeLastAbsentPinned(p) ==
    LET t == Noted(task[p])
        absence == IF t.firstNegative = "nodata" THEN NoData ELSE NxDomain
    IN /\ Inconclusive(task[p])
       /\ t.i = Len(Candidates[t.host])
       /\ t.firstNegative # "none"
       /\ cache' = Insert(cache, Key[t.host], absence, t.negativeTtl, now, t.lost)
       /\ task' = [task EXCEPT ![p] = Done(t.host, absence, "server", t.lost)]
       /\ UNCHANGED <<now, zone, changes, lastHeld>>

\* The last candidate: an absence is cached, unless a candidate failed, under the
\* host's own key, and returned.
TakeLastAbsent(p) ==
    LET t == Noted(task[p])
        absence == IF t.firstNegative = "nodata" THEN NoData ELSE NxDomain
    IN /\ Inconclusive(task[p])
       /\ t.i = Len(Candidates[t.host])
       /\ t.firstNegative # "none"
       /\ cache' = IF t.lost = {}
                   THEN Insert(cache, Key[t.host], absence, t.negativeTtl, now, t.lost)
                   ELSE cache
       /\ task' = [task EXCEPT ![p] = Done(t.host, absence, "server", t.lost)]
       /\ UNCHANGED <<now, zone, changes, lastHeld>>

\* Mutant: without a stale answer the lookup does not end.
TakeLastFailedHangs(p) ==
    LET t == Noted(task[p])
        stale == IF MaxStale = NoStale THEN {} ELSE Stale(cache, Key[t.host], now, MaxStale)
    IN /\ Inconclusive(task[p])
       /\ t.i = Len(Candidates[t.host])
       /\ t.firstNegative = "none"
       /\ stale # {}
       /\ cache' = Touch(cache, Key[t.host])
       /\ task' = [task EXCEPT ![p] =
              Done(t.host, (CHOOSE e \in stale : TRUE).result, "stale", t.lost)]
       /\ UNCHANGED <<now, zone, changes, lastHeld>>

\* Every candidate failed: an expired answer for the host is served if allowed.
TakeLastFailed(p) ==
    LET t == Noted(task[p])
        stale == IF MaxStale = NoStale THEN {} ELSE Stale(cache, Key[t.host], now, MaxStale)
    IN /\ Inconclusive(task[p])
       /\ t.i = Len(Candidates[t.host])
       /\ t.firstNegative = "none"
       /\ cache' = IF MaxStale = NoStale THEN cache ELSE Touch(cache, Key[t.host])
       /\ task' = [task EXCEPT ![p] =
              IF stale = {} THEN Done(t.host, Failed, "server", t.lost)
              ELSE Done(t.host, (CHOOSE e \in stale : TRUE).result, "stale", t.lost)]
       /\ UNCHANGED <<now, zone, changes, lastHeld>>

\* The caller drops its lookup.
Cancel(p) == /\ task[p].pc \in {"asking", "replied"}
             /\ task' = [task EXCEPT ![p] = Idle]
             /\ UNCHANGED <<cache, now, zone, changes, lastHeld>>

ClearCache == /\ cache # <<>>
              /\ cache' = <<>>
              /\ UNCHANGED <<task, now, zone, changes, lastHeld>>

Take(p) == \/ TakePositive(p) \/ TakeFatal(p) \/ TakeNext(p)
           \/ TakeLastAbsent(p) \/ TakeLastFailed(p)

Next == \/ \E p \in Task : \/ \E h \in Host : Begin(p, h)
                           \/ Serve(p) \/ Fail(p) \/ Take(p) \/ Cancel(p)
        \/ \E n \in Name : ZoneChanges(n)
        \/ Tick
        \/ ClearCache

Spec == Init /\ [][Next]_vars

\* Every query ends, by its timeouts, and its task is polled again.
Fairness == \A p \in Task : WF_vars(Serve(p) \/ Fail(p)) /\ WF_vars(Take(p))

FairSpec == Spec /\ Fairness

-----------------------------------------------------------------------------
(* Properties. *)

Entry == [name : Name,
          result : {NoData, NxDomain} \cup {Positive(n, v) : n \in Name, v \in Version},
          at : 0..MaxTime,
          ttl : 1..MaxTtl,
          lost : SUBSET Name]

\* Every value has its type: in particular the cache holds at most Capacity
\* entries, one per slot, none for longer than MaxTtl, and an entry with records
\* holds those of the name it is filed under.
TypeOK ==
    /\ Range(cache) \subseteq Entry
    /\ Len(cache) <= Capacity
    /\ \A i, j \in DOMAIN cache : Slot[cache[i].name] = Slot[cache[j].name] => i = j
    /\ \A e \in Range(cache) : IsPositive(e.result) => e.result.name = e.name
    /\ \A p \in Task : task[p].pc \in {"idle", "asking", "replied", "done"}
    /\ now \in 0..MaxTime
    /\ zone \in [Name -> Absent \cup Version]
    /\ lastHeld \in [Name -> [Absent \cup Version -> Never..MaxTime]]

Ended(p) == task[p].pc = "done"
Answered(p) == Ended(p) /\ IsPositive(task[p].result)
Denied(p) == Ended(p) /\ task[p].result \in {NoData, NxDomain}

\* A name was in a state of S no longer ago than time t.
HeldSince(n, S, t) == zone[n] \in S \/ \E z \in S : lastHeld[n][z] >= t

\* Records that a lookup returns were their name's no longer ago than the TTL cap,
\* one query and, when they are served stale, the stale window: neither a slow
\* query that overwrites a newer entry nor a long TTL or outage keeps them longer.
BoundedStaleness ==
    \A p \in Task : Answered(p) =>
        LET window == IF task[p].from = "stale" THEN MaxStale ELSE 0
        IN HeldSince(task[p].result.name, {task[p].result.version},
                     task[p].at - (MaxTtl + Flight + window))

\* The hosts whose search order an answer may come from: the one looked up, or, from
\* the cache, one that has its name as a candidate, such as another spelling of it.
Askers(t) == {g \in Host : \/ g = t.host
                           \/ t.from = "cache" /\ Key[t.host] \in Range(Candidates[g])}

\* An absence is no staler: each candidate of the host, or of the spelling of it that
\* the absence was learnt for, was absent within the negative TTL cap and the queries
\* of one lookup, unless this very lookup asked and could not learn of it. So a
\* failed query never pins a live name as absent.
BoundedAbsence ==
    \A p \in Task : Denied(p) =>
        \E g \in Askers(task[p]) :
            LET t == task[p]
                names == Candidates[g]
                unlearnt == IF t.from = "server" THEN t.lost ELSE {}
            IN /\ Key[g] = Key[t.host]
               /\ \A n \in Range(names) \ unlearnt :
                     HeldSince(n, Absent, t.at - (NegMax + Len(names) * Flight))

\* What the search order of host g says, if no record changes, to a lookup that
\* ended as t: the records of the first candidate that has some, else the first
\* absence, where a candidate is passed over only if its query failed, in this lookup
\* or in the one that cached the answer. A candidate listed twice may fail once.
Follows(t, g) ==
    LET names == Candidates[g]
        known == {i \in DOMAIN names : names[i] \notin t.lost}
        twice == {i \in DOMAIN names : \E j \in DOMAIN names : j # i /\ names[j] = names[i]}
        holding == {i \in DOMAIN names : zone[names[i]] \in Version}
    IN /\ IsPositive(t.result) =>
              \E i \in holding : /\ t.result = Positive(names[i], zone[names[i]])
                                 /\ t.from # "server" => names[i] = Key[t.host]
                                 /\ t.from # "stale" => \A j \in holding \cap known : i <= j
       /\ t.result \in {NoData, NxDomain} =>
              /\ Key[g] = Key[t.host]
              /\ holding \cap known = {}
              /\ \E i \in known \cup twice : /\ t.result.kind = zone[names[i]]
                                            /\ \A j \in known : i <= j
       /\ t.from = "stale" => known = {}

\* While the zone does not change, a lookup returns what the search order says of
\* its candidates, and never the records of a name that merely hashes to the same
\* cache slot. From the cache it may be the order of another host that asked for the
\* same name, since an entry does not tell for whom it was made.
AnswerFollowsSearch ==
    \A p \in Task : Ended(p) /\ changes = 0 =>
        \E g \in Askers(task[p]) : Follows(task[p], g)

\* A lookup returns, whatever its queries meet.
LookupReturns == \A p \in Task : task[p].pc = "asking" ~> task[p].pc \in {"idle", "done"}

\* Builder::serve_stale says that when every nameserver fails, an answer that
\* expired no more than max_age ago is returned instead of an error.
StaleBeatsError ==
    \A p \in Task :
        Ended(p) /\ task[p].at = now /\ task[p].result = Failed
        /\ task[p].lost = Range(Candidates[task[p].host])
            => \A n \in Range(Candidates[task[p].host]) : Stale(cache, n, now, MaxStale) = {}

=============================================================================
