------------------------------- MODULE Cname -------------------------------
(***************************************************************************)
(* One candidate's query, send_query_following_cnames, and what            *)
(* parse_records then takes from the last response: a nameserver may hand  *)
(* out any part of an alias chain, its records in any order and beside     *)
(* others, and each response that leaves the chain open is followed by a   *)
(* query for its end. Records may change between two queries.              *)
(***************************************************************************)
EXTENDS Answers

CONSTANTS Host,       \* the name that is looked up
          Ttl,        \* the TTL of each name's records
          MaxChanges  \* bound on changes of the zone

\* Names that are no alias hold records of the type asked for, others, or nothing.
Rest == {"records", "nodata", "nxdomain"}

\* A zone has one entry for a name, however it is written.
ASSUME CnameAssumption ==
    /\ IsFiniteSet(Name) /\ Name \cap Rest = {}
    /\ \A m, n \in Name : NamesEqual(m, n) => m = n
    /\ Host \in Name
    /\ Ttl \in [Name -> 0..U32Max]
    /\ MaxChanges \in Nat

VARIABLES zone,     \* what each name holds: an alias's target, or a Rest
          changes,  \* how often it has changed
          current,  \* current_host
          queries,  \* passes of the loop that are over
          response, \* the response that is being looked at
          result,   \* of the query
          seen      \* history: everything each name has held

vars == <<zone, changes, current, queries, response, result, seen>>

None == [rcode |-> "none", answers |-> <<>>]
Pending == [kind |-> "pending"]
Positive(owners, ttl) == [kind |-> "positive", owners |-> owners, ttl |-> ttl]
NoData == [kind |-> "nodata"]
NxDomain == [kind |-> "nxdomain"]
InvalidResponse == [kind |-> "invalid"]
Failed == [kind |-> "error"]

\* An answer record: an alias, or one of the type asked for.
Record(n, class, type, data) ==
    [name |-> n, class |-> class, type |-> type, data |-> data, ttl |-> Ttl[n]]
Alias(n, class, target) == Record(n, class, "CNAME", target)
Held(n, class) == Record(n, class, "wanted", n)

\* parse_records: the wanted records and their TTL.
Parsed(answers, start) ==
    LET owners == {answers[i].name : i \in WantedAt(answers, start, "wanted")}
    IN IF owners = {} THEN NoData ELSE Positive(owners, LeastTtl(answers, start, "wanted"))

-----------------------------------------------------------------------------
(* The nameservers. *)

IsAlias(n) == zone[n] \in Name

\* Where following aliases from n for i hops ends.
After(n, i) == LET walk[k \in 0..i] == IF k = 0 THEN n
                                       ELSE IF zone[walk[k - 1]] \in Name THEN zone[walk[k - 1]]
                                       ELSE walk[k - 1]
               IN walk[i]

\* The first k aliases from n, each once.
Aliases(n, k) == [i \in 1..k |-> Alias(After(n, i - 1), "IN", After(n, i))]

CanGive(n, k) == /\ \A i \in 0..(k - 1) : IsAlias(After(n, i))
                 /\ \A i, j \in 0..(k - 1) : After(n, i) = After(n, j) => i = j

\* What an answer may hold beside the chain: the records of another name, or of
\* another class.
Strays(n) == {<<>>} \cup {<<Held(m, "IN")>> : m \in {m \in Name : zone[m] = "records"}}
                    \cup {<<Held(n, "CH")>>} \cup {<<Alias(n, "CH", m)>> : m \in Name}

\* A nameserver gives some of the chain, at least one hop of an alias, with or
\* without what its end holds.
Serve ==
    /\ result = Pending
    /\ response = None
    /\ \E k \in 0..Cardinality(Name), whole \in BOOLEAN, stray \in Strays(current) :
          LET end == After(current, k)
              held == IF whole /\ zone[end] = "records" THEN <<Held(end, "IN")>>
                      ELSE <<>>
              along == stray \o Aliases(current, k) \o held
          IN /\ CanGive(current, k)
             /\ k = 0 => ~IsAlias(current) /\ whole
             /\ whole => ~IsAlias(end)
             /\ \E answers \in {along, Reverse(along)} :
                   response' = [rcode |-> IF whole /\ zone[end] = "nxdomain" THEN "nxdomain"
                                          ELSE "noerror",
                                answers |-> answers]
    /\ UNCHANGED <<zone, changes, current, queries, result, seen>>

\* A name's records change.
ZoneChanges(n) ==
    /\ changes < MaxChanges
    /\ result = Pending
    /\ \E held \in (Name \cup Rest) \ {zone[n]} :
          /\ zone' = [zone EXCEPT ![n] = held]
          /\ seen' = [seen EXCEPT ![n] = @ \cup {held}]
    /\ changes' = changes + 1
    /\ UNCHANGED <<current, queries, response, result>>

-----------------------------------------------------------------------------
(* The query. *)

Init == /\ zone \in [Name -> Name \cup Rest]
        /\ changes = 0
        /\ current = Host
        /\ queries = 0
        /\ response = None
        /\ result = Pending
        /\ seen = [n \in Name |-> {zone[n]}]

\* Every nameserver failed, or the response is not one to the question.
Fails == /\ result = Pending
         /\ response = None
         /\ result' = Failed
         /\ UNCHANGED <<zone, changes, current, queries, response, seen>>

\* check_response reports NXDOMAIN, whatever the answer section holds.
TakeNxDomain ==
    /\ result = Pending
    /\ response.rcode = "nxdomain"
    /\ result' = NxDomain
    /\ UNCHANGED <<zone, changes, current, queries, response, seen>>

\* The response holds the answer, or no alias to follow.
TakeAnswer ==
    /\ result = Pending
    /\ response.rcode = "noerror"
    /\ Unresolved(response.answers, current, "wanted") = {}
    /\ result' = Parsed(response.answers, current)
    /\ UNCHANGED <<zone, changes, current, queries, response, seen>>

\* Mutant: the loop has no bound.
FollowForever ==
    /\ result = Pending
    /\ response.rcode = "noerror"
    /\ \E target \in Unresolved(response.answers, current, "wanted") :
          /\ current' = target
          /\ response' = None
          /\ UNCHANGED <<zone, changes, queries, result, seen>>

\* Mutant: one query too many.
FollowOnceMore ==
    /\ result = Pending
    /\ response.rcode = "noerror"
    /\ \E target \in Unresolved(response.answers, current, "wanted") :
          /\ current' = target
          /\ queries' = queries + 1
          /\ IF queries = Depth THEN result' = InvalidResponse /\ UNCHANGED response
                                ELSE response' = None /\ UNCHANGED result
    /\ UNCHANGED <<zone, changes, seen>>

\* The end of the chain is asked for next, unless the loop is over.
Follow ==
    /\ result = Pending
    /\ response.rcode = "noerror"
    /\ \E target \in Unresolved(response.answers, current, "wanted") :
          /\ current' = target
          /\ queries' = queries + 1
          /\ IF queries + 1 = Depth THEN result' = InvalidResponse /\ UNCHANGED response
                                    ELSE response' = None /\ UNCHANGED result
    /\ UNCHANGED <<zone, changes, seen>>

Step == Serve \/ Fails \/ TakeNxDomain \/ TakeAnswer \/ Follow

Next == Step \/ \E n \in Name : ZoneChanges(n)

Spec == Init /\ [][Next]_vars

\* Every query of a nameserver ends, and its task is polled again.
FairSpec == Spec /\ WF_vars(Step)

-----------------------------------------------------------------------------
(* Properties. *)

TypeOK ==
    /\ zone \in [Name -> Name \cup Rest]
    /\ current \in Name
    /\ queries \in 0..Depth
    /\ response.rcode \in {"none", "noerror", "nxdomain"}
    /\ \A rr \in Range(response.answers) :
          rr \in [name : Name, class : {"IN", "CH"}, type : {"CNAME", "wanted"}, data : Name,
                  ttl : 0..U32Max]
    /\ result \in {Pending, NoData, NxDomain, InvalidResponse, Failed}
                  \cup {Positive(owners, ttl) : owners \in (SUBSET Name) \ {{}}, ttl \in 0..U32Max}

\* The names that aliases have ever led to from n.
EverReached(n) ==
    {m \in Name : \A names \in SUBSET Name :
                       n \in names /\ (\A a \in names : seen[a] \cap Name \subseteq names) => m \in names}

\* The records a lookup returns are of names its host is or was an alias of, which
\* held them, even if the aliases change under the query: nothing else that
\* a response carries, under another name or of another class, becomes an answer.
AnswersOnChain ==
    result.kind = "positive" =>
        \A n \in result.owners : n \in EverReached(Host) /\ "records" \in seen[n]

\* The number of aliases from a name to its end, or nothing in a loop.
Hops(n) == {i \in 0..Cardinality(Name) : /\ ~IsAlias(After(n, i))
                                         /\ \A j \in 0..(i - 1) : IsAlias(After(n, j))}

\* While the zone does not change, however nameservers cut the chain up and order
\* it: a host with fewer than Depth aliases to its end gets what the end holds,
\* only one with Depth or more, or in a loop, an InvalidResponse, and a loop never
\* gets records or an NXDOMAIN.
FindsTheEnd ==
    changes = 0 /\ result \notin {Pending, Failed} =>
        /\ \A hops \in Hops(Host) :
              LET end == After(Host, hops)
              IN \/ result = InvalidResponse /\ hops >= Depth
                 \/ result.kind = "positive" /\ zone[end] = "records" /\ result.owners = {end}
                 \/ result.kind = zone[end]
        /\ Hops(Host) = {} => result \in {NoData, InvalidResponse}

\* An answer from a single response is cached for no longer than any alias between
\* the host and its owner allows. One put together over several queries may be.
AliasesBoundTtl ==
    changes = 0 /\ queries = 0 /\ result.kind = "positive" =>
        \A i \in 0..Cardinality(Name) : result.ttl <= Ttl[After(Host, i)]

\* A query ends, loops of aliases notwithstanding.
QueryEnds == <>(result # Pending)
=============================================================================
