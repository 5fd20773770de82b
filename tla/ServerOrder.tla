---------------------------- MODULE ServerOrder ----------------------------
(***************************************************************************)
(* Which nameservers a resolver runs on, and in which order: the lists of  *)
(* the public resolvers, and ResolverState::build, which joins what the    *)
(* system, the caller and the fallback add into one list of two tiers.     *)
(***************************************************************************)
EXTENDS Integers, Sequences, FiniteSets, Functions

\* A nameserver. Name is the TLS server name, or Unnamed.
Server(addr, protocol, name) == [addr |-> addr, protocol |-> protocol, name |-> name]
Unnamed == "unnamed"

FallbackMode == {"eager", "if_system_empty", "deferred"}

\* The members of a finite set, those of smaller keys first.
InOrder(S, key) ==
    [k \in 1..Cardinality(S) |->
        CHOOSE s \in S : Cardinality({t \in S : key[t] < key[s]}) = k - 1]

\* interleave_nameservers: each round takes one of every list that has one left, so
\* that the j-th entry of a list is taken in round j.
InterleaveNameservers(lists) ==
    LET slots == UNION {{i} \X DOMAIN lists[i] : i \in DOMAIN lists}
        order == InOrder(slots, [slot \in slots |-> slot[2] * Len(lists) + slot[1]])
    IN [k \in DOMAIN order |-> lists[order[k][1]][order[k][2]]]

\* Provider::nameservers: IPv4 and IPv6 primary, then the secondaries.
ProviderServers(p, protocol) ==
    [i \in 1..4 |-> Server(<<p, <<"v4", "v6", "v4b", "v6b">>[i]>>, protocol, Unnamed)]

\* Mutant: DNS over HTTPS comes behind plain DNS.
DefaultOrderAppended(providers) ==
    InterleaveNameservers([i \in DOMAIN providers |-> ProviderServers(providers[i], "udp")])
    \o [i \in DOMAIN providers |-> ProviderServers(providers[i], "https")[1]]

\* default_order: one DNS-over-HTTPS entry of each provider, behind the first two
\* of plain DNS.
DefaultOrder(providers) ==
    LET udp == InterleaveNameservers([i \in DOMAIN providers |-> ProviderServers(providers[i], "udp")])
        doh == [i \in DOMAIN providers |-> ProviderServers(providers[i], "https")[1]]
        at == IF Len(udp) < 2 THEN Len(udp) ELSE 2
    IN SubSeq(udp, 1, at) \o doh \o SubSeq(udp, at + 1, Len(udp))

\* Mutant: the caller's nameservers count as the system's.
AssembledExtendedFirst(system, explicit, fallback, mode) ==
    LET primary == system \o explicit
        added == IF mode = "if_system_empty" /\ primary # <<>> THEN <<>> ELSE fallback
    IN [servers |-> primary \o added,
        primaryCount |-> Len(primary) + IF mode = "deferred" THEN 0 ELSE Len(added)]

\* Mutant: the fallback counts as primary whether it is added or not.
AssembledMiscounted(system, explicit, fallback, mode) ==
    LET primary == system \o explicit
        added == IF mode = "if_system_empty" /\ system # <<>> THEN <<>> ELSE fallback
    IN [servers |-> primary \o added,
        primaryCount |-> Len(primary) + IF mode = "deferred" THEN 0 ELSE Len(fallback)]

\* ResolverState::build, from the nameservers of each source.
Assembled(system, explicit, fallback, mode) ==
    LET primary == system \o explicit
        added == IF mode = "if_system_empty" /\ system # <<>> THEN <<>> ELSE fallback
    IN [servers |-> primary \o added,
        primaryCount |-> Len(primary) + IF mode = "deferred" THEN 0 ELSE Len(added)]

=============================================================================
