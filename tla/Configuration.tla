--------------------------- MODULE Configuration ---------------------------
(***************************************************************************)
(* How a resolver comes by its configuration and what it does with it. A   *)
(* Builder's calls are collected; the resolver reads the system's          *)
(* configuration on its first use and then keeps what it read; reset makes *)
(* a new one that reads again. On that configuration stand the search      *)
(* list, the hosts file and the client for DNS over HTTPS, which pins each *)
(* TLS server name to an address.                                          *)
(***************************************************************************)
EXTENDS ServerOrder

CONSTANTS Network,      \* what read_system may find: its servers, search list,
                        \* ndots and hosts file
          NoConfig,     \* Config::default()
          Explicit,     \* lists given to Builder::nameservers
          Interleaved,  \* lists given to interleave_nameservers
          Providers,    \* lists given to default_order
          Host,         \* names that are looked up
          Labels,       \* the number of labels of each
          Dotted,       \* those with a trailing dot
          Bare,         \* each without it, the hosts file's key form
          Localhost,    \* those that is_localhost recognizes
          Unusable,     \* expansions that are no valid name
          DefaultNdots, \* DEFAULT_NDOTS
          Wave,         \* MAX_CONCURRENT_QUERIES
          MaxCalls,     \* bound on calls of Builder methods that add nameservers
          MaxResolvers, \* bound on resolvers: one built, the rest from reset
          MaxChanges    \* bound on changes of the network

IsList(s) == s \in Seq(Range(s))

ASSUME ConfigurationAssumption ==
    /\ NoConfig.servers = <<>> /\ NoConfig.search = <<>> /\ NoConfig.hosts = {}
    /\ \A net \in Network : IsList(net.servers) /\ IsList(net.search)
    /\ \A list \in Explicit : IsList(list)
    /\ \A lists \in Interleaved : IsList(lists) /\ \A list \in Range(lists) : IsList(list)
    /\ \A providers \in Providers : IsList(providers)
    /\ Labels \in [Host -> Nat \ {0}]
    /\ Dotted \subseteq Host
    /\ Localhost \subseteq Host
    /\ \A h \in Host : Bare[h] = h <=> h \notin Dotted
    /\ {DefaultNdots, Wave, MaxCalls, MaxResolvers, MaxChanges} \subseteq Nat
    /\ Wave > 2

VARIABLES builder,  \* Builder
          resolver, \* the resolvers there are, oldest first
          network,  \* the system's configuration as it is now
          changes,  \* how often it has changed
          event,    \* what a resolver did last
          since,    \* history: the networks there were since each resolver was made
          chosen    \* history: the providers, if the fallback is default_order's

vars == <<builder, resolver, network, changes, event, since, chosen>>

Unbuilt == [built |-> FALSE]
NoClient == [made |-> FALSE]
NoEvent == [kind |-> "none"]
Fresh == [state |-> Unbuilt, client |-> NoClient]

Init == /\ builder = [system |-> FALSE, explicit |-> <<>>, fallback |-> <<>>,
                      mode |-> "deferred", calls |-> 0]
        /\ resolver = <<>>
        /\ network \in Network
        /\ changes = 0
        /\ event = NoEvent
        /\ since = <<>>
        /\ chosen = <<>>

-----------------------------------------------------------------------------
(* The builder. *)

Building == resolver = <<>> /\ builder.calls < MaxCalls

UseSystemConfig ==
    /\ resolver = <<>>
    /\ ~builder.system
    /\ builder' = [builder EXCEPT !.system = TRUE]
    /\ UNCHANGED <<resolver, network, changes, event, since, chosen>>

SetMode(mode) ==
    /\ resolver = <<>>
    /\ builder.mode # mode
    /\ builder' = [builder EXCEPT !.mode = mode]
    /\ UNCHANGED <<resolver, network, changes, event, since, chosen>>

AddExplicit(list) ==
    /\ Building
    /\ builder' = [builder EXCEPT !.explicit = @ \o list, !.calls = @ + 1]
    /\ UNCHANGED <<resolver, network, changes, event, since, chosen>>

\* fallback_nameservers with the merge of several lists.
AddInterleaved(lists) ==
    /\ Building
    /\ builder' = [builder EXCEPT !.fallback = @ \o InterleaveNameservers(lists), !.calls = @ + 1]
    /\ chosen' = <<>>
    /\ UNCHANGED <<resolver, network, changes, event, since>>

\* default_fallback_nameservers, or the same with a selection of providers.
AddDefaultOrder(providers) ==
    /\ Building
    /\ builder' = [builder EXCEPT !.fallback = @ \o DefaultOrder(providers), !.calls = @ + 1]
    /\ chosen' = IF builder.fallback = <<>> THEN providers ELSE <<>>
    /\ UNCHANGED <<resolver, network, changes, event, since>>

Build ==
    /\ resolver = <<>>
    /\ MaxResolvers > 0
    /\ resolver' = <<Fresh>>
    /\ since' = <<{network}>>
    /\ UNCHANGED <<builder, network, changes, event, chosen>>

-----------------------------------------------------------------------------
(* What a resolver derives from its state. *)

Unset == -1
\* Where a name without a pin leads, as reqwest resolves it.
Resolved == <<"resolved", "v4">>

\* search_names: the bare name and its expansions, each once; a name with ndots
\* dots or more is tried as it is first.
Candidates(config, h) ==
    LET search == config.search
        fresh == {i \in DOMAIN search : /\ <<h, search[i]>> \notin Unusable
                                        /\ \A j \in 1..(i - 1) : search[j] # search[i]}
        order == InOrder(fresh, [i \in fresh |-> i])
        expanded == [k \in DOMAIN order |-> <<h, search[order[k]]>>]
        ndots == IF config.ndots = Unset THEN DefaultNdots ELSE config.ndots
    IN IF h \in Dotted \/ search = <<>> THEN << <<h, "">> >>
       ELSE IF Labels[h] > ndots THEN << <<h, "">> >> \o expanded
       ELSE expanded \o << <<h, "">> >>

\* Hosts::lookup_ipv4 and lookup_ipv6: the addresses of one family.
Mapped(config, name, family) ==
    {entry.addr : entry \in {e \in config.hosts : /\ e.name = <<Bare[name[1]], name[2]>>
                                                  /\ e.family = family}}

\* Mutant: the hosts file is asked for the name as given alone.
OverrideBare(config, h, family) == Mapped(config, <<h, "">>, family)

\* The addresses of the first candidate that the hosts file has some for.
Override(config, h, family) ==
    LET names == Candidates(config, h)
        mapped == {i \in DOMAIN names : Mapped(config, names[i], family) # {}}
    IN IF mapped = {} THEN {}
       ELSE Mapped(config, names[CHOOSE i \in mapped : \A j \in mapped : i <= j], family)

\* ResolverState::build.
Built == LET config == IF builder.system THEN network ELSE NoConfig
             tiers == Assembled(config.servers, builder.explicit, builder.fallback, builder.mode)
         IN [built |-> TRUE, config |-> config,
             servers |-> tiers.servers, primaryCount |-> tiers.primaryCount]

\* state: built on the first use, and kept.
StateOf(r) == IF resolver[r].state.built THEN resolver[r].state ELSE Built

\* Mutant: only the caller's own nameservers are pinned.
PinsExplicit(servers) ==
    LET own == builder.explicit
        named == {i \in DOMAIN own : own[i].protocol = "https" /\ own[i].name # Unnamed}
    IN [n \in {own[i].name : i \in named} |->
           own[CHOOSE i \in named : /\ own[i].name = n
                                    /\ \A j \in named : own[j].name = n => j <= i].addr]

\* get_or_init_https_client: each TLS server name of a nameserver for DNS over HTTPS
\* with its address. A name has one pin, the last that is set.
Pins(servers) ==
    LET named == {i \in DOMAIN servers : servers[i].protocol = "https" /\ servers[i].name # Unnamed}
    IN [n \in {servers[i].name : i \in named} |->
           servers[CHOOSE i \in named : /\ servers[i].name = n
                                        /\ \A j \in named : servers[j].name = n => j <= i].addr]

-----------------------------------------------------------------------------
(* The resolvers. *)

NetworkChanges ==
    /\ resolver # <<>>
    /\ changes < MaxChanges
    /\ network' \in Network \ {network}
    /\ changes' = changes + 1
    /\ since' = [r \in DOMAIN since |-> since[r] \cup {network'}]
    /\ event' = NoEvent
    /\ UNCHANGED <<builder, resolver, chosen>>

\* reset: a new resolver from the same builder, which has read nothing yet.
Reset(r) ==
    /\ Len(resolver) < MaxResolvers
    /\ resolver' = Append(resolver, Fresh)
    /\ since' = Append(since, {network})
    /\ event' = NoEvent
    /\ UNCHANGED <<builder, network, changes, chosen>>

\* lookup_ipv4 or lookup_ipv6: loopback, which needs no state, the hosts file, or
\* the generic lookup.
LookupAddress(r, h, family) ==
    LET found == Override(StateOf(r).config, h, family)
        did(from, addrs) == [kind |-> "address", resolver |-> r, host |-> h,
                             family |-> family, from |-> from, addrs |-> addrs]
    IN /\ IF h \in Localhost
          THEN /\ event' = did("loopback", {})
               /\ UNCHANGED resolver
          ELSE /\ event' = IF found # {} THEN did("hosts", found) ELSE did("dns", {})
               /\ resolver' = [resolver EXCEPT ![r].state = StateOf(r)]
       /\ UNCHANGED <<builder, network, changes, since, chosen>>

\* A query over HTTPS, with the client that the first one made. A named nameserver
\* is connected to where its name is pinned, or else where it resolves to.
QueryHttps(r) ==
    LET state == StateOf(r)
        client == IF resolver[r].client.made THEN resolver[r].client
                  ELSE [made |-> TRUE, pins |-> Pins(state.servers)]
    IN /\ \E s \in {s \in Range(state.servers) : s.protocol = "https"} :
             event' = [kind |-> "dial", resolver |-> r, server |-> s,
                       addr |-> IF s.name = Unnamed THEN s.addr
                                ELSE IF s.name \in DOMAIN client.pins THEN client.pins[s.name]
                                ELSE Resolved]
       /\ resolver' = [resolver EXCEPT ![r] = [state |-> state, client |-> client]]
       /\ UNCHANGED <<builder, network, changes, since, chosen>>

Use(r) == \/ \E h \in Host, family \in {"v4", "v6"} : LookupAddress(r, h, family)
          \/ QueryHttps(r)

Next == \/ UseSystemConfig \/ Build
        \/ \E mode \in FallbackMode : SetMode(mode)
        \/ \E list \in Explicit : AddExplicit(list)
        \/ \E lists \in Interleaved : AddInterleaved(lists)
        \/ \E providers \in Providers : AddDefaultOrder(providers)
        \/ NetworkChanges
        \/ \E r \in DOMAIN resolver : Reset(r) \/ Use(r)

Spec == Init /\ [][Next]_vars

-----------------------------------------------------------------------------
(* Properties. *)

ServerSet ==
    LET given == Explicit \cup (UNION {Range(lists) : lists \in Interleaved})
    IN (UNION {Range(list) : list \in given})
       \cup (UNION {Range(DefaultOrder(providers)) : providers \in Providers})
       \cup (UNION {Range(net.servers) : net \in Network})

TypeOK ==
    /\ builder.system \in BOOLEAN
    /\ builder.mode \in FallbackMode
    /\ builder.calls \in 0..MaxCalls
    /\ Range(builder.explicit) \cup Range(builder.fallback) \subseteq ServerSet
    /\ Len(resolver) \in 0..MaxResolvers
    /\ DOMAIN since = DOMAIN resolver
    /\ \A r \in DOMAIN resolver :
          /\ resolver[r].state.built =>
                /\ Range(resolver[r].state.servers) \subseteq ServerSet
                /\ resolver[r].state.primaryCount \in 0..Len(resolver[r].state.servers)
          /\ resolver[r].client.made => resolver[r].state.built
    /\ network \in Network
    /\ event.kind \in {"none", "address", "dial"}

Using == {r \in DOMAIN resolver : resolver[r].state.built}

Primary(state) == Range(SubSeq(state.servers, 1, state.primaryCount))
Second(state) == Range(SubSeq(state.servers, state.primaryCount + 1, Len(state.servers)))

\* The tiers are what FallbackMode says of a configuration that the system had since
\* the resolver was made or reset, whatever the builder's calls and their order: a
\* fallback nameserver is never raced beside the primary ones when it is deferred; a
\* system that lists nameservers is never supplemented by if_system_empty and one
\* that does not always is, whatever else was added; and no mode ever leaves out a
\* nameserver of the system or the caller.
TiersFollowMode ==
    \A r \in Using :
        LET state == resolver[r].state
            own == Range(state.config.servers) \cup Range(builder.explicit)
            fallback == Range(builder.fallback)
        IN /\ builder.system => state.config \in since[r]
           /\ own \subseteq Primary(state)
           /\ builder.mode = "deferred" =>
                 /\ Primary(state) = own
                 /\ Second(state) = fallback
           /\ builder.mode # "deferred" =>
                 /\ Second(state) = {}
                 /\ Primary(state) = IF builder.mode = "if_system_empty"
                                        /\ state.config.servers # <<>>
                                     THEN own ELSE own \cup fallback

\* default_order keeps a network that drops plain DNS from stalling the fallback:
\* the first wave of attempts, as many as may be in flight, holds DNS over HTTPS,
\* behind two attempts of plain DNS that are of the first two providers selected.
HttpsInFirstWave ==
    \A r \in Using :
        builder.mode = "deferred" /\ chosen # <<>> =>
            LET state == resolver[r].state
                tier == SubSeq(state.servers, state.primaryCount + 1, Len(state.servers))
            IN /\ \E i \in 1..Wave : tier[i].protocol = "https"
               /\ tier[1].protocol = "udp" /\ tier[1].addr[1] = chosen[1]
               /\ tier[2].protocol = "udp"
               /\ Len(chosen) > 1 => tier[2].addr[1] = chosen[2]

\* The names a host stands for, in the hosts file's key form.
Names(config, h) ==
    {<<Bare[h], "">>}
    \cup IF h \in Dotted THEN {} ELSE {<<h, d>> : d \in Range(config.search)} \ Unusable

\* An address lookup goes to a nameserver only if it may: never for localhost,
\* and never if every hosts file there has been since the resolver was made maps the
\* name. What it takes from a hosts file is of one of the host's names.
OverridesPrecedeDns ==
    event.kind = "address" =>
        LET r == event.resolver
            mappings(config) == {e \in config.hosts : /\ e.family = event.family
                                                      /\ e.name \in Names(config, event.host)}
        IN /\ event.host \in Localhost => event.from = "loopback"
           /\ builder.system /\ event.from = "dns" =>
                 \E config \in since[r] : mappings(config) = {}
           /\ event.from = "hosts" =>
                 \E config \in since[r] : event.addrs \subseteq {e.addr : e \in mappings(config)}

\* A nameserver for DNS over HTTPS that shares its TLS server name with no other
\* address is connected to at its own address, whichever tier or source it is of.
UnsharedNamesDialRight ==
    event.kind = "dial" =>
        LET sharing == {s \in Range(resolver[event.resolver].state.servers) :
                            s.protocol = "https" /\ s.name = event.server.name}
        IN event.server.name = Unnamed \/ {s.addr : s \in sharing} = {event.server.addr}
               => event.addr = event.server.addr

\* Nameserver says that the connection is always made to the address.
DialsItsAddress == event.kind = "dial" => event.addr = event.server.addr

=============================================================================
