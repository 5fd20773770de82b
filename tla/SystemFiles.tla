---------------------------- MODULE SystemFiles ----------------------------
(***************************************************************************)
(* What the platform readers make of the system's DNS configuration and of *)
(* the hosts file. A file is a sequence of lines and a line one of words;  *)
(* what a word means, as an address, a suffix or an option, is given by    *)
(* constants.                                                              *)
(***************************************************************************)
EXTENDS Places, Functions, FiniteSetsExt

CONSTANTS SocketAddr, \* of each word that is an address with a port, the two
          Ip,         \* of each word that is an address alone, that address
          Zoneless,   \* each word without the zone behind a "%"
          DnsName,    \* words that are a DNS name; "--" is one
          NdotsOf,    \* of each word that is a valid ndots option, its number
          Remark,     \* words that begin with "#" or ";"
          Hash,       \* those that begin with "#"
          Lower,      \* each word in lower case
          Undotted,   \* each word without a trailing dot
          V6,         \* the addresses of IPv6
          SiteLocal,  \* WINDOWS_BAD_SITE_LOCAL_DNS_SERVERS
          DnsPort     \* DnsProtocol::Udp.port()

\* No configuration, no ndots option, and no domain of a Windows host.
Unset == -1
NoDomain == "no domain"
Default == [servers |-> <<>>, search |-> <<>>, ndots |-> Unset, hosts |-> <<>>]

OnDnsPort(ip) == [ip |-> ip, port |-> DnsPort]

\* A nameserver's word: with a port, else an address whose zone is stripped.
Nameserver(word) ==
    IF word \in DOMAIN SocketAddr THEN <<SocketAddr[word]>>
    ELSE IF Zoneless[word] \in DOMAIN Ip THEN <<OnDnsPort(Ip[Zoneless[word]])>>
    ELSE <<>>

\* Mutant: the placeholder of systemd-resolved is a name like any other.
AnyDnsName(word) == word \in DnsName

IsValidSearchDomain(word) == word # "--" /\ word \in DnsName

\* A directive: nameserver adds one, search and domain replace the list, and the last
\* ndots counts. A domain that is no suffix leaves the list as it was.
Directive(config, line) ==
    LET rest == Tail(line)
        suffixes == {i \in DOMAIN rest : IsValidSearchDomain(rest[i])}
        ndots == {i \in DOMAIN rest : rest[i] \in DOMAIN NdotsOf}
    IN CASE Head(line) = "nameserver" /\ rest # <<>> ->
                [config EXCEPT !.servers = @ \o Nameserver(rest[1])]
         [] Head(line) = "search" -> [config EXCEPT !.search = Picked(rest, suffixes)]
         [] Head(line) = "domain" /\ 1 \in suffixes -> [config EXCEPT !.search = <<rest[1]>>]
         [] Head(line) = "options" /\ ndots # {} ->
                [config EXCEPT !.ndots = NdotsOf[rest[Max(ndots)]]]
         [] OTHER -> config

\* parse_resolv_conf
ParseResolvConf(lines) ==
    LET upTo[i \in 0..Len(lines)] ==
            IF i = 0 THEN Default
            ELSE IF lines[i] = <<>> \/ Head(lines[i]) \in Remark THEN upTo[i - 1]
            ELSE Directive(upTo[i - 1], lines[i])
    IN upTo[Len(lines)]

OnDnsPorts(ips) == [i \in DOMAIN ips |-> OnDnsPort(ips[i])]

\* The first occurrence of each nameserver.
Deduplicated(servers) ==
    Picked(servers, {i \in DOMAIN servers : \A j \in 1..(i - 1) : servers[j] # servers[i]})

\* read_system_dns of Windows: the adapters that are up, and the search list, else
\* the host's own domain.
ReadWindows(adapters, list, domain) ==
    LET ips == Joined([i \in DOMAIN adapters |-> IF adapters[i].up THEN adapters[i].servers
                                                 ELSE <<>>])
        usable == Picked(ips, {i \in DOMAIN ips : ips[i] \notin SiteLocal})
        named == Picked(list, {i \in DOMAIN list : list[i] # ""})
    IN [Default EXCEPT
           !.servers = Deduplicated(OnDnsPorts(usable)),
           !.search = IF named # <<>> THEN named
                      ELSE IF domain \in {"", NoDomain} THEN <<>> ELSE <<domain>>]

\* read_system_dns of Apple: the strings that are addresses, and all search domains.
ReadApple(addresses, domains) ==
    LET parsed == Picked(addresses, {i \in DOMAIN addresses : addresses[i] \in DOMAIN Ip})
    IN [Default EXCEPT !.servers = OnDnsPorts([i \in DOMAIN parsed |-> Ip[parsed[i]]]),
                       !.search = domains]

\* read_system_dns_jni: the byte arrays that have an address's length.
ReadAndroid(arrays) ==
    LET sized == Picked(arrays, {i \in DOMAIN arrays : arrays[i].length \in {4, 16}})
    IN [Default EXCEPT !.servers = OnDnsPorts([i \in DOMAIN sized |-> sized[i].ip])]

-----------------------------------------------------------------------------
(* The hosts file, [bom, lines]; bom is whether a byte order mark leads it.   *)

\* A line up to its comment.
Uncommented(line) ==
    LET signs == {i \in DOMAIN line : line[i] \in Hash}
    IN IF signs = {} THEN line
       ELSE SubSeq(line, 1, (CHOOSE i \in signs : \A j \in signs : i <= j) - 1)

\* The entries of a line: each of its names maps to its address.
Entries(line) ==
    IF line = <<>> \/ line[1] \notin DOMAIN Ip THEN <<>>
    ELSE [i \in 1..(Len(line) - 1) |-> [name |-> Lower[line[i + 1]], ip |-> Ip[line[1]]]]

\* Hosts::parse: each name of a line maps to its address, in the order of the file.
ParseHosts(file) == Joined([k \in DOMAIN file.lines |-> Entries(Uncommented(file.lines[k]))])

\* Hosts::lookup_ipv4 and lookup_ipv6, with normalize: the addresses of one family.
HostsLookup(hosts, name, v6) ==
    LET mine == Picked(hosts, {i \in DOMAIN hosts : /\ hosts[i].name = Lower[Undotted[name]]
                                                    /\ hosts[i].ip \in V6 <=> v6})
    IN [i \in DOMAIN mine |-> mine[i].ip]

=============================================================================
