---------------------------- MODULE SystemConfig ----------------------------
(***************************************************************************)
(* Resolvers that read the system's configuration on first use, once for   *)
(* all the tasks that share them, while it is being rewritten. Reading     *)
(* takes time and several calls: a file is opened and then read to its end *)
(* in parts, Windows is asked three questions and Android two, and the     *)
(* hosts file comes after them. Each may fail, and each may be answered    *)
(* from another state of the system.                                       *)
(*                                                                         *)
(* What a file yields that is written while it is being read is left open: *)
(* it may be any contents, parts of two or broken words among them.        *)
(***************************************************************************)
EXTENDS SystemFiles

CONSTANTS Task,         \* callers that share the resolvers
          Sources,      \* of each platform, what it may hold, or Unreadable
          Torn,         \* what else reading a resolv.conf may yield that is being written
          Lines,        \* lines it is written with
          MaxLines,     \* bound on its length
          HostsFiles,   \* hosts files, or Unreadable
          Queried,      \* names that are looked up
          MaxResolvers, \* bound on resolvers: one built, the rest from reset
          MaxWrites     \* bound on writes of either file

Unreadable == [readable |-> FALSE]

\* What each platform's calls return: words, adapters with their addresses, byte arrays
\* that hold an address if they are as long as one. A "#" or ";" begins no directive.
IsSource(p, s) ==
    CASE p = "unix" -> s = [readable |-> TRUE, lines |-> s.lines] /\ s.lines \in Seq(Seq(STRING))
      [] p = "windows" -> /\ s = [readable |-> TRUE, adapters |-> s.adapters, list |-> s.list,
                                  domain |-> s.domain]
                          /\ s.adapters \in Seq([up : BOOLEAN, servers : Seq(Range(Ip) \cup SiteLocal)])
                          /\ s.list \in Seq(STRING)
      [] p = "apple" -> s.addresses \in Seq(STRING) /\ s.domains \in Seq(STRING)
      [] OTHER -> /\ s.arrays \in Seq(Range(s.arrays))
                  /\ \A a \in Range(s.arrays) : a.length \in {4, 16} => a.ip \in Range(Ip)

ASSUME SystemConfigAssumption ==
    /\ DOMAIN Sources \subseteq {"unix", "windows", "apple", "android"}
    /\ \A p \in DOMAIN Sources : \A s \in Sources[p] :
          s = Unreadable \/ (s.readable = TRUE /\ IsSource(p, s))
    /\ \A s \in Torn : s = Unreadable \/ (s.readable = TRUE /\ IsSource("unix", s))
    /\ \A h \in HostsFiles : h = Unreadable \/ (h.readable = TRUE /\ h.lines \in Seq(Seq(STRING)))
    /\ Lines \subseteq Seq(STRING)
    /\ Remark \cap {"nameserver", "search", "domain", "options"} = {}
    /\ \A s \in Range(SocketAddr) : s = [ip |-> s.ip, port |-> s.port] /\ s.port \in Nat
    /\ \A n \in Range(NdotsOf) : n \in Nat
    /\ DnsPort \in Nat
    /\ {MaxLines, MaxResolvers, MaxWrites} \subseteq Nat

VARIABLES platform, \* the reader that is compiled in
          source,   \* what it reads
          hosts,    \* the hosts file
          writes,   \* writes so far of either
          resolver, \* the resolvers there are: their state and who builds it
          task,     \* each task: which resolver it uses, and the configuration it got
          seen      \* history: what either file has been since each resolver was made

vars == <<platform, source, hosts, writes, resolver, task, seen>>

Idle == [pc |-> "idle"]
Unbuilt == [phase |-> "unbuilt"]

Init == /\ platform \in DOMAIN Sources
        /\ source \in Sources[platform]
        /\ hosts \in HostsFiles
        /\ writes = [source |-> 0, hosts |-> 0]
        /\ resolver = <<>>
        /\ task = [t \in Task |-> Idle]
        /\ seen = <<>>

-----------------------------------------------------------------------------
(* The system. *)

See(s, h) == seen' = [r \in DOMAIN seen |-> [sources |-> seen[r].sources \cup {s},
                                             hosts |-> seen[r].hosts \cup {h}]]

Rewrites(file, s, h) ==
    /\ writes.source + writes.hosts < MaxWrites
    /\ writes' = [writes EXCEPT ![file] = @ + 1]
    /\ source' = s
    /\ hosts' = h
    /\ See(s, h)
    /\ UNCHANGED <<platform, resolver, task>>

\* A file is written in place: cut to nothing, then a line at a time.
TruncateFile == /\ platform = "unix"
                /\ Rewrites("source", [readable |-> TRUE, lines |-> <<>>], hosts)

AppendLine == /\ platform = "unix" /\ source.readable
              /\ Len(source.lines) < MaxLines
              /\ \E line \in Lines :
                    Rewrites("source", [source EXCEPT !.lines = Append(@, line)], hosts)

ReplaceSource == \E s \in Sources[platform] \ {source} :
                    platform # "unix" /\ Rewrites("source", s, hosts)

ReplaceHosts == \E h \in HostsFiles \ {hosts} : Rewrites("hosts", source, h)

-----------------------------------------------------------------------------
(* The resolvers. *)

\* Mutant: a resolver from reset starts with what the one before it has.
NewResolverInherits ==
    /\ Len(resolver) < MaxResolvers
    /\ resolver' = Append(resolver, IF resolver = <<>> THEN Unbuilt ELSE resolver[Len(resolver)])
    /\ seen' = Append(seen, [sources |-> {source}, hosts |-> {hosts}])
    /\ UNCHANGED <<platform, source, hosts, writes, task>>

\* Builder::build and reset read nothing.
NewResolver ==
    /\ Len(resolver) < MaxResolvers
    /\ resolver' = Append(resolver, Unbuilt)
    /\ seen' = Append(seen, [sources |-> {source}, hosts |-> {hosts}])
    /\ UNCHANGED <<platform, source, hosts, writes, task>>

\* A task's first lookup with a resolver asks for its state.
Use(t, r) ==
    /\ task[t].pc = "idle" \/ (task[t].pc = "using" /\ task[t].resolver < r)
    /\ task' = [task EXCEPT ![t] = [pc |-> "waiting", resolver |-> r]]
    /\ UNCHANGED <<platform, source, hosts, writes, resolver, seen>>

\* read_system_dns up to the hosts file; when it fails, the default stands in.
Parsed(s) ==
    IF ~s.readable THEN Default
    ELSE CASE platform = "unix" -> ParseResolvConf(s.lines)
           [] platform = "windows" -> ReadWindows(s.adapters, s.list, s.domain)
           [] platform = "apple" -> ReadApple(s.addresses, s.domains)
           [] OTHER -> ReadAndroid(s.arrays)

\* OnceLock::get_or_init: the first task to ask builds the state. It opens the file,
\* asks for the adapters, or for the active network.
StartReading(t) ==
    LET r == task[t].resolver
    IN /\ task[t].pc = "waiting"
       /\ resolver[r].phase = "unbuilt"
       /\ resolver' = [resolver EXCEPT ![r] =
              [phase |-> "reading", by |-> t, read |-> source, since |-> writes.source]]
       /\ UNCHANGED <<platform, source, hosts, writes, task, seen>>

Builds(t, r, phase) == /\ task[t].pc = "waiting"
                       /\ resolver[r].phase = phase /\ resolver[r].by = t

\* Windows has named its adapters and is asked for the search list. Each answer is what
\* the system holds by then, and a question that fails is one without an answer.
ReadSearchList(t) ==
    LET r == task[t].resolver
    IN /\ platform = "windows"
       /\ Builds(t, r, "reading")
       /\ resolver[r].read.readable
       /\ \E list \in {<<>>} \cup (IF source.readable THEN {source.list} ELSE {}) :
             resolver' = [resolver EXCEPT ![r] =
                 [phase |-> "listed", by |-> t, read |-> [@.read EXCEPT !.list = list],
                  since |-> @.since]]
       /\ UNCHANGED <<platform, source, hosts, writes, task, seen>>

\* What a reading that began with x can have found at its end. On Windows the last
\* question is for the domain, which counts when the list is empty; on Android for the
\* properties of the network that was active, and it may be gone.
SourceReadings(x) ==
    CASE platform = "windows" /\ x.read.readable ->
            {[x.read EXCEPT !.domain = domain] :
                domain \in {NoDomain} \cup (IF source.readable THEN {source.domain} ELSE {})}
      [] platform \in {"unix", "android"} /\ x.read.readable /\ x.since # writes.source ->
            IF platform = "unix" THEN {x.read, source} \cup Torn
            ELSE {x.read, source, Unreadable}
      [] OTHER -> {x.read}

FinishReading(t) ==
    LET r == task[t].resolver
    IN /\ \/ Builds(t, r, "listed")
          \/ /\ Builds(t, r, "reading")
             /\ platform # "windows" \/ ~resolver[r].read.readable
       /\ \E s \in SourceReadings(resolver[r]) :
             resolver' = [resolver EXCEPT ![r] =
                 [phase |-> "configured", by |-> t, config |-> Parsed(s), read |-> s,
                  torn |-> platform = "unix" /\ @.since # writes.source]]
       /\ UNCHANGED <<platform, source, hosts, writes, task, seen>>

\* Hosts::from_system, also when the configuration could not be read.
OpenHosts(t) ==
    LET r == task[t].resolver
    IN /\ Builds(t, r, "configured")
       /\ resolver' = [resolver EXCEPT ![r] =
              [phase |-> "opened", by |-> t, config |-> @.config, read |-> @.read,
               torn |-> @.torn, file |-> hosts, since |-> writes.hosts]]
       /\ UNCHANGED <<platform, source, hosts, writes, task, seen>>

HostsReadings(x) ==
    IF x.file.readable /\ x.since # writes.hosts THEN {x.file, hosts} \cup HostsFiles ELSE {x.file}

ReadHosts(t) ==
    LET r == task[t].resolver
        entries(h) == IF h.readable THEN ParseHosts(h) ELSE <<>>
    IN /\ Builds(t, r, "opened")
       /\ \E h \in HostsReadings(resolver[r]) :
             resolver' = [resolver EXCEPT ![r] =
                 [phase |-> "built", config |-> [@.config EXCEPT !.hosts = entries(h)],
                  read |-> @.read, torn |-> @.torn,
                  file |-> h, fileTorn |-> @.since # writes.hosts]]
       /\ UNCHANGED <<platform, source, hosts, writes, task, seen>>

\* Mutant: a task does not wait for the hosts file.
TakeEarly(t) ==
    LET r == task[t].resolver
    IN /\ task[t].pc = "waiting"
       /\ resolver[r].phase \in {"configured", "opened", "built"}
       /\ task' = [task EXCEPT ![t] = [pc |-> "using", resolver |-> r,
                                       config |-> resolver[r].config]]
       /\ UNCHANGED <<platform, source, hosts, writes, resolver, seen>>

\* Every other task waits for it, and all of them get the same.
Take(t) ==
    LET r == task[t].resolver
    IN /\ task[t].pc = "waiting"
       /\ resolver[r].phase = "built"
       /\ task' = [task EXCEPT ![t] = [pc |-> "using", resolver |-> r,
                                       config |-> resolver[r].config]]
       /\ UNCHANGED <<platform, source, hosts, writes, resolver, seen>>

Next == \/ TruncateFile \/ AppendLine \/ ReplaceSource \/ ReplaceHosts
        \/ NewResolver
        \/ \E t \in Task : \/ \E r \in DOMAIN resolver : Use(t, r)
                           \/ StartReading(t) \/ ReadSearchList(t) \/ FinishReading(t)
                           \/ OpenHosts(t) \/ ReadHosts(t) \/ Take(t)

Spec == Init /\ [][Next]_vars

-----------------------------------------------------------------------------
(* Properties. *)

Servers == [ip : {s.ip : s \in Range(SocketAddr)} \cup Range(Ip), port : Nat]

ConfigOK(config) ==
    /\ Range(config.servers) \subseteq Servers
    /\ "--" \notin Range(config.search) \/ platform # "unix"
    /\ config.ndots \in Nat \cup {Unset}
    /\ \A entry \in Range(config.hosts) : entry.ip \in Range(Ip)

\* Every value has its type: what a resolver runs on are addresses and names, never a
\* placeholder that a file of the system holds in their place.
TypeOK ==
    /\ source \in Sources[platform] \/ (platform = "unix" /\ Len(source.lines) <= MaxLines)
    /\ hosts \in HostsFiles
    /\ DOMAIN seen = DOMAIN resolver
    /\ \A r \in DOMAIN resolver :
          /\ resolver[r].phase \in {"unbuilt", "reading", "listed", "configured", "opened", "built"}
          /\ resolver[r].phase \in {"configured", "opened", "built"} => ConfigOK(resolver[r].config)
    /\ \A t \in Task : task[t].pc \in {"idle", "waiting", "using"}

Directed(line, name) == Len(line) > 1 /\ line[1] = name
SuffixWords == DnsName \ {"--"}
SuffixPlaces(words) == {i \in DOMAIN words : words[i] \in SuffixWords}

\* The ndots options of a line.
Ndots(line) == {i \in 2..Len(line) : line[1] = "options" /\ line[i] \in DOMAIN NdotsOf}

\* resolv.conf(5) as the reader follows it: every nameserver in order, and the last
\* search list and ndots there are, where a domain that cannot be a suffix counts for
\* nothing. There it departs from its documentation (unix.rs:22-26), by which a domain is
\* a search list of one entry and the last of the two wins.
MeansResolvConf(config, lines) ==
    LET servers == Picked(lines, {i \in DOMAIN lines : /\ Directed(lines[i], "nameserver")
                                                       /\ Nameserver(lines[i][2]) # <<>>})
        search == {i \in DOMAIN lines : lines[i] # <<>> /\ lines[i][1] = "search"}
        domain == {i \in DOMAIN lines : Directed(lines[i], "domain") /\ lines[i][2] \in SuffixWords}
        last == Max(search \cup domain)
        counts == {i \in DOMAIN lines : Ndots(lines[i]) # {}}
    IN /\ config.servers = [k \in DOMAIN servers |-> Nameserver(servers[k][2])[1]]
       /\ config.search = IF search \cup domain = {} THEN <<>>
                          ELSE IF last \in domain THEN <<lines[last][2]>>
                          ELSE Picked(Tail(lines[last]), SuffixPlaces(Tail(lines[last])))
       /\ config.ndots = IF counts = {} THEN Unset
                         ELSE NdotsOf[lines[Max(counts)][Max(Ndots(lines[Max(counts)]))]]

\* Places in lists of lists, the earlier list first.
Before(p, q) == p[1] < q[1] \/ (p[1] = q[1] /\ p[2] < q[2])

At(s, p) == s.adapters[p[1]].servers[p[2]]

\* The places of the usable nameservers of adapters that are up.
Usable(s) == {p \in UNION {{i} \X DOMAIN s.adapters[i].servers : i \in DOMAIN s.adapters} :
                 s.adapters[p[1]].up /\ At(s, p) \notin SiteLocal}

\* Each of them is a nameserver, those that came first first.
MeansAdapters(config, s) ==
    LET servers == config.servers
        list == Range(s.list) \ {""}
    IN /\ Range(servers) = {OnDnsPort(At(s, p)) : p \in Usable(s)}
       /\ \A k, l \in DOMAIN servers : k < l =>
              \E p \in Usable(s) :
                  /\ OnDnsPort(At(s, p)) = servers[k]
                  /\ \A q \in Usable(s) : OnDnsPort(At(s, q)) = servers[l] => Before(p, q)
       /\ Range(config.search) = IF list # {} THEN list ELSE {s.domain} \ {"", NoDomain}

Means(config, s) ==
    IF ~s.readable THEN [config EXCEPT !.hosts = <<>>] = Default
    ELSE CASE platform = "unix" -> MeansResolvConf(config, s.lines)
           [] platform = "windows" -> MeansAdapters(config, s)
           [] platform = "apple" ->
                 /\ Range(config.servers) = {OnDnsPort(Ip[w]) : w \in Range(s.addresses) \cap DOMAIN Ip}
                 /\ config.search = s.domains
           [] OTHER -> Range(config.servers) =
                           {OnDnsPort(a.ip) : a \in {a \in Range(s.arrays) : a.length \in {4, 16}}}

\* The places of a hosts file where a name is listed with an address of the family:
\* before a comment, however either spells the name.
Listings(file, n, v6) ==
    LET line(p) == file.lines[p[1]]
        lists(p) == /\ line(p)[1] \in DOMAIN Ip
                    /\ Ip[line(p)[1]] \in V6 <=> v6
                    /\ Lower[line(p)[p[2] + 1]] = Lower[Undotted[n]]
                    /\ \A j \in 1..(p[2] + 1) : line(p)[j] \notin Hash
    IN IF ~file.readable THEN {}
       ELSE {p \in UNION {{k} \X (1..(Len(file.lines[k]) - 1)) : k \in DOMAIN file.lines} : lists(p)}

\* A name maps to the address of a line each time the line lists it, in order.
MeansHosts(config, file) ==
    \A n \in Queried, v6 \in BOOLEAN :
        LET places == Listings(file, n, v6)
            ips == HostsLookup(config.hosts, n, v6)
        IN /\ Len(ips) = Cardinality(places)
           /\ \A p \in places :
                  ips[Cardinality({q \in places : Before(q, p)}) + 1] = Ip[file.lines[p[1]][1]]

\* What was read is a version there was: on Windows each answer is, perhaps of several
\* versions, and Android's network may have gone meanwhile.
IsVersion(s, versions) ==
    \/ s \in versions
    \/ platform = "android" /\ s = Unreadable
    \/ /\ platform = "windows" /\ s.readable
       /\ \E v \in versions : v.readable /\ s.adapters = v.adapters
       /\ s.list = <<>> \/ \E v \in versions : v.readable /\ s.list = v.list
       /\ s.domain = NoDomain \/ \E v \in versions : v.readable /\ s.domain = v.domain

\* A resolver runs on what it read, and what it read of a file that was not written
\* between its opening and its end is the file as it was at some moment since the
\* resolver was made, also when it was half written or could not be read: so a reset
\* resolver never runs on what was there before, and a hosts file counts though there
\* is no configuration.
RunsOnAReading ==
    \A r \in DOMAIN resolver : resolver[r].phase = "built" =>
        LET x == resolver[r]
        IN /\ Means(x.config, x.read) /\ (x.torn \/ IsVersion(x.read, seen[r].sources))
           /\ MeansHosts(x.config, x.file) /\ (x.fileTorn \/ x.file \in seen[r].hosts)

\* All tasks of a resolver run on one configuration, however their first lookups and
\* the writes of the files interleave.
OneReading ==
    \A t, u \in Task :
        task[t].pc = "using" /\ task[u].pc = "using" /\ task[t].resolver = task[u].resolver
            => task[t].config = task[u].config

=============================================================================
