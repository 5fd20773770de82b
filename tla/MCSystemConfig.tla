--------------------------- MODULE MCSystemConfig ---------------------------
(***************************************************************************)
(* A small instance of SystemConfig: every resolv.conf of up to two lines  *)
(* of every form, and what the other platforms can answer, written once    *)
(* while two tasks read them.                                              *)
(***************************************************************************)
EXTENDS SystemConfig, SequencesExt, TLC

CONSTANTS t1, t2

Tasks == {t1, t2}
Interchangeable == Permutations(Tasks)

Ips == [w \in {"1.1.1.1", "8.8.8.8", "fe80::1"} |-> w]
WithPort == "8.8.8.8:5353" :> [ip |-> "8.8.8.8", port |-> 5353]
V6Ips == {"fe80::1"}

DnsNames == {"lan", "corp", "--"}
Options == "ndots:2" :> 2 @@ "ndots:3" :> 3
Comments == {"#", "# lan"}

Directives == {<<"nameserver", "1.1.1.1">>, <<"nameserver", "fe80::1%eth0">>,
               <<"nameserver", "8.8.8.8:5353">>,
               <<"search", "--", "lan">>, <<"search", "corp", "lan">>,
               <<"domain", "--">>, <<"domain", "corp", "lan">>,
               <<"options", "ndots:2", "rotate", "ndots:3">>,
               <<"#", "nameserver", "1.1.1.1">>}

\* What a writer appends, among it an empty line.
Appended == {<<>>, <<"search">>, <<"domain", "corp">>}

HostsLines == << <<"1.1.1.1", "Relay", "lan">>, <<"#", "1.1.1.1", "corp">>,
                 <<"lan", "corp">>, <<"8.8.8.8", "relay", "#", "corp">>,
                 <<"fe80::1", "corp", "relay", "corp">> >>

Words == UNION {Range(line) : line \in Directives \cup Range(HostsLines) \cup Appended}
         \cup {"fe80::1", "relay."}
Unzoned == [w \in Words |-> IF w = "fe80::1%eth0" THEN "fe80::1" ELSE w]
Lowered == [w \in Words |-> IF w = "Relay" THEN "relay" ELSE w]
DotLess == [w \in Words |-> IF w = "relay." THEN "relay" ELSE w]

ResolvConf(lines) == [readable |-> TRUE, lines |-> lines]

Adapter(up, servers) == [up |-> up, servers |-> servers]
Adapters(up) == <<Adapter(TRUE, <<"1.1.1.1", "local", "8.8.8.8">>), Adapter(up, <<"fe80::1">>),
                  Adapter(TRUE, <<"8.8.8.8", "fe80::1", "1.1.1.1">>)>>
Windows(up, list, domain) ==
    [readable |-> TRUE, adapters |-> Adapters(up), list |-> list, domain |-> domain]

AnySource ==
    [p \in {"unix", "windows", "apple", "android"} |->
        {Unreadable} \cup
        CASE p = "unix" -> {ResolvConf(lines) : lines \in BoundedSeq(Directives, 2)}
          [] p = "windows" -> {Windows(TRUE, <<"lan", "">>, "corp"), Windows(FALSE, <<"">>, "corp"),
                               Windows(TRUE, <<>>, ""), Windows(FALSE, <<>>, NoDomain)}
          [] p = "apple" -> {[readable |-> TRUE, addresses |-> addresses, domains |-> domains] :
                                 addresses \in {<<>>, <<"8.8.8.8", "lan", "1.1.1.1">>},
                                 domains \in {<<>>, <<"lan", "--">>}}
          [] OTHER -> {[readable |-> TRUE, arrays |-> arrays] :
                           arrays \in {<<>>, <<[length |-> 4, ip |-> "1.1.1.1"],
                                               [length |-> 5, ip |-> "lan"],
                                               [length |-> 16, ip |-> "fe80::1"]>>}}]

\* No text at all, and parts of two files, the first broken off in a word.
Halves == {Unreadable, ResolvConf(<<<<"search", "corp">>, <<"nameserver", "lan">>,
                                    <<"search", "--", "lan">>>>)}

MCHosts == {Unreadable, [readable |-> TRUE, bom |-> TRUE, lines |-> HostsLines]}
=============================================================================
