----------------------------- MODULE MCExchange -----------------------------
(***************************************************************************)
(* What a nameserver may hold for a host h: addresses behind an alias, in  *)
(* any order and beside records of other names, classes and types, more    *)
(* than a datagram holds; strings with none, one and two separators;       *)
(* bindings of every mode; and absences with and without an SOA.           *)
(***************************************************************************)
EXTENDS Exchange

Names == {"h", "H", "target", "else", "root"}
Lowered == [n \in Names |-> IF n = "H" THEN "h" ELSE n]

RR(n, class, type, data, ttl) ==
    [name |-> n, class |-> class, type |-> type, data |-> data, ttl |-> ttl]

Alias == RR("H", "IN", "CNAME", "target", 2)
Address(n, class, data, ttl) == RR(n, class, "A", data, ttl)

Binding(n, priority, target, params) ==
    RR(n, "IN", "HTTPS", [priority |-> priority, target |-> target, params |-> params], 2)
Ids(ids) == [key |-> "alpn", value |-> ids]
OptOut == [key |-> "no-default-alpn", value |-> <<>>]
PortParam == [key |-> "port", value |-> 8443]

Zone(kind, rcode, answers, soas, large) ==
    [kind |-> kind, rcode |-> rcode, answers |-> answers, soa |-> soas, large |-> large]

Soa == [ttl |-> 1, minimum |-> 3]

Held4 ==
    {<<Address("H", "IN", "one", 3), Address("h", "IN", "two", 2), Address("else", "IN", "x", 1)>>,
     <<Address("target", "IN", "one", 3), Alias, Address("h", "CH", "x", 1)>>}

HeldStrings == <<RR("h", "IN", "TXT", << <<"k">>, <<"k", "=", "v", "=">>, <<>> >>, 2),
                 RR("h", "IN", "TXT", << <<"=">> >>, 3)>>

HeldBindings ==
    <<Alias,
      Binding("target", 1, "root", <<Ids(<<"h2">>), PortParam>>),
      Binding("target", 2, "else", <<Ids(<<"h3", "http/1.1">>), OptOut>>),
      Binding("target", 3, "root", <<OptOut>>),
      Binding("target", 0, "else", <<Ids(<<"h2">>)>>)>>

MCZones ==
    {Zone("A", "NoError", held, {}, large) : held \in Held4, large \in BOOLEAN}
    \cup {Zone("Txt", "NoError", HeldStrings, {}, FALSE),
          Zone("Https", "NoError", HeldBindings, {}, FALSE),
          Zone("Svcb", "NoError", HeldBindings, {}, FALSE)}
    \cup {Zone("Aaaa", rcode, <<>>, soas, FALSE) : rcode \in {"NoError", "NameError"},
                                                   soas \in {{}, {Soa}}}
=============================================================================
