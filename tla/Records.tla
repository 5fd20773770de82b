------------------------------ MODULE Records ------------------------------
(***************************************************************************)
(* The record kinds a lookup can ask for: what is read from an answer      *)
(* record, the accessors of the service bindings, and the typed lookups.   *)
(* The data of an answer record is a sequence of strings for TXT, each a   *)
(* sequence of characters, [priority, target, params] for SVCB and HTTPS,  *)
(* the params in ascending order of their keys as [key, value], and        *)
(* opaque for the other types, whose fields are copied one by one.         *)
(***************************************************************************)
EXTENDS Answers

CONSTANT Root  \* the root name, which is printed as an empty string

RecordKind == {"A", "Aaaa", "Txt", "Ns", "Srv", "Mx", "Caa", "Svcb", "Https"}

\* The type of each kind on the wire.
DnsType == [A |-> "A", Aaaa |-> "AAAA", Txt |-> "TXT", Ns |-> "NS", Srv |-> "SRV",
            Mx |-> "MX", Caa |-> "CAA", Svcb |-> "SVCB", Https |-> "HTTPS"]

\* TXT::iter_raw: a string split at its first "=".
Split(string) ==
    LET at == {i \in DOMAIN string : string[i] = "="}
        first == CHOOSE i \in at : \A j \in at : i <= j
    IN IF at = {} THEN <<string>>
       ELSE <<SubSeq(string, 1, first - 1), SubSeq(string, first + 1, Len(string))>>

\* extract_txt_record_data: each string put together again.
TxtStrings(data) ==
    [i \in DOMAIN data |-> LET parts == Split(data[i])
                           IN IF Len(parts) = 1 THEN parts[1]
                              ELSE parts[1] \o <<"=">> \o parts[2]]

\* Mutant: the owner of an HTTPS record is lost.
ExtractOwnerless(kind, rr) ==
    IF kind = "Https" THEN [kind |-> kind, data |-> rr.data, owner |-> rr.data.target]
    ELSE [kind |-> kind, data |-> IF kind = "Txt" THEN TxtStrings(rr.data) ELSE rr.data]

\* The closure parse_records picks for the kind, on a record of its type. An HTTPS
\* record keeps the name it was found at.
Extract(kind, rr) ==
    IF kind = "Https" THEN [kind |-> kind, data |-> rr.data, owner |-> rr.name]
    ELSE [kind |-> kind, data |-> IF kind = "Txt" THEN TxtStrings(rr.data) ELSE rr.data]

\* parse_records: the closure yields nothing from another type's record.
ParseRecords(kind, answers, start) ==
    LET wanted == Wanted(answers, start, DnsType[kind])
    IN [records |-> [i \in DOMAIN wanted |-> Extract(kind, wanted[i])],
        ttl |-> LeastTtl(answers, start, DnsType[kind])]

\* lookup_mx and its siblings: those of the method's kind.
TypedLookup(kind, records) == Picked(records, {i \in DOMAIN records : records[i].kind = kind})

-----------------------------------------------------------------------------
(* Service bindings: SvcbRecordData and HttpsRecordData. *)

\* iter_params with find_map, and with filter_map and flatten.
FirstParam(r, key) ==
    LET params == r.data.params
    IN {params[i].value : i \in {i \in DOMAIN params : /\ params[i].key = key
                                                      /\ \A j \in 1..(i - 1) : params[j].key # key}}
AllParams(r, key) ==
    LET params == r.data.params
        upTo[i \in 0..Len(params)] ==
            IF i = 0 THEN <<>>
            ELSE IF params[i].key = key THEN upTo[i - 1] \o params[i].value
            ELSE upTo[i - 1]
    IN upTo[Len(params)]

Port(r) == FirstParam(r, "port")
Alpn(r) == AllParams(r, "alpn")
NoDefaultAlpn(r) == FirstParam(r, "no-default-alpn") # {}

IsAlias(r) == r.data.priority = 0

EffectiveTarget(r) == IF r.data.target = Root THEN r.owner ELSE r.data.target

EffectiveAlpn(r) ==
    IF IsAlias(r) THEN <<>>
    ELSE IF NoDefaultAlpn(r) \/ "http/1.1" \in Range(Alpn(r)) THEN Alpn(r)
    ELSE Append(Alpn(r), "http/1.1")

\* supports_http2 and supports_http3
Supports(r, protocol) == ~IsAlias(r) /\ protocol \in Range(Alpn(r))

=============================================================================
