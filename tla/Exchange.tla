------------------------------ MODULE Exchange ------------------------------
(***************************************************************************)
(* One query of one kind for one name to one nameserver, from build_query  *)
(* to what is cached of it: query_nameserver over UDP, over a pooled TCP   *)
(* or DoT connection or over HTTPS, the retry without EDNS, and the        *)
(* verdict on the response. Datagrams are lost, repeated, reordered and    *)
(* joined by strays; a pooled connection is closed, or holds a frame that  *)
(* was left on it. Time and pacing are NameserverQuery's: here TCP may     *)
(* join, and the attempt time out, at any moment.                          *)
(***************************************************************************)
EXTENDS Message, Records

CONSTANTS Host,      \* the name asked for
          Stranger,  \* another name
          Zones,     \* what a nameserver may hold: [kind, rcode, answers, soa, large]
          Sockets,   \* bound on UDP datagrams sent
          MaxStrays, \* bound on stray datagrams and frames
          MaxRepeats \* bound on answers sent twice on a connection

\* The data of a service binding: parameters in a row, its protocols listed as strings.
IsBinding(data) ==
    /\ Len(data.params) \in Nat /\ DOMAIN data.params = 1..Len(data.params)
    /\ \A j \in 1..Len(data.params) :
          data.params[j].key = "alpn" => data.params[j].value \in Seq(STRING)

\* A nameserver holds whatever records; its answers to what it serves are not errors,
\* and a response has at most one SOA.
ASSUME ExchangeAssumption ==
    /\ {Host, Stranger} \subseteq Name
    /\ ~NamesEqual(Host, Stranger)
    /\ \A z \in Zones :
          /\ z.kind \in RecordKind
          /\ z.rcode \in {"NoError", "NameError"}
          /\ Len(z.answers) \in Nat /\ DOMAIN z.answers = 1..Len(z.answers)
          /\ \A i \in 1..Len(z.answers) :
                /\ z.answers[i].ttl \in 0..U32Max
                /\ z.answers[i].type = "TXT" => z.answers[i].data \in Seq(Seq(STRING))
                /\ z.answers[i].type = "HTTPS" => IsBinding(z.answers[i].data)
          /\ \A soa \in z.soa : soa.ttl \in Nat /\ soa.minimum \in Nat
          /\ \A soa, other \in z.soa : soa = other
    /\ {Sockets, MaxStrays, MaxRepeats} \subseteq Nat

VARIABLES protocol, \* "udp", "stream" (TCP and DoT) or "https"
          server,   \* "healthy", "picky" (rejects EDNS) or "faulty"
          zone,     \* what the nameserver holds, and the kind that is asked for
          query,    \* the query that is out
          sockets,  \* UDP sockets that listen, or will
          inbox,    \* datagrams that have arrived
          conn,     \* the connection and the frames that wait on it
          due,      \* TCP is still to be opened
          strays,   \* strays so far
          repeats,  \* answers sent twice so far
          response, \* what the attempt gave, if it has
          result    \* the verdict

given == <<protocol, server, zone>>
vars == <<protocol, server, zone, query, sockets, inbox, conn, due, strays, repeats, response,
          result>>

Pending == [kind |-> "pending"]
Transport == [kind |-> "error", error |-> "Transport"]
Timeout == [kind |-> "error", error |-> "Timeout"]

\* A connection is "closed", "idle" in the pool, or in use, "pooled" or "fresh";
\* answered once the nameserver has replied to the query on it.
Conn(state, frames) == [state |-> state, frames |-> frames, answered |-> FALSE]
Closed == Conn("closed", <<>>)
InUse == conn.state \in {"pooled", "fresh"}

-----------------------------------------------------------------------------
(* The nameserver and the network. *)

Whole(id, question, z) ==
    [id |-> id, qr |-> TRUE, rcode |-> z.rcode, tc |-> FALSE, form |-> "whole",
     questions |-> <<question>>, answers |-> z.answers, soa |-> z.soa]

Empty == [rcode |-> "NoError", answers |-> <<>>, soa |-> {}]

\* A picky nameserver, or a middlebox before it, may answer with a bare header.
Rejections(q) ==
    LET reject == Whole(q.id, q.question, [Empty EXCEPT !.rcode = "FormatError"])
    IN {reject, [reject EXCEPT !.questions = <<>>]}

Faults(q) ==
    {Whole(q.id, q.question, [Empty EXCEPT !.rcode = rcode]) :
         rcode \in {"ServerFailure", "NotImplemented", "NotAuth"}}
    \cup {[Whole(q.id, q.question, Empty) EXCEPT !.form = form] : form \in {"short", "garbled"}}
    \cup {Whole(q.id, Question(Stranger, q.question.type), zone)}

Replies(q) == IF server = "faulty" THEN Faults(q)
              ELSE IF server = "picky" /\ q.edns THEN Rejections(q)
              ELSE {Whole(q.id, q.question, zone)}

Datagram(from, full, resp) == [from |-> from, full |-> full, resp |-> resp]

\* A large answer is truncated by the nameserver, between two records or within
\* one, or, if it ignores the size it was told, by the socket.
Cut(resp) == [resp EXCEPT !.answers = SubSeq(@, 1, 1)]
Datagrams(q) ==
    UNION {IF zone.large /\ resp.answers # <<>>
           THEN {Datagram("server", FALSE, [Cut(resp) EXCEPT !.tc = TRUE]),
                 Datagram("server", FALSE, [resp EXCEPT !.tc = TRUE, !.form = "garbled"]),
                 Datagram("server", TRUE, [resp EXCEPT !.form = "garbled"])}
           ELSE {Datagram("server", FALSE, resp)} : resp \in Replies(q)}

\* Answers to other queries, an answer to this one that another host sends, and the
\* query itself sent back.
OtherAnswers(q) ==
    {Whole("other", q.question, Empty),
     Whole(q.id, Question(Stranger, q.question.type), Empty),
     Whole(q.id, Question(Host, "SOA"), Empty)}
StrayDatagrams(q) ==
    {Datagram("server", FALSE, resp) : resp \in
         OtherAnswers(q) \cup {[Whole(q.id, q.question, Empty) EXCEPT !.qr = FALSE]}}
    \cup {Datagram("elsewhere", FALSE, Whole(q.id, q.question, Empty))}

Asking == response = {} /\ result = Pending

ServerDatagram ==
    /\ Asking /\ protocol = "udp" /\ sockets > 0
    /\ \E d \in Datagrams(query) \ inbox : inbox' = inbox \cup {d}
    /\ UNCHANGED <<given, query, sockets, conn, due, strays, repeats, response, result>>

StrayDatagram ==
    /\ Asking /\ protocol = "udp" /\ sockets > 0 /\ strays < MaxStrays
    /\ strays' = strays + 1
    /\ \E d \in StrayDatagrams(query) \ inbox : inbox' = inbox \cup {d}
    /\ UNCHANGED <<given, query, sockets, conn, due, repeats, response, result>>

\* One frame answers the query, and a bounded number of times another follows it.
ServerFrame ==
    /\ Asking /\ InUse /\ Len(conn.frames) < 3
    /\ conn.answered => repeats < MaxRepeats
    /\ repeats' = IF conn.answered THEN repeats + 1 ELSE repeats
    /\ \E resp \in Replies(query) :
          conn' = [conn EXCEPT !.frames = Append(@, resp), !.answered = TRUE]
    /\ UNCHANGED <<given, query, sockets, inbox, due, strays, response, result>>

-----------------------------------------------------------------------------
(* query_nameserver_once. *)

\* The attempt is over: its sockets close.
CloseSockets == sockets' = 0 /\ inbox' = {}

\* Mutant: the source of a datagram is not compared.
ReceiveAnySource(d) ==
    /\ Asking
    /\ d \in inbox /\ sockets > 0
    /\ LET mine == AnswersQuery(d.resp, query)
           cut == d.full \/ IsTruncated(d.resp)
       IN \/ /\ mine /\ ~cut
             /\ response' = {d.resp}
             /\ CloseSockets
             /\ conn' = IF InUse THEN Closed ELSE conn
             /\ UNCHANGED due
          \/ /\ ~mine \/ cut
             /\ inbox' = inbox \ {d}
             /\ sockets' = IF mine THEN sockets - 1 ELSE sockets
             /\ due' = (due \/ (mine /\ ~InUse))
             /\ UNCHANGED <<conn, response>>
    /\ UNCHANGED <<given, query, strays, repeats, result>>

\* A datagram that is not the nameserver's answer is ignored, one that is truncated
\* brings TCP in, and any other ends the attempt, TCP with it.
Receive(d) ==
    /\ Asking
    /\ d \in inbox /\ sockets > 0
    /\ LET mine == d.from = "server" /\ AnswersQuery(d.resp, query)
           cut == d.full \/ IsTruncated(d.resp)
       IN \/ /\ mine /\ ~cut
             /\ response' = {d.resp}
             /\ CloseSockets
             /\ conn' = IF InUse THEN Closed ELSE conn
             /\ UNCHANGED due
          \/ /\ ~mine \/ cut
             /\ inbox' = inbox \ {d}
             /\ sockets' = IF mine THEN sockets - 1 ELSE sockets
             /\ due' = (due \/ (mine /\ ~InUse))
             /\ UNCHANGED <<conn, response>>
    /\ UNCHANGED <<given, query, strays, repeats, result>>

\* A pooled connection if there is one, with what may have been left on it.
Connect ==
    /\ Asking /\ due /\ protocol # "https"
    /\ due' = FALSE
    /\ conn' = IF conn.state = "idle" THEN Conn("pooled", conn.frames) ELSE Conn("fresh", <<>>)
    /\ UNCHANGED <<given, query, sockets, inbox, strays, repeats, response, result>>

\* A failure on a pooled connection is made good on a fresh one, once. UDP goes on
\* without TCP while a datagram is out.
ConnectionLost ==
    /\ conn' = IF conn.state = "pooled" THEN Conn("fresh", <<>>) ELSE Closed
    /\ result' = IF conn.state = "fresh" /\ (protocol = "stream" \/ sockets = 0)
                 THEN Transport ELSE Pending
    /\ UNCHANGED <<given, query, sockets, inbox, due, strays, repeats, response>>

StreamFails == Asking /\ InUse /\ ConnectionLost

\* framed_query: the next frame is the answer, and the connection goes back to the
\* pool, or the connection is dropped.
ReadFrame ==
    /\ Asking /\ InUse /\ conn.frames # <<>>
    /\ IF AnswersQuery(Head(conn.frames), query)
       THEN /\ response' = {Head(conn.frames)}
            /\ conn' = Conn("idle", Tail(conn.frames))
            /\ CloseSockets
            /\ UNCHANGED <<given, query, due, strays, repeats, result>>
       ELSE ConnectionLost

\* https_query: the body is the response, whatever it answers.
HttpsAnswers ==
    /\ Asking /\ protocol = "https"
    /\ \E resp \in Replies(query) : response' = {resp}
    /\ UNCHANGED <<given, query, sockets, inbox, conn, due, strays, repeats, result>>

\* An HTTP failure: of the request, by its status, or a body that is too large.
HttpsFails ==
    /\ Asking /\ protocol = "https"
    /\ result' = Transport
    /\ UNCHANGED <<given, query, sockets, inbox, conn, due, strays, repeats, response>>

TimesOut ==
    /\ Asking
    /\ result' = Timeout
    /\ CloseSockets
    /\ conn' = IF InUse THEN Closed ELSE conn
    /\ UNCHANGED <<given, query, due, strays, repeats, response>>

-----------------------------------------------------------------------------
(* The verdict. *)

\* query_nameserver: a FORMERR to a query with EDNS is asked again without, under the
\* same id, on new sockets.
Retry ==
    /\ \E resp \in response : IsFormatError(resp) /\ query.edns
    /\ query' = StripEdns(query)
    /\ response' = {}
    /\ sockets' = IF protocol = "udp" THEN Sockets ELSE 0
    /\ due' = TRUE
    /\ UNCHANGED <<given, inbox, conn, strays, repeats, result>>

\* race, send_query_following_cnames and lookup_record_impl with one nameserver: the
\* error an rcode stands for, an alias to follow, records, or an absence with the
\* time it may be cached.
Verdict(resp) ==
    LET parsed == ParseRecords(zone.kind, resp.answers, Host)
        checked == CheckResponse(resp, query)
        open == Unresolved(resp.answers, Host, DnsType[zone.kind])
    IN IF IsRetryable(resp) THEN ErrorOf("ServerFailure", resp.rcode)
       ELSE IF ~Parses(resp) THEN ErrorOf("Malformed", resp.rcode)
       ELSE IF checked = "NxDomain" THEN [kind |-> "nxdomain", ttl |-> NegativeCacheTtl({})]
       ELSE IF checked # "ok" THEN ErrorOf(checked, resp.rcode)
       ELSE IF open # {} THEN [kind |-> "follow", target |-> CHOOSE n \in open : TRUE]
       ELSE IF parsed.records = <<>>
            THEN [kind |-> "nodata", ttl |-> NegativeCacheTtl(NegativeTtl(resp))]
       ELSE [kind |-> "records", records |-> TypedLookup(zone.kind, parsed.records),
             ttl |-> parsed.ttl]

Conclude ==
    /\ \E resp \in response : ~(IsFormatError(resp) /\ query.edns) /\ result' = Verdict(resp)
    /\ result = Pending
    /\ UNCHANGED <<given, query, sockets, inbox, conn, due, strays, repeats, response>>

-----------------------------------------------------------------------------

Init ==
    /\ protocol \in {"udp", "stream", "https"}
    /\ server \in {"healthy", "picky", "faulty"}
    /\ zone \in Zones
    /\ query = BuildQuery("ours", Host, DnsType[zone.kind])
    /\ sockets = IF protocol = "udp" THEN Sockets ELSE 0
    /\ inbox = {}
    /\ strays \in 0..MaxStrays
    \* A connection in the pool may hold an answer to another query.
    /\ \/ conn = Closed
       \/ conn = Conn("idle", <<>>)
       \/ strays > 0 /\ conn \in {Conn("idle", <<resp>>) : resp \in OtherAnswers(query)}
    /\ due = TRUE
    /\ repeats = 0
    /\ response = {}
    /\ result = Pending

Next == \/ ServerDatagram \/ StrayDatagram \/ ServerFrame
        \/ \E d \in inbox : Receive(d)
        \/ Connect \/ StreamFails \/ ReadFrame
        \/ HttpsAnswers \/ HttpsFails \/ TimesOut
        \/ Retry \/ Conclude

Spec == Init /\ [][Next]_vars

-----------------------------------------------------------------------------
(* Properties. *)

TypeOf == DnsType[zone.kind]
Held == Wanted(zone.answers, Host, TypeOf)

\* Every value has its type. Through the retry a query keeps its id and its question,
\* and only a query that is over has a verdict.
TypeOK ==
    /\ query \in [id : {"ours"}, question : {Question(Host, TypeOf)}, edns : BOOLEAN]
    /\ sockets \in 0..Sockets
    /\ sockets > 0 => protocol = "udp"
    /\ conn.state \in {"closed", "idle", "pooled", "fresh"}
    /\ conn.state = "closed" => conn.frames = <<>>
    /\ due \in BOOLEAN
    /\ strays \in 0..MaxStrays /\ repeats \in 0..MaxRepeats
    /\ Cardinality(response) <= 1
    /\ result.kind \in {"pending", "error", "records", "nodata", "nxdomain", "follow"}

\* A verdict is what the nameserver holds, over every transport: all records of the
\* kind in their order and no others, none cached past its own TTL; an absence only
\* of what is absent, and that of records no longer than the SOA says; an alias only
\* where its chain is open. No stray, truncated or leftover message is mistaken for
\* the answer, in part or whole.
VerdictIsOwn ==
    /\ result.kind = "records" =>
           /\ zone.rcode = "NoError"
           /\ Len(result.records) = Len(Held)
           /\ \A i \in DOMAIN Held : /\ result.records[i].kind = zone.kind
                                   /\ result.records[i].data = Held[i].data
                                   /\ result.ttl <= Held[i].ttl
    /\ result.kind = "nodata" =>
           /\ zone.rcode = "NoError" /\ Held = <<>>
           /\ \A soa \in zone.soa : result.ttl <= soa.ttl /\ result.ttl <= soa.minimum
    /\ result.kind = "nxdomain" => zone.rcode = "NameError"
    /\ result.kind = "follow" =>
           /\ Held = <<>>
           /\ \E i \in DOMAIN zone.answers : /\ IsCname(zone.answers[i])
                                            /\ zone.answers[i].data = result.target

\* A nameserver that answers queries, if only those without EDNS, is never reported
\* as failed for what it, or anyone else, sent: an attempt fails by its timeout or
\* its transport. The exception is a rejection sent twice on one connection: the
\* second waits in the pool for the retry, which carries the same id.
HealthyIsHeard ==
    result.kind = "error" /\ server # "faulty" /\ repeats = 0 =>
        result.error \in {"Timeout", "Transport"}

\* What an HTTPS record offers reads as its zone means it: a root target is the name
\* that owns the record, also at the end of an alias chain; the protocols are those that
\* any of its parameters lists, in supports_http2 and supports_http3 too, and beside them
\* the default one, once, unless the record opts out; and a port is its own.
EndpointsReadBack ==
    result.kind = "records" /\ zone.kind = "Https" =>
        \A i \in DOMAIN result.records :
            LET r == result.records[i]
                data == Held[i].data
                params(key) == {p \in Range(data.params) : p.key = key}
                listed == UNION {Range(p.value) : p \in params("alpn")}
                protocols == EffectiveAlpn(r)
            IN /\ EffectiveTarget(r) = IF data.target = Root THEN Held[i].name ELSE data.target
               /\ Range(protocols) = IF data.priority = 0 THEN {}
                                     ELSE IF params("no-default-alpn") # {} THEN listed
                                     ELSE listed \cup {"http/1.1"}
               /\ "http/1.1" \notin listed =>
                      \A k, l \in DOMAIN protocols :
                          protocols[k] = "http/1.1" /\ protocols[l] = "http/1.1" => k = l
               /\ \A p \in {"h2", "h3"} : Supports(r, p) <=> data.priority # 0 /\ p \in listed
               /\ Port(r) = {} <=> params("port") = {}
               /\ Port(r) \subseteq {p.value : p \in params("port")}

\* negative_ttl says that on NODATA or NXDOMAIN the absence should be cached for no
\* longer than the response's SOA allows.
AbsenceWithinSoa ==
    result.kind \in {"nodata", "nxdomain"} =>
        \A soa \in zone.soa : result.ttl <= soa.ttl /\ result.ttl <= soa.minimum

=============================================================================
