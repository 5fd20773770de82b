------------------------------ MODULE Message ------------------------------
(***************************************************************************)
(* Queries and responses as the resolver builds and judges them. A         *)
(* response is [id, qr, rcode, tc, form, questions, answers, soa]: "short" *)
(* is no whole header, "garbled" has one and does not parse, and soa is    *)
(* the set of the [ttl, minimum] in its authority section.                 *)
(***************************************************************************)
EXTENDS Answers

CONSTANTS NegativeTtlSecs, \* NEGATIVE_TTL_SECS, without an SOA
          NegativeMax      \* Builder::negative_max_ttl within its cap: 0 when unset

ASSUME MessageAssumption == {NegativeTtlSecs, NegativeMax} \subseteq Nat

Question(n, type) == [name |-> n, type |-> type, class |-> "IN"]

\* Mutant: the query without EDNS is a new one.
StripEdnsAnew(query) == [query EXCEPT !.edns = FALSE, !.id = "other"]

\* build_query and strip_edns
BuildQuery(id, n, type) == [id |-> id, question |-> Question(n, type), edns |-> TRUE]
StripEdns(query) == [query EXCEPT !.edns = FALSE]

HasHeader(resp) == resp.form # "short"

\* parse_packet
Parses(resp) == resp.form = "whole"

\* is_truncated, is_format_error and retryable_failure_rcode
IsTruncated(resp) == HasHeader(resp) /\ resp.tc
IsFormatError(resp) == HasHeader(resp) /\ resp.rcode = "FormatError"
IsRetryable(resp) == /\ HasHeader(resp)
                     /\ resp.rcode \in {"ServerFailure", "Refused", "FormatError"}

SameQuestion(got, want) == /\ NamesEqual(got.name, want.name)
                           /\ got.type = want.type
                           /\ got.class = want.class

\* Mutant: the question is left to check_response.
AnswersQueryById(resp, query) == resp.id = query.id /\ resp.qr

\* answers_query: what does not parse is taken once it carries the id.
AnswersQuery(resp, query) ==
    /\ resp.id = query.id
    /\ resp.qr
    /\ \/ ~Parses(resp)
       \/ resp.questions = <<>> /\ resp.rcode = "FormatError"
       \/ /\ Len(resp.questions) = 1
          /\ SameQuestion(Head(resp.questions), query.question)

\* check_response
CheckResponse(resp, query) ==
    IF \/ ~resp.qr
       \/ resp.id # query.id
       \/ Len(resp.questions) # 1
       \/ ~SameQuestion(Head(resp.questions), query.question) THEN "Unexpected"
    ELSE IF resp.rcode = "NoError" THEN "ok"
    ELSE IF resp.rcode = "NameError" THEN "NxDomain"
    ELSE "ServerFailure"

\* From<QueryError> for Error, with response_code. Names that cannot be built into a
\* query are not modelled here.
ErrorOf(failure, rcode) ==
    IF failure \in {"Malformed", "Unexpected"} THEN [kind |-> "error", error |-> "InvalidResponse"]
    ELSE IF failure = "NxDomain" THEN [kind |-> "error", error |-> "NxDomain"]
    ELSE [kind |-> "error", error |-> "ServerError",
          code |-> IF rcode \in {"ServerFailure", "Refused", "FormatError", "NotImplemented"}
                   THEN rcode ELSE "Other"]

\* negative_ttl: of the SOA in the response, the lesser of its TTL and its minimum.
NegativeTtl(resp) ==
    {IF soa.ttl < soa.minimum THEN soa.ttl ELSE soa.minimum : soa \in resp.soa}

\* negative_cache_ttl_secs
NegativeCacheTtl(ttls) ==
    LET ttl == IF ttls = {} THEN NegativeTtlSecs ELSE CHOOSE t \in ttls : TRUE
    IN IF ttl < NegativeMax THEN ttl ELSE NegativeMax

=============================================================================
