---------------------------- MODULE TieredQuery ----------------------------
(***************************************************************************)
(* What the resolver promises about one DNS query sent to its nameservers, *)
(* whatever order and pace it chooses: a nameserver is asked at most once, *)
(* a fallback nameserver only when every primary one has failed, at most   *)
(* MaxConcurrent attempts run at once, the first answer ends the query and *)
(* an error is reported only when every nameserver has failed.             *)
(* Module Race is shown to implement this specification.                   *)
(***************************************************************************)
EXTENDS Integers, FiniteSets

CONSTANTS Query,           \* the queries, concurrent and independent
          NameserverCount, \* nameservers are 1 .. NameserverCount
          PrimaryCount,    \* the leading ones are the primary tier
          MaxConcurrent    \* cap on a query's attempts in flight

VARIABLES inflight, \* the nameservers being asked, for each query
          failed,   \* those that failed it
          outcome   \* "pending", "answer", "error" or "dropped"

vars == <<inflight, failed, outcome>>

Server == 1 .. NameserverCount
Primary == 1 .. PrimaryCount

Init == /\ inflight = [q \in Query |-> {}]
        /\ failed = [q \in Query |-> {}]
        /\ outcome = [q \in Query |-> "pending"]

\* s may be asked for a query whose failed and busy nameservers are given.
Eligible(s, lost, busy) ==
    /\ s \in Server \ (lost \cup busy)
    /\ Cardinality(busy) < MaxConcurrent
    /\ s \in Primary \/ Primary \subseteq lost

\* An attempt starts.
Dial(q, s) == /\ outcome[q] = "pending"
              /\ Eligible(s, failed[q], inflight[q])
              /\ inflight' = [inflight EXCEPT ![q] = @ \cup {s}]
              /\ UNCHANGED <<failed, outcome>>

\* An attempt fails and at most one other takes its place at once. The query
\* ends in an error with its last nameserver.
Fail(q, s) ==
    LET lost == failed[q] \cup {s}
        busy == inflight[q] \ {s}
    IN /\ outcome[q] = "pending"
       /\ s \in inflight[q]
       /\ failed' = [failed EXCEPT ![q] = lost]
       /\ \/ inflight' = [inflight EXCEPT ![q] = busy]
          \/ \E t \in Server : /\ Eligible(t, lost, busy)
                               /\ inflight' = [inflight EXCEPT ![q] = busy \cup {t}]
       /\ outcome' = [outcome EXCEPT ![q] = IF lost = Server THEN "error" ELSE @]

\* An attempt succeeds: the query is answered and the other attempts dropped.
Answer(q) == /\ outcome[q] = "pending"
             /\ inflight[q] # {}
             /\ inflight' = [inflight EXCEPT ![q] = {}]
             /\ outcome' = [outcome EXCEPT ![q] = "answer"]
             /\ UNCHANGED failed

\* There is no nameserver to ask.
Refuse(q) == /\ outcome[q] = "pending"
             /\ Server = {}
             /\ outcome' = [outcome EXCEPT ![q] = "error"]
             /\ UNCHANGED <<inflight, failed>>

\* The caller drops the lookup, and with it every attempt.
Drop(q) == /\ outcome[q] = "pending"
           /\ inflight' = [inflight EXCEPT ![q] = {}]
           /\ outcome' = [outcome EXCEPT ![q] = "dropped"]
           /\ UNCHANGED failed

Next == \E q \in Query : \/ \E s \in Server : Dial(q, s) \/ Fail(q, s)
                         \/ Answer(q)
                         \/ Refuse(q)
                         \/ Drop(q)

Spec == Init /\ [][Next]_vars

=============================================================================
