------------------------------ MODULE ConnPool ------------------------------
(***************************************************************************)
(* The pool of idle stream connections, the queries that check them out,   *)
(* and the background task that prunes it. tcp_query and tls_query are one *)
(* shape: a connection's key is the nameserver's address, or that and the  *)
(* server name it was validated for.                                       *)
(*                                                                         *)
(* The server is free to close a connection at any time and to send frames *)
(* nobody asked for. Transaction id and question do not tell two queries   *)
(* apart: the FORMERR retry of a request goes out under the id of its      *)
(* first attempt, the copies of one request to several nameservers share   *)
(* theirs, and 16 bits repeat.                                             *)
(* Time counts in units of which IDLE_TIMEOUT is several; a sleep ends on  *)
(* time.                                                                   *)
(***************************************************************************)
EXTENDS Integers, Sequences, SequencesExt, FiniteSets

CONSTANTS Query,         \* the calls of tcp_query and tls_query
          Accepts,       \* the calls whose answers carry an id and a question that a
                         \* call takes for its own
          Conn,          \* connections
          Key,           \* what connections are pooled under
          MaxIdlePerKey, \* MAX_IDLE_PER_KEY
          IdleTimeout,   \* IDLE_TIMEOUT
          PruneInterval, \* PRUNE_INTERVAL
          MaxFrames      \* bound on unread frames of a connection

ASSUME PoolAssumption == /\ MaxIdlePerKey \in Nat \ {0}
                         /\ IdleTimeout \in Nat \ {0}
                         /\ PruneInterval \in Nat \ {0}
                         /\ MaxFrames \in Nat \ {0}

VARIABLES idle,   \* Inner's maps: the idle connections of a key, oldest first
          conn,   \* each connection
          query,  \* each tcp_query or tls_query
          pruner, \* prune_loop: when it wakes
          pool    \* whether the pool still exists

vars == <<idle, conn, query, pruner, pool>>

\* A connection's owed are the queries written to it and not yet answered, frames the
\* answers not read, each named for its query, and stray whether the server ever sent
\* a frame that nothing had asked for (a history variable).
Closed == [state |-> "closed"]
Opened(k) == [state |-> "open", key |-> k, owed |-> {}, frames |-> <<>>, stray |-> FALSE]

\* A query's pc is "pooled" or "fresh" while framed_query runs on such a connection.
Unused == [pc |-> "unused"]

Init == /\ idle = [k \in Key |-> <<>>]
        /\ conn = [c \in Conn |-> Closed]
        /\ query = [q \in Query |-> Unused]
        /\ pruner = [pc |-> "unborn"]
        /\ pool = "alive"

InFlight(q) == query[q].pc \in {"pooled", "dialing", "fresh"}
Framing(q) == query[q].pc \in {"pooled", "fresh"}
IsStale(entry) == entry.age >= IdleTimeout
Closing(cs) == [c \in Conn |-> IF c \in cs THEN Closed ELSE conn[c]]
Writing(cs, c, q) == [cs EXCEPT ![c].owed = @ \cup {q}]

-----------------------------------------------------------------------------
(* The pool. *)

FreshAt(entries) == {i \in DOMAIN entries : ~IsStale(entries[i])}

\* take_fresh: where the most recently returned fresh connection is, or 0.
Taken(k) == IF FreshAt(idle[k]) = {} THEN 0 ELSE Max(FreshAt(idle[k]))

\* The connections take_fresh pops and discards on the way to it.
Discarded(k) == {idle[k][i].conn : i \in {j \in DOMAIN idle[k] : j > Taken(k)}}

\* Mutant: the connection taken stays in the pool.
CheckoutPeeked(q, k) ==
    LET i == Taken(k)
    IN /\ query[q].pc = "unused"
       /\ pool = "alive"
       /\ idle' = [idle EXCEPT ![k] = SubSeq(@, 1, i)]
       /\ IF i = 0
          THEN /\ query' = [query EXCEPT ![q] = [pc |-> "dialing", key |-> k, dials |-> 0]]
               /\ conn' = Closing(Discarded(k))
          ELSE LET c == idle[k][i].conn
               IN /\ query' = [query EXCEPT ![q] = [pc |-> "pooled", key |-> k, dials |-> 0,
                                                        conn |-> c]]
                  /\ conn' = Writing(Closing(Discarded(k)), c, q)
       /\ UNCHANGED <<pruner, pool>>

\* A pooled connection is taken and the query written to it, or a new one is dialed.
Checkout(q, k) ==
    LET i == Taken(k)
    IN /\ query[q].pc = "unused"
       /\ pool = "alive"
       /\ idle' = [idle EXCEPT ![k] = SubSeq(@, 1, i - 1)]
       /\ IF i = 0
          THEN /\ query' = [query EXCEPT ![q] = [pc |-> "dialing", key |-> k, dials |-> 0]]
               /\ conn' = Closing(Discarded(k))
          ELSE LET c == idle[k][i].conn
               IN /\ query' = [query EXCEPT ![q] = [pc |-> "pooled", key |-> k, dials |-> 0,
                                                        conn |-> c]]
                  /\ conn' = Writing(Closing(Discarded(k)), c, q)
       /\ UNCHANGED <<pruner, pool>>

\* Mutant: the cap is off by one.
OverfullByOne(k) == Len(idle[k]) > MaxIdlePerKey

\* push_capped: with the connection pushed, the key holds more than its cap.
Overfull(k) == Len(idle[k]) + 1 > MaxIdlePerKey

\* answers_query: the frame has the query's id and echoes its question, or has its id
\* and echoes none.
Matches(frame, q) == frame \in Accepts[q]

\* A frame that matches is read as the answer and the connection returned; the first
\* return starts the pruning task.
ReadAnswer(q) ==
    LET c == query[q].conn
        k == query[q].key
        grown == Append(idle[k], [conn |-> c, age |-> 0])
        read == [conn EXCEPT ![c].frames = Tail(@)]
    IN /\ Framing(q)
       /\ conn[c].frames # <<>>
       /\ Matches(Head(conn[c].frames), q)
       /\ idle' = [idle EXCEPT ![k] = IF Overfull(k) THEN Tail(grown) ELSE grown]
       /\ conn' = IF Overfull(k) THEN [read EXCEPT ![Head(grown).conn] = Closed] ELSE read
       /\ pruner' = IF pruner.pc = "unborn" THEN [pc |-> "asleep", left |-> PruneInterval]
                    ELSE pruner
       /\ query' = [query EXCEPT ![q] = [pc |-> "answered", frame |-> Head(conn[c].frames),
                                                stray |-> conn[c].stray]]
       /\ UNCHANGED pool

\* Mutant: the error of a pooled connection is the query's.
AfterFailureAtOnce(q) == [pc |-> "failed", dials |-> query[q].dials]

\* A pooled connection that fails is replaced once by a fresh one; a fresh one
\* fails the query.
AfterFailure(q) ==
    IF query[q].pc = "pooled" THEN [pc |-> "dialing", key |-> query[q].key, dials |-> 0]
    ELSE [pc |-> "failed", dials |-> query[q].dials]

\* A frame that does not answer the query, or a closed connection, drops it.
ReadFails(q) ==
    LET c == query[q].conn
    IN /\ Framing(q)
       /\ \/ conn[c].state = "reset"
          \/ conn[c].frames # <<>> /\ ~Matches(Head(conn[c].frames), q)
       /\ conn' = Closing({c})
       /\ query' = [query EXCEPT ![q] = AfterFailure(q)]
       /\ UNCHANGED <<idle, pruner, pool>>

DialSucceeds(q, c) ==
    /\ query[q].pc = "dialing"
    /\ conn[c].state = "closed"
    /\ conn' = [conn EXCEPT ![c] = [Opened(query[q].key) EXCEPT !.owed = {q}]]
    /\ query' = [query EXCEPT ![q] = [pc |-> "fresh", key |-> @.key, dials |-> 1, conn |-> c]]
    /\ UNCHANGED <<idle, pruner, pool>>

DialFails(q) ==
    /\ query[q].pc = "dialing"
    /\ query' = [query EXCEPT ![q] = [pc |-> "failed", dials |-> 1]]
    /\ UNCHANGED <<idle, conn, pruner, pool>>

\* Mutant: a query that is dropped hands its connection back to the pool.
CancelReturns(q) ==
    LET k == query[q].key
    IN /\ InFlight(q)
       /\ Framing(q) => ~Overfull(k)
       /\ idle' = IF Framing(q)
                   THEN [idle EXCEPT ![k] = Append(@, [conn |-> query[q].conn, age |-> 0])]
                   ELSE idle
       /\ query' = [query EXCEPT ![q] = [pc |-> "dropped"]]
       /\ UNCHANGED <<conn, pruner, pool>>

\* STREAM_TIMEOUT passes or the race is over: the query is dropped where it stands,
\* and its connection with it.
Cancel(q) ==
    /\ InFlight(q)
    /\ conn' = IF Framing(q) THEN Closing({query[q].conn}) ELSE conn
    /\ query' = [query EXCEPT ![q] = [pc |-> "dropped"]]
    /\ UNCHANGED <<idle, pruner, pool>>

-----------------------------------------------------------------------------
(* The pruning task, the clock, and the owner of the pool. *)

Conns(entries) == {e.conn : e \in Range(entries)}

\* The n-th smallest of a set of numbers.
Rank(S, i) == Cardinality({j \in S : j <= i})
Nth(S, n) == CHOOSE i \in S : Rank(S, i) = n

\* What retain leaves: the fresh entries, in their order.
Kept(entries) == [n \in 1..Cardinality(FreshAt(entries)) |->
                     entries[Nth(FreshAt(entries), n)]]

\* Mutant: the task returns after its first sweep.
WakeOnce ==
    /\ pruner.pc = "asleep"
    /\ pruner.left = 0
    /\ pool = "alive"
    /\ idle' = [k \in Key |-> Kept(idle[k])]
    /\ conn' = Closing(UNION {Conns(idle[k]) \ Conns(Kept(idle[k])) : k \in Key})
    /\ pruner' = [pc |-> "gone"]
    /\ UNCHANGED <<query, pool>>

\* Mutant: the task keeps the pool's memory and never ends.
WakeForever ==
    /\ pruner.pc = "asleep"
    /\ pruner.left = 0
    /\ idle' = [k \in Key |-> Kept(idle[k])]
    /\ conn' = Closing(UNION {Conns(idle[k]) \ Conns(Kept(idle[k])) : k \in Key})
    /\ pruner' = [pc |-> "asleep", left |-> PruneInterval]
    /\ UNCHANGED <<query, pool>>

\* The task wakes: stale connections are dropped, or the task ends with its pool.
Wake ==
    /\ pruner.pc = "asleep"
    /\ pruner.left = 0
    /\ IF pool = "alive"
       THEN /\ idle' = [k \in Key |-> Kept(idle[k])]
            /\ conn' = Closing(UNION {Conns(idle[k]) \ Conns(Kept(idle[k])) : k \in Key})
            /\ pruner' = [pc |-> "asleep", left |-> PruneInterval]
       ELSE /\ pruner' = [pc |-> "gone"]
            /\ UNCHANGED <<idle, conn>>
    /\ UNCHANGED <<query, pool>>

\* A sleep that is over ends before time goes on.
Tick ==
    /\ pruner.pc = "asleep" => pruner.left > 0
    /\ pruner' = IF pruner.pc = "asleep" THEN [pruner EXCEPT !.left = @ - 1] ELSE pruner
    /\ idle' = [k \in Key |-> [i \in DOMAIN idle[k] |-> [idle[k][i] EXCEPT !.age = @ + 1]]]
    /\ UNCHANGED <<conn, query, pool>>

\* The last resolver that shares the pool is dropped, with no query borrowing it.
DropPool ==
    /\ pool = "alive"
    /\ \A q \in Query : ~InFlight(q)
    /\ pool' = "dropped"
    /\ idle' = [k \in Key |-> <<>>]
    /\ conn' = Closing(UNION {Conns(idle[k]) : k \in Key})
    /\ UNCHANGED <<query, pruner>>

-----------------------------------------------------------------------------
(* The server. *)

\* It answers a query written to the connection.
Answers(c) ==
    /\ conn[c].state = "open"
    /\ Len(conn[c].frames) < MaxFrames
    /\ \E q \in conn[c].owed :
          conn' = [conn EXCEPT ![c].frames = Append(@, q), ![c].owed = @ \ {q}]
    /\ UNCHANGED <<idle, query, pruner, pool>>

\* It sends a frame that answers nothing it owes an answer to: a second answer, or one
\* to a query of another connection.
Strays(c) ==
    /\ conn[c].state = "open"
    /\ Len(conn[c].frames) < MaxFrames
    /\ \E q \in Query \ conn[c].owed :
          conn' = [conn EXCEPT ![c].frames = Append(@, q), ![c].stray = TRUE]
    /\ UNCHANGED <<idle, query, pruner, pool>>

\* An idle server or a middlebox resets the connection.
Resets(c) ==
    /\ conn[c].state = "open"
    /\ conn' = [conn EXCEPT ![c].state = "reset"]
    /\ UNCHANGED <<idle, query, pruner, pool>>

Run(q) == \/ \E k \in Key : Checkout(q, k)
          \/ ReadAnswer(q) \/ ReadFails(q)
          \/ \E c \in Conn : DialSucceeds(q, c)
          \/ DialFails(q) \/ Cancel(q)

Next == \/ \E q \in Query : Run(q)
        \/ \E c \in Conn : Answers(c) \/ Strays(c) \/ Resets(c)
        \/ Wake \/ Tick \/ DropPool

Spec == Init /\ [][Next]_vars

-----------------------------------------------------------------------------
(* Properties. *)

\* Every value has its type: in particular a key holds at most MaxIdlePerKey idle
\* connections.
TypeOK ==
    /\ \A k \in Key : /\ Len(idle[k]) <= MaxIdlePerKey
                      /\ Range(idle[k]) \subseteq [conn : Conn, age : Nat]
    /\ conn \in [Conn -> {Closed} \cup [state : {"open", "reset"}, key : Key,
                                       owed : SUBSET Query, frames : Seq(Query),
                                       stray : BOOLEAN]]
    /\ \A q \in Query : /\ query[q].pc \in {"unused", "pooled", "dialing", "fresh",
                                              "answered", "failed", "dropped"}
                        /\ Framing(q) => query[q].conn \in Conn
                        /\ InFlight(q) => query[q].key \in Key
    /\ pruner \in [pc : {"unborn", "gone"}] \cup [pc : {"asleep"}, left : 0..PruneInterval]
    /\ pool \in {"alive", "dropped"}

\* Where a connection is: at a place of a key's idle list, or in a query's hands.
Places(c) == {p \in Key \X (1..MaxIdlePerKey) :
                  p[2] \in DOMAIN idle[p[1]] /\ idle[p[1]][p[2]].conn = c}
Holders(c) == {q \in Query : Framing(q) /\ query[q].conn = c}

\* An open connection is in exactly one place, pooled or held by one query, always
\* under the key it was made for; a closed one is nowhere. So no connection carries
\* two queries at once, serves a name it was not validated for, or leaks.
Custody ==
    \A c \in Conn :
        /\ conn[c].state = "closed" => Places(c) = {} /\ Holders(c) = {}
        /\ conn[c].state # "closed" =>
              /\ Cardinality(Places(c)) + Cardinality(Holders(c)) = 1
              /\ \A place \in Places(c) : place[1] = conn[c].key
              /\ \A q \in Holders(c) : query[q].key = conn[c].key

\* A query ends with the answer to itself, also when others carry the same id: only a
\* server that sent a frame nobody asked for on that very connection can make the
\* answer another's, and then one to the same question under the same id. So neither a
\* query that was dropped, nor one that failed, nor a retry leaves an answer behind for
\* the next user of its connection.
AnswerIsOwn ==
    \A q \in Query : query[q].pc = "answered" =>
        \/ query[q].frame = q
        \/ query[q].stray /\ Matches(query[q].frame, q)

\* What the pool held never fails a query: one that fails has dialed once.
FailsOnlyFresh == \A q \in Query : query[q].pc = "failed" => query[q].dials = 1

\* No connection stays idle in the pool for the idle timeout and a pruning interval,
\* whether or not its nameserver is queried again.
BoundedIdle == \A k \in Key : \A e \in Range(idle[k]) : e.age < IdleTimeout + PruneInterval

\* The pruning task does not outlive its pool for long: once the pool is dropped, at
\* whatever point of its sleep, it never sleeps anew, and each step that moves it
\* brings it nearer its end.
PrunerEnds ==
    [][pool = "dropped" /\ pruner' # pruner
          => pruner'.pc = "gone" \/ pruner'.left < pruner.left]_vars

=============================================================================
