-------------------------- MODULE NameserverQuery --------------------------
(***************************************************************************)
(* One attempt at one UDP nameserver: query_nameserver and, inside it,     *)
(* udp_query under the timeout query_nameserver_once puts on it. Datagrams *)
(* are sent at growing intervals, all left outstanding, and a TCP query    *)
(* joins them after a delay, or earlier when a response is truncated or    *)
(* every datagram was refused. A nameserver that rejects the EDNS record   *)
(* is asked once more without it.                                          *)
(*                                                                         *)
(* Time is discrete, one unit being UDP_RETRANSMIT_MIN (300ms). A timer is *)
(* the instant it is due, or Off; time does not pass a timer that is due.  *)
(***************************************************************************)
EXTENDS Integers

CONSTANTS Datagrams, \* UDP_DATAGRAMS
          Paced,     \* UDP_PACED_DATAGRAMS
          JoinDelay, \* TCP_JOIN_DELAY
          Timeout,   \* UDP_NAMESERVER_TIMEOUT
          Intervals  \* what retransmit_interval may return

ASSUME NameserverAssumption ==
    /\ {Datagrams, Paced, JoinDelay, Timeout} \subseteq Nat \ {0}
    /\ Intervals \subseteq Nat \ {0}

VARIABLES now,        \* time since query_nameserver was called
          retransmit, \* the interval it was called with
          edns,       \* the query carries an OPT record
          result,     \* "pending", or what it returned
          \* The udp_query that runs:
          start,      \* when it was called
          sendsLeft,  \* sends_left
          flying,     \* datagrams.len(): those outstanding
          interval,   \* time from one datagram to the next
          nextSend,   \* timer: the next datagram
          tcpDue,     \* timer: the TCP query joins
          tcp,        \* a TCP query is running
          lastErr,    \* last_err is set
          \* History, for the properties only:
          refused,    \* datagrams that ended in an error
          truncated,  \* a truncated response came back
          tcpTries    \* TCP queries started

loopVars == <<sendsLeft, flying, interval, nextSend, tcpDue, tcp, lastErr>>
history == <<refused, truncated, tcpTries>>
vars == <<now, retransmit, edns, result, start, loopVars, history>>

Off == -1
IsOn(timer) == timer # Off
Due(timer) == IsOn(timer) /\ timer <= now

\* What comes back: "formErr" is an answer with rcode FORMERR.
Answers == {"answer", "formErr"}
Results == Answers \cup {"error", "noResponse", "timeout"}

-----------------------------------------------------------------------------
(* The head of the loop, on its local variables: send a datagram if one is *)
(* released, and bring TCP forward if UDP is exhausted.                    *)

Locals == [sendsLeft |-> sendsLeft, flying |-> flying, interval |-> interval,
           nextSend |-> nextSend, tcpDue |-> tcpDue]

\* The interval doubles once the paced run has gone out.
Stretched(l) == IF Datagrams - (l.sendsLeft - 1) >= Paced THEN 2 * l.interval
                                                          ELSE l.interval

Send(l, t) ==
    IF l.sendsLeft > 1
    THEN [l EXCEPT !.sendsLeft = @ - 1, !.flying = @ + 1,
                   !.interval = Stretched(l), !.nextSend = t + Stretched(l)]
    ELSE [l EXCEPT !.sendsLeft = 0, !.flying = @ + 1, !.nextSend = Off]

Hurry(l, t) == IF l.flying = 0 /\ l.sendsLeft = 0 /\ IsOn(l.tcpDue)
               THEN [l EXCEPT !.tcpDue = t]
               ELSE l

LoopHead(l, t, sendDue) == Hurry(IF sendDue /\ l.sendsLeft > 0 THEN Send(l, t) ELSE l, t)

\* Mutant: the pending join is forgotten.
StuckWithoutTcp(l, running) == l.flying = 0 /\ ~running /\ ~IsOn(l.nextSend)

\* No branch of select is enabled: nothing in flight, nothing left to start.
Stuck(l, running) == l.flying = 0 /\ ~running /\ ~IsOn(l.nextSend) /\ ~IsOn(l.tcpDue)

\* Mutant: the join delay follows the measured interval.
OpenedMeasured(i, t) ==
    LoopHead([sendsLeft |-> Datagrams, flying |-> 0, interval |-> i,
              nextSend |-> Off, tcpDue |-> t + Paced * i], t, TRUE)

\* udp_query's locals when it is called at time t, its first datagram sent.
Opened(i, t) ==
    LoopHead([sendsLeft |-> Datagrams, flying |-> 0, interval |-> i,
              nextSend |-> Off, tcpDue |-> t + JoinDelay], t, TRUE)

Init == /\ now = 0
        /\ retransmit \in Intervals
        /\ edns = TRUE
        /\ result = "pending"
        /\ start = 0
        /\ LET l == Opened(retransmit, 0)
           IN /\ sendsLeft = l.sendsLeft
              /\ flying = l.flying
              /\ interval = l.interval
              /\ nextSend = l.nextSend
              /\ tcpDue = l.tcpDue
        /\ tcp = FALSE
        /\ lastErr = FALSE
        /\ refused = 0
        /\ truncated = FALSE
        /\ tcpTries = 0

-----------------------------------------------------------------------------
(* The branches of select. *)

\* The loop goes on to its next select with locals l, or returns if nothing can
\* happen there.
Resume(l, running, err, sendDue) ==
    LET h == LoopHead(l, now, sendDue)
    IN /\ sendsLeft' = h.sendsLeft
       /\ flying' = h.flying
       /\ interval' = h.interval
       /\ nextSend' = h.nextSend
       /\ tcpDue' = h.tcpDue
       /\ tcp' = running
       /\ lastErr' = err
       /\ result' = IF ~Stuck(h, running) THEN "pending"
                    ELSE IF err THEN "error" ELSE "noResponse"
       /\ UNCHANGED <<now, retransmit, edns, start>>

\* udp_query returns r. Its datagrams and its TCP query are dropped.
Return(r) == /\ result' = r
             /\ flying' = 0
             /\ tcp' = FALSE
             /\ nextSend' = Off
             /\ tcpDue' = Off
             /\ UNCHANGED <<now, retransmit, edns, start, sendsLeft, interval, lastErr,
                            history>>

\* query_nameserver calls udp_query again, without the OPT record.
Retry == LET l == Opened(retransmit, now)
         IN /\ edns' = FALSE
            /\ start' = now
            /\ sendsLeft' = l.sendsLeft
            /\ flying' = l.flying
            /\ interval' = l.interval
            /\ nextSend' = l.nextSend
            /\ tcpDue' = l.tcpDue
            /\ tcp' = FALSE
            /\ lastErr' = FALSE
            /\ refused' = 0
            /\ truncated' = FALSE
            /\ tcpTries' = 0
            /\ UNCHANGED <<now, retransmit, result>>

Answered(a) == IF a = "formErr" /\ edns THEN Retry ELSE Return(a)

DatagramAnswers == /\ result = "pending"
                   /\ flying > 0
                   /\ \E a \in Answers : Answered(a)

\* Mutant: one datagram is taken off the rest instead of all.
AfterTruncationCounting(l) == [l EXCEPT !.flying = @ - 1, !.sendsLeft = @ - 1,
                                        !.tcpDue = IF tcp THEN @ ELSE now]

\* No more datagrams, and TCP at once unless it runs already.
AfterTruncation(l) == [l EXCEPT !.flying = @ - 1, !.sendsLeft = 0, !.nextSend = Off,
                                !.tcpDue = IF tcp THEN @ ELSE now]

DatagramTruncated == /\ result = "pending"
                     /\ flying > 0
                     /\ Resume(AfterTruncation(Locals), tcp, lastErr, FALSE)
                     /\ truncated' = TRUE
                     /\ UNCHANGED <<refused, tcpTries>>

\* A socket error, an ICMP refusal: the datagram is replaced at once.
DatagramFails == /\ result = "pending"
                 /\ flying > 0
                 /\ Resume([Locals EXCEPT !.flying = @ - 1], tcp, TRUE, TRUE)
                 /\ refused' = refused + 1
                 /\ UNCHANGED <<truncated, tcpTries>>

TcpAnswers == /\ result = "pending"
              /\ tcp
              /\ \E a \in Answers : Answered(a)

\* Mutant: a wakeup from the TCP side spends a datagram.
TcpFailsSending == /\ result = "pending"
                   /\ tcp
                   /\ Resume(Locals, FALSE, TRUE, TRUE)
                   /\ UNCHANGED history

TcpFails == /\ result = "pending"
            /\ tcp
            /\ Resume(Locals, FALSE, TRUE, FALSE)
            /\ UNCHANGED history

SendTimer == /\ result = "pending"
             /\ Due(nextSend)
             /\ Resume([Locals EXCEPT !.nextSend = Off], tcp, lastErr, TRUE)
             /\ UNCHANGED history

\* The select is biased: a datagram that is due goes out first.
JoinTimer == /\ result = "pending"
             /\ ~Due(nextSend)
             /\ Due(tcpDue)
             /\ Resume([Locals EXCEPT !.tcpDue = Off], TRUE, lastErr, FALSE)
             /\ tcpTries' = tcpTries + 1
             /\ UNCHANGED <<refused, truncated>>

\* Mutant: the timeout is only looked at after the deadline.
TimesOutLate == /\ result = "pending"
                /\ now > start + Timeout
                /\ Return("timeout")

TimesOut == /\ result = "pending"
            /\ now = start + Timeout
            /\ Return("timeout")

Tick == /\ result = "pending"
        /\ now < start + Timeout
        /\ ~Due(nextSend)
        /\ ~Due(tcpDue)
        /\ now' = now + 1
        /\ UNCHANGED <<retransmit, edns, result, start, loopVars, history>>

Next == \/ DatagramAnswers \/ DatagramTruncated \/ DatagramFails
        \/ TcpAnswers \/ TcpFails
        \/ SendTimer \/ JoinTimer \/ TimesOut
        \/ Tick

Spec == Init /\ [][Next]_vars

\* Time passes and timers fire. Nothing makes a nameserver answer or fail.
Fairness == WF_vars(Tick) /\ WF_vars(SendTimer) /\ WF_vars(JoinTimer) /\ WF_vars(TimesOut)

FairSpec == Spec /\ Fairness

-----------------------------------------------------------------------------
(* Properties. *)

Timer == Nat \cup {Off}

\* Every variable has its type, the counts within their bounds.
TypeOK == /\ now \in Nat
          /\ retransmit \in Intervals
          /\ edns \in BOOLEAN
          /\ result \in Results \cup {"pending"}
          /\ start \in 0 .. now
          /\ sendsLeft \in 0 .. Datagrams - 1
          /\ flying \in 0 .. Datagrams
          /\ interval \in Nat \ {0}
          /\ nextSend \in Timer
          /\ tcpDue \in Timer
          /\ tcp \in BOOLEAN
          /\ lastErr \in BOOLEAN
          /\ refused \in 0 .. Datagrams
          /\ truncated \in BOOLEAN
          /\ tcpTries \in Nat

\* udp_query gives a nameserver up before its timeout only when each datagram came
\* back refused, or one truncated, and TCP was tried too. It then names a cause: the
\* NoResponse it falls back to is never used.
GivesUpAfterTcp ==
    /\ result # "noResponse"
    /\ result = "error" => /\ tcpTries > 0
                           /\ truncated \/ refused = Datagrams

\* TCP is there by the time it is needed: after TCP_JOIN_DELAY unanswered, whatever
\* the interval measured for this nameserver is; at once after a truncated response;
\* and at once when no datagram is outstanding or left to send, so that a server
\* that refuses UDP does not cost the rest of the delay. It is not there earlier: a
\* link that merely loses datagrams does not pay for a connection. And a TCP query
\* that runs is never replaced by a second one: no timer that would start it is set
\* meanwhile, whichever of truncation, refusal and delay came first.
TcpJoinsOnTime ==
    /\ result = "pending" =>
          /\ truncated \/ now >= start + JoinDelay => tcpTries > 0 \/ Due(tcpDue)
          /\ flying = 0 /\ sendsLeft = 0 => tcp \/ Due(tcpDue)
    /\ tcpTries > 0 /\ now < start + JoinDelay => truncated \/ refused = Datagrams
    /\ tcp => ~IsOn(tcpDue)

\* When the k-th datagram goes out if none is refused.
SendTime(k) == IF k <= Paced THEN (k - 1) * retransmit
               ELSE (Paced - 1) * retransmit + (2^(k - Paced + 1) - 2) * retransmit

\* Only the pacing or a refused datagram releases a datagram: apart from the
\* replacements, no more have gone out than the schedule has at this time.
PacedSends ==
    result = "pending" /\ ~truncated =>
        LET sent == Datagrams - sendsLeft
        IN sent - refused <= 1 \/ start + SendTime(sent - refused) <= now

\* query_nameserver returns, and holds its place in the race for at most two
\* timeouts, its own and that of the retry without EDNS, whenever and however often
\* the nameserver answers FORMERR.
Returns == <>(result # "pending" /\ now <= 2 * Timeout)

=============================================================================
