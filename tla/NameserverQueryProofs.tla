----------------------- MODULE NameserverQueryProofs -----------------------
(***************************************************************************)
(* Proofs about NameserverQuery, for any number of datagrams, any pacing,  *)
(* delay and timeout and any intervals: Inv is inductive, PaceOK is        *)
(* inductive beside it, and the safety invariants follow from the two.     *)
(***************************************************************************)
EXTENDS NameserverQuery, FiniteSetTheorems, TLAPS

-----------------------------------------------------------------------------
(* The invariant. *)

\* Each datagram that was sent is outstanding or refused, unless one was truncated;
\* while some are left to send the timer for the next is set, and no longer.
DatagramsOK ==
    /\ flying + refused <= Datagrams - sendsLeft
    /\ truncated \/ flying + refused = Datagrams - sendsLeft
    /\ truncated => sendsLeft = 0
    /\ IsOn(nextSend) <=> sendsLeft > 0

\* Until TCP was tried its timer is set, no later than the delay, nor before it
\* without a cause; it is due when nothing else can happen; and it is off while TCP
\* runs.
TcpOK ==
    /\ tcpTries = 0 => IsOn(tcpDue) /\ tcpDue <= start + JoinDelay
    /\ IsOn(tcpDue) => /\ now <= tcpDue
                       /\ tcpDue = start + JoinDelay \/ truncated \/ refused = Datagrams
    /\ truncated => tcpTries > 0 \/ Due(tcpDue)
    /\ flying = 0 /\ sendsLeft = 0 => tcp \/ Due(tcpDue)
    /\ tcp => tcpTries > 0 /\ ~IsOn(tcpDue)

\* What failed is remembered in last_err.
ErrorsOK == /\ refused > 0 => lastErr
            /\ tcpTries > 0 /\ ~tcp => lastErr

\* TCP was started early for a cause only.
EarlyOK == tcpTries > 0 /\ now < start + JoinDelay => truncated \/ refused = Datagrams

Inv == /\ TypeOK
       /\ GivesUpAfterTcp
       /\ EarlyOK
       /\ tcp => ~IsOn(tcpDue)
       /\ result = "pending" => DatagramsOK /\ TcpOK /\ ErrorsOK

-----------------------------------------------------------------------------
(* The head of the loop. *)

\* What NameserverAssumption says of each constant.
LEMMA Constants == /\ Datagrams \in Nat \ {0}
                   /\ Paced \in Nat \ {0}
                   /\ JoinDelay \in Nat \ {0}
                   /\ Timeout \in Nat \ {0}
                   /\ Intervals \subseteq Nat \ {0}
    BY NameserverAssumption

LoopLocals == [sendsLeft : Nat, flying : Nat, interval : Nat \ {0}, nextSend : Timer,
               tcpDue : Timer]

\* A datagram that is released goes out, and sets the timer for the next if one is left.
LEMMA SendFields ==
    ASSUME NEW l \in LoopLocals, NEW t \in Nat, l.sendsLeft > 0
    PROVE  /\ Send(l, t) \in LoopLocals
           /\ Send(l, t).sendsLeft = l.sendsLeft - 1
           /\ Send(l, t).flying = l.flying + 1
           /\ IsOn(Send(l, t).nextSend) <=> l.sendsLeft > 1
           /\ Send(l, t).tcpDue = l.tcpDue
<1>1. Stretched(l) \in Nat \ {0}
    BY Constants DEF Stretched, LoopLocals
<1>2. CASE l.sendsLeft > 1
  <2>1. Send(l, t) = [l EXCEPT !.sendsLeft = l.sendsLeft - 1, !.flying = l.flying + 1,
                               !.interval = Stretched(l), !.nextSend = t + Stretched(l)]
      BY <1>2 DEF Send, LoopLocals
  <2>2. /\ l.sendsLeft - 1 \in Nat
        /\ l.flying + 1 \in Nat
        /\ t + Stretched(l) \in Nat
      BY <1>1, <1>2 DEF LoopLocals
  <2>3. Send(l, t) \in LoopLocals
      BY <1>1, <2>1, <2>2 DEF LoopLocals, Timer
  <2> QED
      BY <1>2, <2>1, <2>2, <2>3 DEF LoopLocals, IsOn, Off
<1>3. CASE l.sendsLeft = 1
  <2>1. Send(l, t) = [l EXCEPT !.sendsLeft = 0, !.flying = l.flying + 1, !.nextSend = Off]
      BY <1>3 DEF Send, LoopLocals
  <2>2. l.flying + 1 \in Nat /\ Off \in Timer
      BY DEF LoopLocals, Timer
  <2>4. Send(l, t) = [sendsLeft |-> 0, flying |-> l.flying + 1, interval |-> l.interval,
                      nextSend |-> Off, tcpDue |-> l.tcpDue]
      BY <2>1 DEF LoopLocals
  <2>3. Send(l, t) \in LoopLocals
      BY <2>2, <2>4 DEF LoopLocals
  <2> QED
      BY <1>3, <2>1, <2>2, <2>3 DEF LoopLocals, IsOn
<1> QED
  <2>1. l.sendsLeft > 1 \/ l.sendsLeft = 1
      BY DEF LoopLocals
  <2> QED
      BY <1>2, <1>3, <2>1

\* TCP is brought forward when nothing of UDP is left, and nothing else changes.
LEMMA HurryFields ==
    ASSUME NEW l \in LoopLocals, NEW t \in Nat
    PROVE  /\ Hurry(l, t) \in LoopLocals
           /\ Hurry(l, t).sendsLeft = l.sendsLeft
           /\ Hurry(l, t).flying = l.flying
           /\ Hurry(l, t).interval = l.interval
           /\ Hurry(l, t).nextSend = l.nextSend
           /\ Hurry(l, t).tcpDue = IF l.flying = 0 /\ l.sendsLeft = 0 /\ IsOn(l.tcpDue)
                                   THEN t ELSE l.tcpDue
    BY DEF Hurry, LoopLocals, Timer

\* sent is how many datagrams the head of the loop sends.
LEMMA LoopHeadFields ==
    ASSUME NEW l \in LoopLocals, NEW t \in Nat, NEW due \in BOOLEAN,
           NEW sent, sent = IF due /\ l.sendsLeft > 0 THEN 1 ELSE 0,
           NEW h, h = LoopHead(l, t, due)
    PROVE  /\ h \in LoopLocals
           /\ h.sendsLeft = l.sendsLeft - sent
           /\ h.flying = l.flying + sent
           /\ sent = 1 => (IsOn(h.nextSend) <=> h.sendsLeft > 0)
           /\ sent = 0 => h.nextSend = l.nextSend
           /\ h.tcpDue = IF h.flying = 0 /\ h.sendsLeft = 0 /\ IsOn(l.tcpDue)
                         THEN t ELSE l.tcpDue
<1>0. l.sendsLeft \in Nat /\ l.flying \in Nat
    BY DEF LoopLocals
<1>1. CASE due /\ l.sendsLeft > 0
  <2>0. PICK m : m = Send(l, t)
      OBVIOUS
  <2>1. m \in LoopLocals
      BY <1>1, <2>0, SendFields
  <2>2. /\ m.sendsLeft = l.sendsLeft - 1
        /\ m.flying = l.flying + 1
        /\ IsOn(m.nextSend) <=> l.sendsLeft > 1
        /\ m.tcpDue = l.tcpDue
      BY <1>1, <2>0, SendFields
  <2>3. h = Hurry(m, t)
      BY <1>1, <2>0 DEF LoopHead
  <2>4. /\ h \in LoopLocals
        /\ h.sendsLeft = m.sendsLeft
        /\ h.flying = m.flying
        /\ h.nextSend = m.nextSend
        /\ h.tcpDue = IF m.flying = 0 /\ m.sendsLeft = 0 /\ IsOn(m.tcpDue)
                      THEN t ELSE m.tcpDue
      BY <2>3, <2>1, HurryFields
  <2>5. sent = 1
      BY <1>1
  <2>6. h.sendsLeft = l.sendsLeft - sent /\ h.flying = l.flying + sent
      BY <1>0, <2>2, <2>4, <2>5
  <2>7. IsOn(h.nextSend) <=> h.sendsLeft > 0
      BY <1>0, <2>2, <2>4
  <2> QED
      BY <2>2, <2>4, <2>5, <2>6, <2>7
<1>2. CASE ~(due /\ l.sendsLeft > 0)
  <2>1. h = Hurry(l, t)
      BY <1>2 DEF LoopHead
  <2>2. /\ h \in LoopLocals
        /\ h.sendsLeft = l.sendsLeft
        /\ h.flying = l.flying
        /\ h.nextSend = l.nextSend
        /\ h.tcpDue = IF l.flying = 0 /\ l.sendsLeft = 0 /\ IsOn(l.tcpDue)
                      THEN t ELSE l.tcpDue
      BY <2>1, HurryFields
  <2> QED
      BY <1>0, <1>2, <2>2
<1> QED
    BY <1>1, <1>2

-----------------------------------------------------------------------------
(* The branches of select. *)

\* What a branch leaves to the head of the loop: Inv for the locals l and the history
\* as it will be, but for the timers that the head of the loop sets.
Ready(l, running, err, due) ==
    /\ l \in LoopLocals
    /\ l.sendsLeft <= Datagrams - 1
    /\ refused' \in Nat /\ truncated' \in BOOLEAN /\ tcpTries' \in Nat
    /\ l.flying + refused' <= Datagrams - l.sendsLeft
    /\ truncated' \/ l.flying + refused' = Datagrams - l.sendsLeft
    /\ truncated' => l.sendsLeft = 0
    /\ l.sendsLeft = 0 => ~IsOn(l.nextSend)
    /\ l.sendsLeft > 0 => due \/ IsOn(l.nextSend)
    /\ tcpTries' = 0 => IsOn(l.tcpDue) /\ l.tcpDue <= start + JoinDelay
    /\ IsOn(l.tcpDue) => /\ now <= l.tcpDue
                         /\ l.tcpDue = start + JoinDelay \/ truncated' \/ refused' = Datagrams
    /\ truncated' => tcpTries' > 0 \/ l.tcpDue = now
    /\ running => tcpTries' > 0 /\ ~IsOn(l.tcpDue)
    /\ refused' > 0 => err
    /\ tcpTries' > 0 /\ ~running => err
    /\ tcpTries' > 0 /\ now < start + JoinDelay => truncated' \/ refused' = Datagrams

\* With none left to send and none outstanding, all the datagrams were refused.
LEMMA NoneLeft ==
    ASSUME NEW total \in Nat, NEW left, NEW out, NEW back \in Nat,
           out = 0, left = 0, out + back = total - left
    PROVE  back = total
    OBVIOUS

\* The head of the loop, from locals that are Ready, restores the invariant.
LEMMA ResumeKeepsInv ==
    ASSUME TypeOK,
           NEW l, NEW running \in BOOLEAN, NEW err \in BOOLEAN, NEW due \in BOOLEAN,
           Ready(l, running, err, due),
           Resume(l, running, err, due)
    PROVE  Inv'
<1>0. /\ now \in Nat /\ start \in Nat /\ start <= now
      /\ Datagrams \in Nat \ {0} /\ JoinDelay \in Nat
    BY Constants DEF TypeOK
<1>1. PICK h : h = LoopHead(l, now, due)
    OBVIOUS
<1>2. PICK sent : sent = IF due /\ l.sendsLeft > 0 THEN 1 ELSE 0
    OBVIOUS
<1>3. l \in LoopLocals
    BY DEF Ready
<1>4. h \in LoopLocals
    BY <1>0, <1>1, <1>2, <1>3, LoopHeadFields
<1>5. /\ h.sendsLeft = l.sendsLeft - sent
      /\ h.flying = l.flying + sent
      /\ sent = 1 => (IsOn(h.nextSend) <=> h.sendsLeft > 0)
      /\ sent = 0 => h.nextSend = l.nextSend
      /\ h.tcpDue = IF h.flying = 0 /\ h.sendsLeft = 0 /\ IsOn(l.tcpDue)
                    THEN now ELSE l.tcpDue
    BY <1>0, <1>1, <1>2, <1>3, LoopHeadFields
<1>6. /\ sendsLeft' = h.sendsLeft /\ flying' = h.flying /\ interval' = h.interval
      /\ nextSend' = h.nextSend /\ tcpDue' = h.tcpDue
      /\ tcp' = running /\ lastErr' = err
      /\ now' = now /\ retransmit' = retransmit /\ edns' = edns /\ start' = start
      /\ result' = IF ~Stuck(h, running) THEN "pending"
                   ELSE IF err THEN "error" ELSE "noResponse"
    BY <1>1 DEF Resume
<1>7. /\ l.sendsLeft \in Nat /\ l.flying \in Nat /\ l.nextSend \in Timer /\ l.tcpDue \in Timer
      /\ h.sendsLeft \in Nat /\ h.flying \in Nat /\ h.nextSend \in Timer /\ h.tcpDue \in Timer
      /\ h.interval \in Nat \ {0}
    BY <1>3, <1>4 DEF LoopLocals
<1>8. DatagramsOK'
    BY <1>0, <1>2, <1>5, <1>6, <1>7 DEF DatagramsOK, Ready, IsOn
<1>9. TypeOK'
  <2>1. sendsLeft' \in 0 .. Datagrams - 1 /\ flying' \in 0 .. Datagrams /\ refused' \in 0 .. Datagrams
      BY <1>0, <1>2, <1>5, <1>6, <1>7 DEF Ready
  <2>2. result' \in Results \cup {"pending"}
      BY <1>6 DEF Results
  <2>3. /\ truncated' \in BOOLEAN /\ tcpTries' \in Nat /\ now' \in Nat /\ start' \in 0 .. now'
        /\ interval' \in Nat \ {0} /\ nextSend' \in Timer /\ tcpDue' \in Timer
      BY <1>0, <1>6, <1>7 DEF Ready
  <2>4. tcp' \in BOOLEAN /\ lastErr' \in BOOLEAN /\ retransmit' \in Intervals /\ edns' \in BOOLEAN
      BY <1>6 DEF TypeOK
  <2> QED
      BY <2>1, <2>2, <2>3, <2>4 DEF TypeOK
<1>10. EarlyOK'
    BY <1>6 DEF EarlyOK, Ready
<1>11. (tcp => ~IsOn(tcpDue))'
    BY <1>5, <1>6 DEF Ready
<1>12. ASSUME result' = "pending"
       PROVE  TcpOK' /\ ErrorsOK'
  <2>1. ~Stuck(h, running)
      BY <1>6, <1>12
  <2>2. ErrorsOK'
      BY <1>6 DEF ErrorsOK, Ready
  <2>3. /\ tcpTries' = 0 => IsOn(tcpDue') /\ tcpDue' <= start + JoinDelay
        /\ IsOn(tcpDue') => /\ now <= tcpDue'
                            /\ tcpDue' = start + JoinDelay \/ truncated' \/ refused' = Datagrams
      BY <1>0, <1>5, <1>6, <1>7, <1>8 DEF Ready, IsOn, Off, Timer, DatagramsOK
  <2>4. truncated' => tcpTries' > 0 \/ (IsOn(tcpDue') /\ tcpDue' <= now)
      BY <1>0, <1>5, <1>6, <1>7 DEF Ready, IsOn, Off
  <2>5. flying' = 0 /\ sendsLeft' = 0 => tcp' \/ (IsOn(tcpDue') /\ tcpDue' <= now)
      BY <1>0, <1>5, <1>6, <1>7, <1>8, <2>1 DEF Stuck, IsOn, Off, DatagramsOK
  <2> QED
      BY <1>6, <1>11, <2>2, <2>3, <2>4, <2>5 DEF TcpOK, Due, IsOn, Ready
<1>13. GivesUpAfterTcp'
  <2>1. CASE Stuck(h, running)
    <3>1. flying' = 0 /\ sendsLeft' = 0 /\ ~tcp' /\ ~IsOn(l.tcpDue) /\ tcpTries' > 0
        BY <1>0, <1>5, <1>6, <1>7, <1>8, <2>1 DEF Stuck, DatagramsOK, Ready, IsOn, Off
    <3>2. ASSUME ~truncated'
          PROVE  refused' = Datagrams
      <4>1. flying' + refused' = Datagrams - sendsLeft'
          BY <1>8, <3>2 DEF DatagramsOK
      <4> QED
          BY <3>1, <4>1, Constants, NoneLeft DEF Ready
    <3>3. err
        BY <1>6, <3>1 DEF Ready
    <3> QED
        BY <1>6, <2>1, <3>1, <3>2, <3>3 DEF GivesUpAfterTcp
  <2>2. CASE ~Stuck(h, running)
      BY <1>6, <2>2 DEF GivesUpAfterTcp
  <2> QED
      BY <2>1, <2>2
<1> QED
    BY <1>8, <1>9, <1>10, <1>11, <1>12, <1>13 DEF Inv

\* udp_query begins with one datagram sent and TCP due after its delay.
LEMMA OpenedFields ==
    ASSUME NEW i \in Nat \ {0}, NEW t \in Nat, NEW o, o = Opened(i, t)
    PROVE  /\ o \in LoopLocals
           /\ o.sendsLeft = Datagrams - 1
           /\ o.flying = 1
           /\ IsOn(o.nextSend) <=> o.sendsLeft > 0
           /\ o.tcpDue = t + JoinDelay
<1>1. PICK l : l = [sendsLeft |-> Datagrams, flying |-> 0, interval |-> i, nextSend |-> Off,
                    tcpDue |-> t + JoinDelay]
    OBVIOUS
<1>2. /\ l.sendsLeft = Datagrams /\ l.flying = 0 /\ l.tcpDue = t + JoinDelay
      /\ l.sendsLeft > 0
    BY <1>1, Constants
<1>3. l \in LoopLocals
  <2>1. Off \in Timer /\ t + JoinDelay \in Timer
      BY Constants DEF Timer
  <2> QED
      BY <1>1, <2>1, Constants DEF LoopLocals
<1>4. o = LoopHead(l, t, TRUE)
    BY <1>1 DEF Opened
<1>5. PICK due \in BOOLEAN : due = TRUE
    OBVIOUS
<1>7. PICK sent : sent = IF due /\ l.sendsLeft > 0 THEN 1 ELSE 0
    OBVIOUS
<1>8. o = LoopHead(l, t, due)
    BY <1>4, <1>5
<1>6. /\ o \in LoopLocals
      /\ o.sendsLeft = l.sendsLeft - sent
      /\ o.flying = l.flying + sent
      /\ sent = 1 => (IsOn(o.nextSend) <=> o.sendsLeft > 0)
      /\ o.tcpDue = IF o.flying = 0 /\ o.sendsLeft = 0 /\ IsOn(l.tcpDue) THEN t ELSE l.tcpDue
    BY <1>3, <1>7, <1>8, LoopHeadFields
<1> QED
    BY <1>2, <1>5, <1>7, <1>6, Constants

\* An attempt opens with its first datagram and the timers of the rest.
LEMMA InitInv == Init => Inv
<1> SUFFICES ASSUME Init
             PROVE  Inv
    OBVIOUS
<1>1. PICK o : o = Opened(retransmit, 0)
    OBVIOUS
<1>2. retransmit \in Nat \ {0}
    BY Constants DEF Init
<1>3. /\ o \in LoopLocals
      /\ o.sendsLeft = Datagrams - 1
      /\ o.flying = 1
      /\ IsOn(o.nextSend) <=> o.sendsLeft > 0
      /\ o.tcpDue = 0 + JoinDelay
    BY <1>1, <1>2, OpenedFields
<1>4. /\ now = 0 /\ start = 0 /\ result = "pending" /\ edns = TRUE /\ tcp = FALSE
      /\ lastErr = FALSE /\ refused = 0 /\ truncated = FALSE /\ tcpTries = 0
      /\ sendsLeft = o.sendsLeft /\ flying = o.flying /\ interval = o.interval
      /\ nextSend = o.nextSend /\ tcpDue = o.tcpDue /\ retransmit \in Intervals
    BY <1>1 DEF Init
<1>5. TypeOK
  <2>1. /\ o.sendsLeft \in 0 .. Datagrams - 1 /\ o.flying \in 0 .. Datagrams
        /\ o.interval \in Nat \ {0} /\ o.nextSend \in Timer /\ o.tcpDue \in Timer
      BY <1>3, Constants DEF LoopLocals
  <2>2. start \in 0 .. now /\ refused \in 0 .. Datagrams /\ now \in Nat /\ tcpTries \in Nat
      BY <1>4, Constants
  <2> QED
      BY <1>4, <2>1, <2>2 DEF TypeOK
<1>6. DatagramsOK /\ ErrorsOK
    BY <1>3, <1>4, Constants DEF DatagramsOK, ErrorsOK
<1>7. TcpOK
    BY <1>3, <1>4, Constants DEF TcpOK, IsOn, Off, Due
<1> QED
    BY <1>4, <1>5, <1>6, <1>7 DEF Inv, GivesUpAfterTcp, EarlyOK

\* The attempt is over, with a result that blames nothing.
LEMMA ReturnKeepsInv ==
    ASSUME Inv, NEW r \in Results, r \notin {"pending", "error", "noResponse"}, Return(r)
    PROVE  Inv'
<1>1. /\ result' = r /\ flying' = 0 /\ tcp' = FALSE /\ nextSend' = Off /\ tcpDue' = Off
      /\ now' = now /\ retransmit' = retransmit /\ edns' = edns /\ start' = start
      /\ sendsLeft' = sendsLeft /\ interval' = interval /\ lastErr' = lastErr
      /\ refused' = refused /\ truncated' = truncated /\ tcpTries' = tcpTries
    BY DEF Return, history
<1>2. TypeOK'
  <2>1. flying' \in 0 .. Datagrams /\ nextSend' \in Timer /\ tcpDue' \in Timer
      BY <1>1, Constants DEF Timer
  <2> QED
      BY <1>1, <2>1 DEF Inv, TypeOK
<1>3. GivesUpAfterTcp'
    BY <1>1 DEF GivesUpAfterTcp
<1>4. EarlyOK'
    BY <1>1 DEF Inv, EarlyOK
<1> QED
    BY <1>1, <1>2, <1>3, <1>4 DEF Inv

\* An answer ends the attempt, or begins it again without EDNS.
LEMMA AnsweredKeepsInv ==
    ASSUME Inv, result = "pending", NEW a \in Answers, Answered(a)
    PROVE  Inv'
<1>1. CASE a = "formErr" /\ edns
  <2>1. Retry
      BY <1>1 DEF Answered
  <2>2. PICK o : o = Opened(retransmit, now)
      OBVIOUS
  <2>3. retransmit \in Nat \ {0} /\ now \in Nat
      BY Constants DEF Inv, TypeOK
  <2>4. /\ o \in LoopLocals
        /\ o.sendsLeft = Datagrams - 1
        /\ o.flying = 1
        /\ IsOn(o.nextSend) <=> o.sendsLeft > 0
        /\ o.tcpDue = now + JoinDelay
      BY <2>2, <2>3, OpenedFields
  <2>5. /\ now' = now /\ start' = now /\ result' = "pending" /\ edns' = FALSE /\ tcp' = FALSE
        /\ lastErr' = FALSE /\ refused' = 0 /\ truncated' = FALSE /\ tcpTries' = 0
        /\ sendsLeft' = o.sendsLeft /\ flying' = o.flying /\ interval' = o.interval
        /\ nextSend' = o.nextSend /\ tcpDue' = o.tcpDue /\ retransmit' \in Intervals
      BY <2>1, <2>2 DEF Retry, Inv, TypeOK
  <2>6. TypeOK'
    <3>1. /\ o.sendsLeft \in 0 .. Datagrams - 1 /\ o.flying \in 0 .. Datagrams
          /\ o.interval \in Nat \ {0} /\ o.nextSend \in Timer /\ o.tcpDue \in Timer
        BY <2>4, Constants DEF LoopLocals
    <3>2. start' \in 0 .. now' /\ refused' \in 0 .. Datagrams /\ now' \in Nat /\ tcpTries' \in Nat
        BY <2>3, <2>5, Constants
    <3> QED
        BY <2>5, <3>1, <3>2 DEF TypeOK
  <2>7. DatagramsOK' /\ ErrorsOK'
      BY <2>4, <2>5, Constants DEF DatagramsOK, ErrorsOK
  <2>8. TcpOK'
      BY <2>3, <2>4, <2>5, Constants DEF TcpOK, IsOn, Off, Due
  <2> QED
      BY <2>5, <2>6, <2>7, <2>8 DEF Inv, GivesUpAfterTcp, EarlyOK
<1>2. CASE ~(a = "formErr" /\ edns)
  <2>1. Return(a)
      BY <1>2 DEF Answered
  <2>2. a \in Results /\ a \notin {"pending", "error", "noResponse"}
      BY DEF Results, Answers
  <2> QED
      BY <2>1, <2>2, ReturnKeepsInv
<1> QED
    BY <1>1, <1>2

-----------------------------------------------------------------------------
(* The actions. *)

\* A truncated response ends the sending and makes TCP due at once.
LEMMA DatagramTruncatedKeepsInv ==
    ASSUME Inv, DatagramTruncated
    PROVE  Inv'
<1>1. TypeOK /\ EarlyOK /\ DatagramsOK /\ TcpOK /\ ErrorsOK
    BY DEF Inv, DatagramTruncated
<1>2. PICK l : l = AfterTruncation(Locals)
    OBVIOUS
<1>3. PICK due \in BOOLEAN : due = FALSE
    OBVIOUS
<1>4. PICK running \in BOOLEAN : running = tcp
    BY <1>1 DEF TypeOK
<1>5. PICK err \in BOOLEAN : err = lastErr
    BY <1>1 DEF TypeOK
<1>6. Resume(l, running, err, due)
    BY <1>2, <1>3, <1>4, <1>5 DEF DatagramTruncated
<1>7. l = [sendsLeft |-> 0, flying |-> flying - 1, interval |-> interval,
           nextSend |-> Off, tcpDue |-> (IF tcp THEN tcpDue ELSE now)]
    BY <1>2 DEF Locals, AfterTruncation
<1>8. l \in LoopLocals
  <2>1. /\ 0 \in Nat /\ flying - 1 \in Nat /\ interval \in Nat \ {0}
        /\ Off \in Timer /\ (IF tcp THEN tcpDue ELSE now) \in Timer
      BY <1>1, Constants DEF DatagramTruncated, TypeOK, Timer
  <2> QED
      BY <1>7, <2>1 DEF LoopLocals
<1>10. /\ l.sendsLeft \in Nat /\ l.flying \in Nat
       /\ now \in Nat /\ start \in Nat /\ refused \in Nat /\ tcpTries \in Nat
       /\ sendsLeft \in 0 .. Datagrams - 1 /\ flying \in Nat /\ tcpDue \in Timer
       /\ tcp \in BOOLEAN /\ lastErr \in BOOLEAN /\ truncated \in BOOLEAN
    BY <1>1, <1>7, <1>8 DEF LoopLocals, TypeOK
<1>9. Ready(l, running, err, due)
  <2>1. /\ l.sendsLeft = 0 /\ l.flying = flying - 1 /\ l.nextSend = Off /\ l.tcpDue = (IF tcp THEN tcpDue ELSE now)
        /\ refused' = refused /\ truncated' = TRUE /\ tcpTries' = tcpTries
      BY <1>7 DEF DatagramTruncated, history
  <2>2. refused' \in Nat /\ truncated' \in BOOLEAN /\ tcpTries' \in Nat
      BY <1>10, <2>1
  <2>3. /\ l.sendsLeft <= Datagrams - 1
        /\ l.flying + refused' <= Datagrams - l.sendsLeft
        /\ truncated' \/ l.flying + refused' = Datagrams - l.sendsLeft
        /\ truncated' => l.sendsLeft = 0
      BY <1>1, <1>10, <2>1, Constants DEF DatagramsOK, DatagramTruncated, Due
  <2>4. /\ l.sendsLeft = 0 => ~IsOn(l.nextSend)
        /\ l.sendsLeft > 0 => due \/ IsOn(l.nextSend)
      BY <1>1, <1>3, <1>10, <2>1 DEF DatagramsOK, IsOn, Off
  <2>5. /\ tcpTries' = 0 => IsOn(l.tcpDue) /\ l.tcpDue <= start + JoinDelay
        /\ IsOn(l.tcpDue) => now <= l.tcpDue
        /\ truncated' => tcpTries' > 0 \/ l.tcpDue = now
        /\ running => tcpTries' > 0 /\ ~IsOn(l.tcpDue)
      BY <1>1, <1>4, <1>10, <2>1, Constants DEF TcpOK, DatagramTruncated, Due, IsOn, Off, Timer
  <2>6. /\ refused' > 0 => err
        /\ tcpTries' > 0 /\ ~running => err
      BY <1>1, <1>4, <1>5, <1>10, <2>1 DEF ErrorsOK, TcpOK
  <2>7. /\ IsOn(l.tcpDue) => l.tcpDue = start + JoinDelay \/ truncated' \/ refused' = Datagrams
        /\ tcpTries' > 0 /\ now < start + JoinDelay => truncated' \/ refused' = Datagrams
      BY <1>1, <1>10, <2>1, Constants DEF TcpOK, EarlyOK, DatagramsOK, DatagramTruncated, Due, IsOn, Off, Timer
  <2> QED
      BY <1>8, <2>2, <2>3, <2>4, <2>5, <2>6, <2>7 DEF Ready
<1> QED
    BY <1>1, <1>6, <1>9, ResumeKeepsInv

\* A refused datagram is replaced; none is replaced after a truncated response.
LEMMA DatagramFailsKeepsInv ==
    ASSUME Inv, DatagramFails
    PROVE  Inv'
<1>1. TypeOK /\ EarlyOK /\ DatagramsOK /\ TcpOK /\ ErrorsOK
    BY DEF Inv, DatagramFails
<1>2. PICK l : l = [Locals EXCEPT !.flying = @ - 1]
    OBVIOUS
<1>3. PICK due \in BOOLEAN : due = TRUE
    OBVIOUS
<1>4. PICK running \in BOOLEAN : running = tcp
    BY <1>1 DEF TypeOK
<1>5. PICK err \in BOOLEAN : err = TRUE
    BY <1>1 DEF TypeOK
<1>6. Resume(l, running, err, due)
    BY <1>2, <1>3, <1>4, <1>5 DEF DatagramFails
<1>7. l = [sendsLeft |-> sendsLeft, flying |-> flying - 1, interval |-> interval,
           nextSend |-> nextSend, tcpDue |-> tcpDue]
    BY <1>2 DEF Locals
<1>8. l \in LoopLocals
  <2>1. /\ sendsLeft \in Nat /\ flying - 1 \in Nat /\ interval \in Nat \ {0}
        /\ nextSend \in Timer /\ tcpDue \in Timer
      BY <1>1, Constants DEF DatagramFails, TypeOK, Timer
  <2> QED
      BY <1>7, <2>1 DEF LoopLocals
<1>10. /\ l.sendsLeft \in Nat /\ l.flying \in Nat
       /\ now \in Nat /\ start \in Nat /\ refused \in Nat /\ tcpTries \in Nat
       /\ sendsLeft \in 0 .. Datagrams - 1 /\ flying \in Nat /\ tcpDue \in Timer
       /\ tcp \in BOOLEAN /\ lastErr \in BOOLEAN /\ truncated \in BOOLEAN
    BY <1>1, <1>7, <1>8 DEF LoopLocals, TypeOK
<1>9. Ready(l, running, err, due)
  <2>1. /\ l.sendsLeft = sendsLeft /\ l.flying = flying - 1 /\ l.nextSend = nextSend /\ l.tcpDue = tcpDue
        /\ refused' = refused + 1 /\ truncated' = truncated /\ tcpTries' = tcpTries
      BY <1>7 DEF DatagramFails, history
  <2>2. refused' \in Nat /\ truncated' \in BOOLEAN /\ tcpTries' \in Nat
      BY <1>10, <2>1
  <2>3. /\ l.sendsLeft <= Datagrams - 1
        /\ l.flying + refused' <= Datagrams - l.sendsLeft
        /\ truncated' \/ l.flying + refused' = Datagrams - l.sendsLeft
        /\ truncated' => l.sendsLeft = 0
      BY <1>1, <1>10, <2>1, Constants DEF DatagramsOK, DatagramFails, Due
  <2>4. /\ l.sendsLeft = 0 => ~IsOn(l.nextSend)
        /\ l.sendsLeft > 0 => due \/ IsOn(l.nextSend)
      BY <1>1, <1>3, <1>10, <2>1 DEF DatagramsOK, IsOn, Off
  <2>5. /\ tcpTries' = 0 => IsOn(l.tcpDue) /\ l.tcpDue <= start + JoinDelay
        /\ IsOn(l.tcpDue) => now <= l.tcpDue
        /\ truncated' => tcpTries' > 0 \/ l.tcpDue = now
        /\ running => tcpTries' > 0 /\ ~IsOn(l.tcpDue)
      BY <1>1, <1>4, <1>10, <2>1, Constants DEF TcpOK, DatagramFails, Due, IsOn, Off, Timer
  <2>6. /\ refused' > 0 => err
        /\ tcpTries' > 0 /\ ~running => err
      BY <1>1, <1>4, <1>5, <1>10, <2>1 DEF ErrorsOK, TcpOK
  <2>7. /\ IsOn(l.tcpDue) => l.tcpDue = start + JoinDelay \/ truncated' \/ refused' = Datagrams
        /\ tcpTries' > 0 /\ now < start + JoinDelay => truncated' \/ refused' = Datagrams
      BY <1>1, <1>10, <2>1, Constants DEF TcpOK, EarlyOK, DatagramsOK, DatagramFails, Due, IsOn, Off, Timer
  <2> QED
      BY <1>8, <2>2, <2>3, <2>4, <2>5, <2>6, <2>7 DEF Ready
<1> QED
    BY <1>1, <1>6, <1>9, ResumeKeepsInv

\* The TCP query failed, and is not started again.
LEMMA TcpFailsKeepsInv ==
    ASSUME Inv, TcpFails
    PROVE  Inv'
<1>1. TypeOK /\ EarlyOK /\ DatagramsOK /\ TcpOK /\ ErrorsOK
    BY DEF Inv, TcpFails
<1>2. PICK l : l = Locals
    OBVIOUS
<1>3. PICK due \in BOOLEAN : due = FALSE
    OBVIOUS
<1>4. PICK running \in BOOLEAN : running = FALSE
    BY <1>1 DEF TypeOK
<1>5. PICK err \in BOOLEAN : err = TRUE
    BY <1>1 DEF TypeOK
<1>6. Resume(l, running, err, due)
    BY <1>2, <1>3, <1>4, <1>5 DEF TcpFails
<1>7. l = [sendsLeft |-> sendsLeft, flying |-> flying, interval |-> interval,
           nextSend |-> nextSend, tcpDue |-> tcpDue]
    BY <1>2 DEF Locals
<1>8. l \in LoopLocals
  <2>1. /\ sendsLeft \in Nat /\ flying \in Nat /\ interval \in Nat \ {0}
        /\ nextSend \in Timer /\ tcpDue \in Timer
      BY <1>1, Constants DEF TcpFails, TypeOK, Timer
  <2> QED
      BY <1>7, <2>1 DEF LoopLocals
<1>10. /\ l.sendsLeft \in Nat /\ l.flying \in Nat
       /\ now \in Nat /\ start \in Nat /\ refused \in Nat /\ tcpTries \in Nat
       /\ sendsLeft \in 0 .. Datagrams - 1 /\ flying \in Nat /\ tcpDue \in Timer
       /\ tcp \in BOOLEAN /\ lastErr \in BOOLEAN /\ truncated \in BOOLEAN
    BY <1>1, <1>7, <1>8 DEF LoopLocals, TypeOK
<1>9. Ready(l, running, err, due)
  <2>1. /\ l.sendsLeft = sendsLeft /\ l.flying = flying /\ l.nextSend = nextSend /\ l.tcpDue = tcpDue
        /\ refused' = refused /\ truncated' = truncated /\ tcpTries' = tcpTries
      BY <1>7 DEF TcpFails, history
  <2>2. refused' \in Nat /\ truncated' \in BOOLEAN /\ tcpTries' \in Nat
      BY <1>10, <2>1
  <2>3. /\ l.sendsLeft <= Datagrams - 1
        /\ l.flying + refused' <= Datagrams - l.sendsLeft
        /\ truncated' \/ l.flying + refused' = Datagrams - l.sendsLeft
        /\ truncated' => l.sendsLeft = 0
      BY <1>1, <1>10, <2>1, Constants DEF DatagramsOK, TcpFails, Due
  <2>4. /\ l.sendsLeft = 0 => ~IsOn(l.nextSend)
        /\ l.sendsLeft > 0 => due \/ IsOn(l.nextSend)
      BY <1>1, <1>3, <1>10, <2>1 DEF DatagramsOK, IsOn, Off
  <2>5. /\ tcpTries' = 0 => IsOn(l.tcpDue) /\ l.tcpDue <= start + JoinDelay
        /\ IsOn(l.tcpDue) => now <= l.tcpDue
        /\ truncated' => tcpTries' > 0 \/ l.tcpDue = now
        /\ running => tcpTries' > 0 /\ ~IsOn(l.tcpDue)
      BY <1>1, <1>4, <1>10, <2>1, Constants DEF TcpOK, TcpFails, Due, IsOn, Off, Timer
  <2>6. /\ refused' > 0 => err
        /\ tcpTries' > 0 /\ ~running => err
      BY <1>1, <1>4, <1>5, <1>10, <2>1 DEF ErrorsOK, TcpOK
  <2>7. /\ IsOn(l.tcpDue) => l.tcpDue = start + JoinDelay \/ truncated' \/ refused' = Datagrams
        /\ tcpTries' > 0 /\ now < start + JoinDelay => truncated' \/ refused' = Datagrams
      BY <1>1, <1>10, <2>1, Constants DEF TcpOK, EarlyOK, DatagramsOK, TcpFails, Due, IsOn, Off, Timer
  <2> QED
      BY <1>8, <2>2, <2>3, <2>4, <2>5, <2>6, <2>7 DEF Ready
<1> QED
    BY <1>1, <1>6, <1>9, ResumeKeepsInv

\* The timer for the next datagram is spent, and set again by the head of the loop.
LEMMA SendTimerKeepsInv ==
    ASSUME Inv, SendTimer
    PROVE  Inv'
<1>1. TypeOK /\ EarlyOK /\ DatagramsOK /\ TcpOK /\ ErrorsOK
    BY DEF Inv, SendTimer
<1>2. PICK l : l = [Locals EXCEPT !.nextSend = Off]
    OBVIOUS
<1>3. PICK due \in BOOLEAN : due = TRUE
    OBVIOUS
<1>4. PICK running \in BOOLEAN : running = tcp
    BY <1>1 DEF TypeOK
<1>5. PICK err \in BOOLEAN : err = lastErr
    BY <1>1 DEF TypeOK
<1>6. Resume(l, running, err, due)
    BY <1>2, <1>3, <1>4, <1>5 DEF SendTimer
<1>7. l = [sendsLeft |-> sendsLeft, flying |-> flying, interval |-> interval,
           nextSend |-> Off, tcpDue |-> tcpDue]
    BY <1>2 DEF Locals
<1>8. l \in LoopLocals
  <2>1. /\ sendsLeft \in Nat /\ flying \in Nat /\ interval \in Nat \ {0}
        /\ Off \in Timer /\ tcpDue \in Timer
      BY <1>1, Constants DEF SendTimer, TypeOK, Timer
  <2> QED
      BY <1>7, <2>1 DEF LoopLocals
<1>10. /\ l.sendsLeft \in Nat /\ l.flying \in Nat
       /\ now \in Nat /\ start \in Nat /\ refused \in Nat /\ tcpTries \in Nat
       /\ sendsLeft \in 0 .. Datagrams - 1 /\ flying \in Nat /\ tcpDue \in Timer
       /\ tcp \in BOOLEAN /\ lastErr \in BOOLEAN /\ truncated \in BOOLEAN
    BY <1>1, <1>7, <1>8 DEF LoopLocals, TypeOK
<1>9. Ready(l, running, err, due)
  <2>1. /\ l.sendsLeft = sendsLeft /\ l.flying = flying /\ l.nextSend = Off /\ l.tcpDue = tcpDue
        /\ refused' = refused /\ truncated' = truncated /\ tcpTries' = tcpTries
      BY <1>7 DEF SendTimer, history
  <2>2. refused' \in Nat /\ truncated' \in BOOLEAN /\ tcpTries' \in Nat
      BY <1>10, <2>1
  <2>3. /\ l.sendsLeft <= Datagrams - 1
        /\ l.flying + refused' <= Datagrams - l.sendsLeft
        /\ truncated' \/ l.flying + refused' = Datagrams - l.sendsLeft
        /\ truncated' => l.sendsLeft = 0
      BY <1>1, <1>10, <2>1, Constants DEF DatagramsOK, SendTimer, Due
  <2>4. /\ l.sendsLeft = 0 => ~IsOn(l.nextSend)
        /\ l.sendsLeft > 0 => due \/ IsOn(l.nextSend)
      BY <1>1, <1>3, <1>10, <2>1 DEF DatagramsOK, IsOn, Off
  <2>5. /\ tcpTries' = 0 => IsOn(l.tcpDue) /\ l.tcpDue <= start + JoinDelay
        /\ IsOn(l.tcpDue) => now <= l.tcpDue
        /\ truncated' => tcpTries' > 0 \/ l.tcpDue = now
        /\ running => tcpTries' > 0 /\ ~IsOn(l.tcpDue)
      BY <1>1, <1>4, <1>10, <2>1, Constants DEF TcpOK, SendTimer, Due, IsOn, Off, Timer
  <2>6. /\ refused' > 0 => err
        /\ tcpTries' > 0 /\ ~running => err
      BY <1>1, <1>4, <1>5, <1>10, <2>1 DEF ErrorsOK, TcpOK
  <2>7. /\ IsOn(l.tcpDue) => l.tcpDue = start + JoinDelay \/ truncated' \/ refused' = Datagrams
        /\ tcpTries' > 0 /\ now < start + JoinDelay => truncated' \/ refused' = Datagrams
      BY <1>1, <1>10, <2>1, Constants DEF TcpOK, EarlyOK, DatagramsOK, SendTimer, Due, IsOn, Off, Timer
  <2> QED
      BY <1>8, <2>2, <2>3, <2>4, <2>5, <2>6, <2>7 DEF Ready
<1> QED
    BY <1>1, <1>6, <1>9, ResumeKeepsInv

\* TCP starts: its timer is due, after the delay or for a cause.
LEMMA JoinTimerKeepsInv ==
    ASSUME Inv, JoinTimer
    PROVE  Inv'
<1>1. TypeOK /\ EarlyOK /\ DatagramsOK /\ TcpOK /\ ErrorsOK
    BY DEF Inv, JoinTimer
<1>2. PICK l : l = [Locals EXCEPT !.tcpDue = Off]
    OBVIOUS
<1>3. PICK due \in BOOLEAN : due = FALSE
    OBVIOUS
<1>4. PICK running \in BOOLEAN : running = TRUE
    BY <1>1 DEF TypeOK
<1>5. PICK err \in BOOLEAN : err = lastErr
    BY <1>1 DEF TypeOK
<1>6. Resume(l, running, err, due)
    BY <1>2, <1>3, <1>4, <1>5 DEF JoinTimer
<1>7. l = [sendsLeft |-> sendsLeft, flying |-> flying, interval |-> interval,
           nextSend |-> nextSend, tcpDue |-> Off]
    BY <1>2 DEF Locals
<1>8. l \in LoopLocals
  <2>1. /\ sendsLeft \in Nat /\ flying \in Nat /\ interval \in Nat \ {0}
        /\ nextSend \in Timer /\ Off \in Timer
      BY <1>1, Constants DEF JoinTimer, TypeOK, Timer
  <2> QED
      BY <1>7, <2>1 DEF LoopLocals
<1>10. /\ l.sendsLeft \in Nat /\ l.flying \in Nat
       /\ now \in Nat /\ start \in Nat /\ refused \in Nat /\ tcpTries \in Nat
       /\ sendsLeft \in 0 .. Datagrams - 1 /\ flying \in Nat /\ tcpDue \in Timer
       /\ tcp \in BOOLEAN /\ lastErr \in BOOLEAN /\ truncated \in BOOLEAN
    BY <1>1, <1>7, <1>8 DEF LoopLocals, TypeOK
<1>9. Ready(l, running, err, due)
  <2>1. /\ l.sendsLeft = sendsLeft /\ l.flying = flying /\ l.nextSend = nextSend /\ l.tcpDue = Off
        /\ refused' = refused /\ truncated' = truncated /\ tcpTries' = tcpTries + 1
      BY <1>7 DEF JoinTimer, history
  <2>2. refused' \in Nat /\ truncated' \in BOOLEAN /\ tcpTries' \in Nat
      BY <1>10, <2>1
  <2>3. /\ l.sendsLeft <= Datagrams - 1
        /\ l.flying + refused' <= Datagrams - l.sendsLeft
        /\ truncated' \/ l.flying + refused' = Datagrams - l.sendsLeft
        /\ truncated' => l.sendsLeft = 0
      BY <1>1, <1>10, <2>1, Constants DEF DatagramsOK, JoinTimer, Due
  <2>4. /\ l.sendsLeft = 0 => ~IsOn(l.nextSend)
        /\ l.sendsLeft > 0 => due \/ IsOn(l.nextSend)
      BY <1>1, <1>3, <1>10, <2>1 DEF DatagramsOK, IsOn, Off
  <2>5. /\ tcpTries' = 0 => IsOn(l.tcpDue) /\ l.tcpDue <= start + JoinDelay
        /\ IsOn(l.tcpDue) => now <= l.tcpDue
        /\ truncated' => tcpTries' > 0 \/ l.tcpDue = now
        /\ running => tcpTries' > 0 /\ ~IsOn(l.tcpDue)
      BY <1>1, <1>4, <1>10, <2>1, Constants DEF TcpOK, JoinTimer, Due, IsOn, Off, Timer
  <2>6. /\ refused' > 0 => err
        /\ tcpTries' > 0 /\ ~running => err
      BY <1>1, <1>4, <1>5, <1>10, <2>1 DEF ErrorsOK, TcpOK
  <2>7. /\ IsOn(l.tcpDue) => l.tcpDue = start + JoinDelay \/ truncated' \/ refused' = Datagrams
        /\ tcpTries' > 0 /\ now < start + JoinDelay => truncated' \/ refused' = Datagrams
      BY <1>1, <1>10, <2>1, Constants DEF TcpOK, EarlyOK, DatagramsOK, JoinTimer, Due, IsOn, Off, Timer
  <2> QED
      BY <1>8, <2>2, <2>3, <2>4, <2>5, <2>6, <2>7 DEF Ready
<1> QED
    BY <1>1, <1>6, <1>9, ResumeKeepsInv

\* No timer is due when time passes, so none is missed.
LEMMA TickKeepsInv ==
    ASSUME Inv, Tick
    PROVE  Inv'
<1>1. TypeOK /\ GivesUpAfterTcp /\ EarlyOK /\ DatagramsOK /\ TcpOK /\ ErrorsOK
    BY DEF Inv, Tick
<1>2. /\ now' = now + 1 /\ ~Due(nextSend) /\ ~Due(tcpDue)
      /\ retransmit' = retransmit /\ edns' = edns /\ result' = result /\ start' = start
      /\ sendsLeft' = sendsLeft /\ flying' = flying /\ interval' = interval
      /\ nextSend' = nextSend /\ tcpDue' = tcpDue /\ tcp' = tcp /\ lastErr' = lastErr
      /\ refused' = refused /\ truncated' = truncated /\ tcpTries' = tcpTries
    BY DEF Tick, loopVars, history
<1>3. now \in Nat /\ start \in 0 .. now /\ tcpDue \in Timer
    BY <1>1 DEF TypeOK
<1>4. TypeOK'
  <2>1. now' \in Nat /\ start' \in 0 .. now'
      BY <1>2, <1>3
  <2> QED
      BY <1>1, <1>2, <2>1 DEF TypeOK
<1>5. GivesUpAfterTcp' /\ DatagramsOK' /\ ErrorsOK'
    BY <1>1, <1>2 DEF GivesUpAfterTcp, DatagramsOK, ErrorsOK
<1>6. EarlyOK'
    BY <1>1, <1>2, <1>3, Constants DEF EarlyOK
<1>7. TcpOK'
  <2>1. IsOn(tcpDue) => now < tcpDue
      BY <1>2, <1>3 DEF Due, IsOn, Off, Timer
  <2> QED
      BY <1>1, <1>2, <1>3, <2>1, Constants DEF TcpOK, Due, IsOn, Off, Timer
<1> QED
    BY <1>1, <1>2, <1>4, <1>5, <1>6, <1>7 DEF Inv, TcpOK

\* Every step of the attempt keeps the invariant.
LEMMA NextKeepsInv == Inv /\ [Next]_vars => Inv'
<1> SUFFICES ASSUME Inv, [Next]_vars
             PROVE  Inv'
    OBVIOUS
<1>1. CASE DatagramAnswers
    BY <1>1, AnsweredKeepsInv DEF DatagramAnswers
<1>2. CASE DatagramTruncated
    BY <1>2, DatagramTruncatedKeepsInv
<1>3. CASE DatagramFails
    BY <1>3, DatagramFailsKeepsInv
<1>4. CASE TcpAnswers
    BY <1>4, AnsweredKeepsInv DEF TcpAnswers
<1>5. CASE TcpFails
    BY <1>5, TcpFailsKeepsInv
<1>6. CASE SendTimer
    BY <1>6, SendTimerKeepsInv
<1>7. CASE JoinTimer
    BY <1>7, JoinTimerKeepsInv
<1>8. CASE TimesOut
  <2>1. "timeout" \in Results /\ "timeout" \notin {"pending", "error", "noResponse"}
      BY DEF Results
  <2> QED
      BY <1>8, <2>1, ReturnKeepsInv DEF TimesOut
<1>9. CASE Tick
    BY <1>9, TickKeepsInv
<1>10. CASE UNCHANGED vars
    BY <1>10 DEF Inv, TypeOK, GivesUpAfterTcp, EarlyOK, DatagramsOK, TcpOK, ErrorsOK,
                 Due, IsOn, vars, loopVars, history
<1> QED
    BY <1>1, <1>2, <1>3, <1>4, <1>5, <1>6, <1>7, <1>8, <1>9, <1>10 DEF Next

-----------------------------------------------------------------------------
(* The theorems. *)

\* The invariant holds throughout an attempt.
THEOREM AttemptInvariant == Spec => []Inv
<1>1. Init => Inv
    BY InitInv
<1>2. Inv /\ [Next]_vars => Inv'
    BY NextKeepsInv
<1> QED
    BY <1>1, <1>2, PTL DEF Spec

\* Every variable of an attempt keeps its type: no count leaves its bounds, so
\* sends_left never goes below zero, and no more datagrams are outstanding than may
\* be sent.
THEOREM AttemptTypes == Spec => []TypeOK
<1>1. Inv => TypeOK
    BY DEF Inv
<1> QED
    BY <1>1, AttemptInvariant, PTL

\* udp_query gives up before its timeout only when UDP and TCP have both failed, and
\* never with the NoResponse it falls back to.
THEOREM AttemptGivesUpAfterTcp == Spec => []GivesUpAfterTcp
<1>1. Inv => GivesUpAfterTcp
    BY DEF Inv
<1> QED
    BY <1>1, AttemptInvariant, PTL

\* TCP joins an attempt by the time it is needed, no earlier without a cause, and one
\* at a time.
THEOREM AttemptTcpJoinsOnTime == Spec => []TcpJoinsOnTime
<1>1. Inv => TcpJoinsOnTime
  <2> SUFFICES ASSUME Inv
               PROVE  TcpJoinsOnTime
      OBVIOUS
  <2>1. /\ now \in Nat /\ start \in Nat /\ tcpDue \in Timer /\ tcpTries \in Nat
        /\ JoinDelay \in Nat
      BY Constants DEF Inv, TypeOK
  <2>2. ASSUME result = "pending"
        PROVE  /\ truncated \/ now >= start + JoinDelay => tcpTries > 0 \/ Due(tcpDue)
               /\ flying = 0 /\ sendsLeft = 0 => tcp \/ Due(tcpDue)
    <3>1. TcpOK
        BY <2>2 DEF Inv
    <3> QED
        BY <2>1, <3>1 DEF TcpOK, Due, IsOn, Off, Timer
  <2> QED
      BY <2>2 DEF Inv, EarlyOK, TcpJoinsOnTime
<1> QED
    BY <1>1, AttemptInvariant, PTL

-----------------------------------------------------------------------------
(* The pacing of the datagrams.                                            *)

\* A power of two counts subsets: the subsets of 1..n, and those with n + 1 added.
LEMMA PowerOfTwo ==
    ASSUME NEW n \in Nat
    PROVE  2^n \in Nat /\ 2^(n + 1) = 2 * 2^n
<1>1. PICK S : S = 1..n
    OBVIOUS
<1>2. PICK T : T = 1..(n + 1)
    OBVIOUS
<1>3. IsFiniteSet(S) /\ Cardinality(S) = n /\ IsFiniteSet(T) /\ Cardinality(T) = n + 1
    BY <1>1, <1>2, FS_Interval
<1>4. PICK A : A = SUBSET S
    OBVIOUS
<1>5. PICK B : B = {a \cup {n + 1} : a \in SUBSET S}
    OBVIOUS
<1>6. IsFiniteSet(A) /\ Cardinality(A) = 2^n /\ Cardinality(SUBSET T) = 2^(n + 1)
    BY <1>3, <1>4, FS_SUBSET
<1>7. n + 1 \notin S /\ T = S \cup {n + 1}
    BY <1>1, <1>2
<1>8. PICK f : f = [a \in A |-> a \cup {n + 1}]
    OBVIOUS
<1>9. f \in Bijection(A, B)
  <2>1. f \in [A -> B]
      BY <1>4, <1>5, <1>8
  <2>2. ASSUME NEW a \in A, NEW b \in A, f[a] = f[b]
        PROVE  a = b
    <3>1. n + 1 \notin a /\ n + 1 \notin b
        BY <1>4, <1>7
    <3>2. a \cup {n + 1} = b \cup {n + 1}
        BY <1>8, <2>2
    <3> QED
        BY <3>1, <3>2
  <2>3. \A b \in B : \E a \in A : f[a] = b
      BY <1>4, <1>5, <1>8
  <2> QED
      BY <2>1, <2>2, <2>3 DEF Bijection, Injection, Surjection, IsInjective
<1>10. IsFiniteSet(B) /\ Cardinality(B) = Cardinality(A)
    BY <1>6, <1>9, FS_Bijection DEF ExistsBijection
<1>11. A \cap B = {}
    BY <1>4, <1>5, <1>7
<1>12. SUBSET T = A \cup B
  <2>1. ASSUME NEW x \in SUBSET T, x \notin A
        PROVE  x \in B
    <3>1. n + 1 \in x
        BY <1>4, <1>7, <2>1
    <3>2. PICK a : a = x \ {n + 1}
        OBVIOUS
    <3>3. a \in SUBSET S /\ x = a \cup {n + 1}
        BY <1>7, <3>1, <3>2
    <3> QED
        BY <1>5, <3>3
  <2> QED
      BY <1>4, <1>5, <1>7, <2>1
<1>13. Cardinality(A \cup B) = Cardinality(A) + Cardinality(B) - Cardinality(A \cap B)
    BY <1>6, <1>10, FS_Union
<1>14. Cardinality(A) \in Nat /\ Cardinality(A \cap B) = 0
    BY <1>6, <1>11, FS_CardinalityType, FS_EmptySet
<1>15. PICK m \in Nat : m = Cardinality(A)
    BY <1>14
<1>16. Cardinality(SUBSET T) = m + m
  <2>1. PICK c : c = Cardinality(A \cup B)
      OBVIOUS
  <2>2. Cardinality(SUBSET T) = c
      BY <1>12, <2>1
  <2>3. c = m + m
      BY <1>10, <1>13, <1>14, <1>15, <2>1
  <2> QED
      BY <2>2, <2>3
<1> QED
    BY <1>6, <1>15, <1>16

\* The interval that follows the k-th datagram if none is refused.
Pace(k) == IF k < Paced THEN retransmit ELSE 2^(k - Paced + 1) * retransmit

\* A schedule grows by its paces, and the pace doubles once the paced run is out.
LEMMA PaceFacts ==
    ASSUME retransmit \in Nat \ {0}, NEW k \in Nat \ {0}
    PROVE  /\ Pace(k) \in Nat /\ SendTime(k) \in Int
           /\ SendTime(k + 1) = SendTime(k) + Pace(k)
           /\ Pace(k + 1) = IF k + 1 >= Paced THEN 2 * Pace(k) ELSE Pace(k)
           /\ SendTime(1) = 0
<1>1. PICK r \in Nat : r = retransmit
    OBVIOUS
<1>2. PICK p \in Nat \ {0} : p = Paced
    BY Constants
<1>3. (k - 1) * r \in Nat /\ k * r = (k - 1) * r + r /\ (p - 1) * r \in Nat /\ 0 * r = 0
    BY <1>1, <1>2
<1>4. CASE k + 1 <= p
  <2>1. Pace(k) = r /\ SendTime(k) = (k - 1) * r
      BY <1>1, <1>2, <1>4 DEF Pace, SendTime
  <2>2. SendTime(k + 1) = k * r
    <3>1. (k + 1) - 1 = k
        OBVIOUS
    <3> QED
        BY <1>1, <1>2, <1>4, <3>1 DEF SendTime
  <2>3. Pace(k + 1) = IF k + 1 >= p THEN 2 * r ELSE r
    <3>1. CASE k + 1 < p
        BY <1>1, <1>2, <3>1 DEF Pace
    <3>2. CASE k + 1 = p
      <4>1. PICK e : e = k + 1 - p + 1
          OBVIOUS
      <4>2. Pace(k + 1) = 2^e * r /\ e = 1
          BY <1>1, <1>2, <3>2, <4>1 DEF Pace
      <4>3. Pace(k + 1) = 2^1 * r
          BY <4>2
      <4>4. 2^1 = 2
          OBVIOUS
      <4>5. Pace(k + 1) = 2 * r
          BY <4>3, <4>4
      <4> QED
          BY <1>2, <3>2, <4>5
    <3> QED
        BY <1>2, <1>4, <3>1, <3>2
  <2>4. SendTime(1) = 0
    <3>1. SendTime(1) = (1 - 1) * r
        BY <1>1, <1>2 DEF SendTime
    <3> QED
        BY <1>3, <3>1
  <2> QED
      BY <1>2, <1>3, <2>1, <2>2, <2>3, <2>4
<1>5. CASE k >= p
  <2>1. PICK m \in Nat : m = k - p
      BY <1>2, <1>5
  <2>2. PICK a : a = 2^(m + 1)
      OBVIOUS
  <2>3. a \in Nat /\ 2^(m + 1 + 1) = 2 * a
      BY <2>1, <2>2, PowerOfTwo
  <2>4. Pace(k) = a * r
      BY <1>1, <1>2, <1>5, <2>1, <2>2 DEF Pace
  <2>5. Pace(k + 1) = 2 * (a * r)
    <3>1. k + 1 - p + 1 = m + 1 + 1 /\ ~(k + 1 < p)
        BY <1>2, <1>5, <2>1
    <3>2. Pace(k + 1) = (2 * a) * r
        BY <1>1, <1>2, <2>3, <3>1 DEF Pace
    <3> QED
        BY <2>3, <3>2
  <2>6. SendTime(k) = (p - 1) * r + (a - 2) * r
    <3>1. CASE k = p
      <4>1. SendTime(k) = (p - 1) * r
          BY <1>1, <1>2, <3>1 DEF SendTime
      <4>2. m = 0 /\ m + 1 = 1 /\ 2^1 = 2
          BY <1>2, <2>1, <3>1
      <4>3. a - 2 = 0
          BY <2>2, <4>2
      <4> QED
          BY <1>3, <4>1, <4>3
    <3>2. CASE k > p
      <4>1. k - p + 1 = m + 1 /\ ~(k <= p)
          BY <1>2, <2>1, <3>2
      <4> QED
          BY <1>1, <1>2, <2>2, <4>1 DEF SendTime
    <3> QED
        BY <1>2, <1>5, <3>1, <3>2
  <2>7. SendTime(k + 1) = (p - 1) * r + (2 * a - 2) * r
    <3>1. k + 1 - p + 1 = m + 1 + 1 /\ ~(k + 1 <= p)
        BY <1>2, <1>5, <2>1
    <3> QED
        BY <1>1, <1>2, <2>3, <3>1 DEF SendTime
  <2>8. (2 * a - 2) * r = (a - 2) * r + a * r /\ a * r \in Nat /\ (a - 2) * r \in Int
      BY <2>3
  <2>9. SendTime(1) = 0
    <3>1. SendTime(1) = (1 - 1) * r
        BY <1>1, <1>2 DEF SendTime
    <3> QED
        BY <1>3, <3>1
  <2> QED
      BY <1>2, <1>3, <1>5, <2>4, <2>5, <2>6, <2>7, <2>8, <2>9
<1> QED
    BY <1>2, <1>4, <1>5

\* The datagrams outstanding at time t, unless one was truncated, were due by then in
\* the schedule that began at s, and the next one is not sent before it is.
OnSchedule(l, s, t) ==
    /\ l.flying >= 1 => s + SendTime(l.flying) <= t
    /\ l.sendsLeft > 0 => /\ l.flying >= 1
                          /\ l.interval >= Pace(l.flying)
                          /\ l.nextSend >= s + SendTime(l.flying + 1)

PaceOK == result = "pending" /\ ~truncated => OnSchedule(Locals, start, now)

\* The schedule is that of the interval the attempt was called with.
LEMMA SameSchedule ==
    ASSUME UNCHANGED retransmit
    PROVE  \A l, s, t : OnSchedule(l, s, t) = OnSchedule(l, s, t)'
    BY DEF OnSchedule, Pace, SendTime

\* The head of the loop, when it sends a datagram that is due.
LEMMA SentOnSchedule ==
    ASSUME retransmit \in Nat \ {0}, NEW l \in LoopLocals, l.sendsLeft > 0,
           NEW s \in Nat, NEW t \in Nat, s + SendTime(l.flying + 1) <= t,
           Stretched(l) >= Pace(l.flying + 1)
    PROVE  OnSchedule(LoopHead(l, t, TRUE), s, t)
<1>1. PICK m : m = Send(l, t)
    OBVIOUS
<1>2. m \in LoopLocals /\ m.sendsLeft = l.sendsLeft - 1 /\ m.flying = l.flying + 1
    BY <1>1, SendFields
<1>3. PICK h : h = LoopHead(l, t, TRUE)
    OBVIOUS
<1>4. /\ h.sendsLeft = l.sendsLeft - 1 /\ h.flying = l.flying + 1
      /\ h.interval = m.interval /\ h.nextSend = m.nextSend
    BY <1>1, <1>2, <1>3, HurryFields DEF LoopHead
<1>5. PICK f \in Nat \ {0} : f = l.flying + 1
    BY DEF LoopLocals
<1>6. SendTime(f) \in Int /\ Pace(f) \in Nat /\ SendTime(f + 1) = SendTime(f) + Pace(f)
    BY PaceFacts
<1>7. CASE l.sendsLeft > 1
  <2>1. m.interval = Stretched(l) /\ m.nextSend = t + Stretched(l)
      BY <1>1, <1>7 DEF Send, LoopLocals
  <2>2. Stretched(l) \in Nat
      BY Constants DEF Stretched, LoopLocals
  <2>3. m.nextSend >= s + SendTime(f + 1)
      BY <1>5, <1>6, <2>1, <2>2
  <2> QED
    <3>1. h.flying = f /\ h.flying >= 1 /\ s + SendTime(f) <= t
        BY <1>4, <1>5
    <3>2. h.interval >= Pace(f) /\ h.nextSend >= s + SendTime(f + 1)
        BY <1>4, <1>5, <2>1, <2>3
    <3> QED
        BY <1>3, <3>1, <3>2 DEF OnSchedule
<1>8. CASE ~(l.sendsLeft > 1)
  <2>1. ~(h.sendsLeft > 0)
      BY <1>4, <1>8 DEF LoopLocals
  <2> QED
      BY <1>3, <1>4, <2>1 DEF OnSchedule
<1> QED
    BY <1>7, <1>8

\* The head of the loop, when it sends nothing.
LEMMA KeptOnSchedule ==
    ASSUME NEW l \in LoopLocals, NEW due \in BOOLEAN, ~(due /\ l.sendsLeft > 0),
           NEW s, NEW t \in Nat, OnSchedule(l, s, t)
    PROVE  OnSchedule(LoopHead(l, t, due), s, t)
<1>1. PICK h : h = Hurry(l, t)
    OBVIOUS
<1>2. /\ h.sendsLeft = l.sendsLeft /\ h.flying = l.flying
      /\ h.interval = l.interval /\ h.nextSend = l.nextSend
    BY <1>1, HurryFields
<1>3. LoopHead(l, t, due) = h
    BY <1>1 DEF LoopHead
<1> QED
    BY <1>2, <1>3 DEF OnSchedule

\* An attempt opens on schedule.
LEMMA OpenedOnSchedule ==
    ASSUME retransmit \in Nat \ {0}, NEW t \in Nat
    PROVE  OnSchedule(Opened(retransmit, t), t, t)
<1>1. PICK l : l = [sendsLeft |-> Datagrams, flying |-> 0, interval |-> retransmit,
                    nextSend |-> Off, tcpDue |-> t + JoinDelay]
    OBVIOUS
<1>2. Off \in Timer /\ t + JoinDelay \in Timer /\ Datagrams \in Nat \ {0} /\ Paced \in Nat \ {0}
    BY Constants DEF Timer
<1>3. l \in LoopLocals
    BY <1>1, <1>2 DEF LoopLocals
<1>4. l.sendsLeft = Datagrams /\ l.flying = 0 /\ l.interval = retransmit /\ l.flying + 1 = 1
    BY <1>1
<1>5. SendTime(1) = 0
    BY PaceFacts
<1>6. Stretched(l) >= Pace(1)
  <2>1. Datagrams - (l.sendsLeft - 1) = 1
      BY <1>2, <1>4
  <2>2. CASE 1 < Paced
      BY <1>2, <1>4, <2>1, <2>2 DEF Stretched, Pace
  <2>3. CASE Paced = 1
    <3>1. Stretched(l) = 2 * retransmit
        BY <1>4, <2>1, <2>3 DEF Stretched
    <3>2. PICK e : e = 1 - Paced + 1
        OBVIOUS
    <3>3. Pace(1) = 2^e * retransmit /\ e = 1
        BY <2>3, <3>2 DEF Pace
    <3>4. Pace(1) = 2^1 * retransmit
        BY <3>3
    <3>5. 2^1 = 2
        OBVIOUS
    <3>6. Pace(1) = 2 * retransmit
        BY <3>4, <3>5
    <3> QED
        BY <3>1, <3>6
  <2> QED
      BY <1>2, <2>2, <2>3
<1>7. t + SendTime(l.flying + 1) <= t /\ Stretched(l) >= Pace(l.flying + 1) /\ l.sendsLeft > 0
    BY <1>2, <1>4, <1>5, <1>6
<1>8. OnSchedule(LoopHead(l, t, TRUE), t, t)
    BY <1>3, <1>7, SentOnSchedule
<1> QED
    BY <1>1, <1>8 DEF Opened

\* The loop goes on from locals whose head keeps to the schedule.
LEMMA ResumeOnSchedule ==
    ASSUME NEW l, NEW running, NEW err, NEW due, Resume(l, running, err, due),
           OnSchedule(LoopHead(l, now, due), start, now)
    PROVE  PaceOK'
<1>1. PICK h : h = LoopHead(l, now, due)
    OBVIOUS
<1>2. /\ sendsLeft' = h.sendsLeft /\ flying' = h.flying /\ interval' = h.interval
      /\ nextSend' = h.nextSend /\ tcpDue' = h.tcpDue
      /\ now' = now /\ start' = start /\ retransmit' = retransmit
    BY <1>1 DEF Resume
<1>3. PICK k : k = Locals'
    OBVIOUS
<1>4. /\ k.sendsLeft = h.sendsLeft /\ k.flying = h.flying /\ k.interval = h.interval
      /\ k.nextSend = h.nextSend
    BY <1>2, <1>3 DEF Locals
<1>5. OnSchedule(k, start, now)
    BY <1>1, <1>4 DEF OnSchedule
<1>6. PICK s, t : s = start /\ t = now
    OBVIOUS
<1>7. OnSchedule(k, s, t)'
    BY <1>2, <1>5, <1>6, SameSchedule
<1> QED
    BY <1>2, <1>3, <1>6, <1>7 DEF PaceOK

\* What the locals are while an attempt is pending and no response was truncated.
LEMMA PendingFacts ==
    ASSUME Inv, PaceOK, result = "pending", ~truncated
    PROVE  /\ Locals \in LoopLocals /\ OnSchedule(Locals, start, now)
           /\ now \in Nat /\ start \in Nat /\ start <= now /\ retransmit \in Nat \ {0}
           /\ sendsLeft \in Nat /\ flying \in Nat /\ interval \in Nat /\ refused \in Nat
           /\ flying + refused = Datagrams - sendsLeft /\ Datagrams \in Nat
           /\ IsOn(nextSend) <=> sendsLeft > 0
           /\ nextSend \in Timer
<1>1. TypeOK /\ DatagramsOK
    BY DEF Inv
<1>2. Locals \in LoopLocals
  <2>1. /\ sendsLeft \in Nat /\ flying \in Nat /\ interval \in Nat \ {0}
        /\ nextSend \in Timer /\ tcpDue \in Timer
      BY <1>1, Constants DEF TypeOK
  <2> QED
      BY <2>1 DEF Locals, LoopLocals
<1> QED
    BY <1>1, <1>2, Constants DEF TypeOK, DatagramsOK, PaceOK

\* Every step keeps to the schedule.
LEMMA NextKeepsPace == Inv /\ PaceOK /\ [Next]_vars => PaceOK'
<1> SUFFICES ASSUME Inv, PaceOK, [Next]_vars, result' = "pending", ~truncated'
             PROVE  PaceOK'
    BY DEF PaceOK
<1>1. retransmit \in Nat \ {0} /\ now \in Nat /\ start \in Nat /\ start <= now
    BY Constants DEF Inv, TypeOK
<1>2. ASSUME NEW a \in Answers, result = "pending", Answered(a)
      PROVE  PaceOK'
  <2>1. CASE a = "formErr" /\ edns
    <3>1. PICK o : o = Opened(retransmit, now)
        OBVIOUS
    <3>2. /\ now' = now /\ start' = now /\ retransmit' = retransmit
          /\ sendsLeft' = o.sendsLeft /\ flying' = o.flying /\ interval' = o.interval
          /\ nextSend' = o.nextSend
        BY <1>2, <2>1, <3>1 DEF Answered, Retry
    <3>3. OnSchedule(o, now, now)
        BY <1>1, <3>1, OpenedOnSchedule
    <3>4. PICK k : k = Locals'
        OBVIOUS
    <3>5. /\ k.sendsLeft = o.sendsLeft /\ k.flying = o.flying /\ k.interval = o.interval
          /\ k.nextSend = o.nextSend
        BY <3>2, <3>4 DEF Locals
    <3>6. OnSchedule(k, now, now)
        BY <3>3, <3>5 DEF OnSchedule
    <3>7. PICK t : t = now
        OBVIOUS
    <3>8. OnSchedule(k, t, t)'
        BY <3>2, <3>6, <3>7, SameSchedule
    <3> QED
        BY <3>2, <3>4, <3>7, <3>8 DEF PaceOK
  <2>2. CASE ~(a = "formErr" /\ edns)
      BY <1>2, <2>2 DEF Answered, Return, Answers
  <2> QED
      BY <2>1, <2>2
<1>3. CASE DatagramTruncated
    BY <1>3 DEF DatagramTruncated
<1>4. CASE DatagramFails
  <2>1. /\ Locals \in LoopLocals /\ OnSchedule(Locals, start, now)
        /\ sendsLeft \in Nat /\ flying \in Nat /\ interval \in Nat /\ refused \in Nat
        /\ flying + refused = Datagrams - sendsLeft /\ Datagrams \in Nat
        /\ IsOn(nextSend) <=> sendsLeft > 0
      BY <1>4, PendingFacts DEF DatagramFails
  <2>2. flying > 0 /\ Resume([Locals EXCEPT !.flying = @ - 1], tcp, TRUE, TRUE)
      BY <1>4 DEF DatagramFails
  <2>3. PICK l : l = [Locals EXCEPT !.flying = @ - 1]
      OBVIOUS
  <2>4. l \in LoopLocals
    <3>1. l = [Locals EXCEPT !.flying = flying - 1] /\ flying - 1 \in Nat
        BY <2>1, <2>2, <2>3 DEF Locals
    <3> QED
        BY <2>1, <3>1 DEF LoopLocals
  <2>5. /\ l.sendsLeft = sendsLeft /\ l.flying = flying - 1 /\ l.interval = interval
        /\ l.nextSend = nextSend
      BY <2>3 DEF Locals
  <2>6. PICK k \in Nat \ {0} : k = flying /\ l.flying + 1 = k
      BY <2>1, <2>2, <2>5
  <2>7. start + SendTime(k) <= now /\ (sendsLeft > 0 => interval >= Pace(k))
      BY <2>1, <2>6 DEF OnSchedule, Locals
  <2>8. CASE sendsLeft > 0
    <3>1. Pace(k) \in Nat
        BY <1>1, PaceFacts
    <3>2. Stretched(l) >= Pace(k)
        BY <2>1, <2>5, <2>7, <2>8, <3>1 DEF Stretched
    <3>3. OnSchedule(LoopHead(l, now, TRUE), start, now)
        BY <1>1, <2>4, <2>5, <2>6, <2>7, <2>8, <3>2, SentOnSchedule
    <3> QED
        BY <2>2, <2>3, <3>3, ResumeOnSchedule
  <2>9. CASE ~(sendsLeft > 0)
    <3>1. l.flying >= 1 => start + SendTime(l.flying) <= now
      <4>1. CASE l.flying >= 1
        <5>1. PICK j \in Nat \ {0} : j = l.flying /\ k = j + 1
            BY <2>4, <2>6, <4>1 DEF LoopLocals
        <5>2. SendTime(j + 1) = SendTime(j) + Pace(j) /\ Pace(j) \in Nat /\ SendTime(j) \in Int
            BY <1>1, PaceFacts
        <5> QED
            BY <1>1, <2>7, <5>1, <5>2
      <4> QED
          BY <4>1
    <3>2. OnSchedule(l, start, now)
        BY <2>5, <2>9, <3>1 DEF OnSchedule
    <3>3. OnSchedule(LoopHead(l, now, TRUE), start, now)
        BY <1>1, <2>4, <2>5, <2>9, <3>2, KeptOnSchedule
    <3> QED
        BY <2>2, <2>3, <3>3, ResumeOnSchedule
  <2> QED
      BY <2>8, <2>9
<1>5. CASE TcpFails
  <2>1. Locals \in LoopLocals /\ OnSchedule(Locals, start, now)
      BY <1>5, PendingFacts DEF TcpFails, history
  <2>2. OnSchedule(LoopHead(Locals, now, FALSE), start, now)
      BY <1>1, <2>1, KeptOnSchedule
  <2> QED
      BY <1>5, <2>2, ResumeOnSchedule DEF TcpFails
<1>6. CASE SendTimer
  <2>1. /\ Locals \in LoopLocals /\ OnSchedule(Locals, start, now)
        /\ sendsLeft \in Nat /\ flying \in Nat /\ interval \in Nat /\ refused \in Nat
        /\ flying + refused = Datagrams - sendsLeft /\ Datagrams \in Nat
        /\ IsOn(nextSend) <=> sendsLeft > 0
      BY <1>6, PendingFacts DEF SendTimer, history
  <2>2. /\ IsOn(nextSend) /\ nextSend <= now
        /\ Resume([Locals EXCEPT !.nextSend = Off], tcp, lastErr, TRUE)
      BY <1>6 DEF SendTimer, Due
  <2>3. PICK l : l = [Locals EXCEPT !.nextSend = Off]
      OBVIOUS
  <2>4. l \in LoopLocals
      BY <2>1, <2>3 DEF LoopLocals, Timer
  <2>5. l.sendsLeft = sendsLeft /\ l.flying = flying /\ l.interval = interval
      BY <2>3 DEF Locals
  <2>6. sendsLeft > 0 /\ flying >= 1 /\ interval >= Pace(flying)
        /\ nextSend >= start + SendTime(flying + 1)
      BY <2>1, <2>2 DEF OnSchedule, Locals
  <2>7. PICK k \in Nat \ {0} : k = flying
      BY <2>1, <2>6
  <2>8. /\ Pace(k) \in Nat /\ Pace(k + 1) = IF k + 1 >= Paced THEN 2 * Pace(k) ELSE Pace(k)
        /\ SendTime(k + 1) \in Int
    <3>1. SendTime(k + 1) = SendTime(k) + Pace(k) /\ SendTime(k) \in Int /\ Pace(k) \in Nat
          /\ Pace(k + 1) = IF k + 1 >= Paced THEN 2 * Pace(k) ELSE Pace(k)
        BY <1>1, PaceFacts
    <3> QED
        BY <3>1
  <2>9. Stretched(l) >= Pace(l.flying + 1)
    <3>1. Datagrams - (l.sendsLeft - 1) >= k + 1
        BY <2>1, <2>5, <2>7
    <3>2. Stretched(l) = IF Datagrams - (l.sendsLeft - 1) >= Paced THEN 2 * interval ELSE interval
        BY <2>5 DEF Stretched
    <3>3. interval >= Pace(k)
        BY <2>6, <2>7
    <3>4. Stretched(l) >= Pace(k + 1)
        BY <2>1, <2>5, <2>8, <3>1, <3>2, <3>3, Constants
    <3> QED
        BY <2>5, <2>7, <3>4
  <2>10. start + SendTime(l.flying + 1) <= now
    <3>1. nextSend \in Nat
        BY <1>6, <2>2, PendingFacts DEF SendTimer, history, IsOn, Timer
    <3> QED
        BY <1>1, <2>2, <2>5, <2>6, <2>7, <2>8, <3>1
  <2>11. OnSchedule(LoopHead(l, now, TRUE), start, now)
      BY <1>1, <2>4, <2>5, <2>6, <2>9, <2>10, SentOnSchedule
  <2> QED
      BY <2>2, <2>3, <2>11, ResumeOnSchedule
<1>7. CASE JoinTimer
  <2>1. Locals \in LoopLocals /\ OnSchedule(Locals, start, now)
      BY <1>7, PendingFacts DEF JoinTimer
  <2>2. PICK l : l = [Locals EXCEPT !.tcpDue = Off]
      OBVIOUS
  <2>3. l \in LoopLocals
      BY <2>1, <2>2 DEF LoopLocals, Timer
  <2>4. OnSchedule(l, start, now)
      BY <2>1, <2>2 DEF OnSchedule, Locals
  <2>5. OnSchedule(LoopHead(l, now, FALSE), start, now)
      BY <1>1, <2>3, <2>4, KeptOnSchedule
  <2> QED
      BY <1>7, <2>2, <2>5, ResumeOnSchedule DEF JoinTimer
<1>8. CASE TimesOut
    BY <1>8 DEF TimesOut, Return
<1>9. CASE Tick
  <2>1. OnSchedule(Locals, start, now) /\ flying \in Nat
      BY <1>9, PendingFacts DEF Tick, history
  <2>2. /\ now' = now + 1 /\ start' = start /\ retransmit' = retransmit /\ Locals' = Locals
      BY <1>9 DEF Tick, loopVars, Locals
  <2>3. PICK l, s, t : l = Locals /\ s = start /\ t = now + 1
      OBVIOUS
  <2>4. OnSchedule(l, s, t)
    <3>1. l.flying >= 1 => start + SendTime(l.flying) <= now + 1
      <4>1. CASE l.flying >= 1
        <5>1. PICK k \in Nat \ {0} : k = l.flying
            BY <2>1, <2>3, <4>1 DEF Locals
        <5>2. SendTime(k) \in Int
            BY <1>1, PaceFacts
        <5> QED
            BY <1>1, <2>1, <2>3, <4>1, <5>1, <5>2 DEF OnSchedule
      <4> QED
          BY <4>1
    <3> QED
        BY <2>1, <2>3, <3>1 DEF OnSchedule
  <2>5. OnSchedule(l, s, t)'
      BY <2>2, <2>4, SameSchedule
  <2> QED
      BY <2>2, <2>3, <2>5 DEF PaceOK
<1>10. CASE UNCHANGED vars
    BY <1>10 DEF PaceOK, OnSchedule, Pace, SendTime, Locals, vars, loopVars, history
<1> QED
    BY <1>2, <1>3, <1>4, <1>5, <1>6, <1>7, <1>8, <1>9, <1>10
    DEF Next, DatagramAnswers, TcpAnswers

\* Apart from the datagrams that replace refused ones, none goes out ahead of the
\* schedule of the pacing, however long refusals, the TCP query and answers are
\* awaited in between.
THEOREM AttemptPacesSends == Spec => []PacedSends
<1>1. Init => PaceOK
  <2> SUFFICES ASSUME Init
               PROVE  PaceOK
      OBVIOUS
  <2>1. PICK o : o = Opened(retransmit, 0)
      OBVIOUS
  <2>2. OnSchedule(o, 0, 0)
      BY <2>1, OpenedOnSchedule, Constants DEF Init
  <2>3. /\ sendsLeft = o.sendsLeft /\ flying = o.flying /\ interval = o.interval
        /\ nextSend = o.nextSend /\ start = 0 /\ now = 0
      BY <2>1 DEF Init
  <2> QED
      BY <2>2, <2>3 DEF PaceOK, OnSchedule, Locals
<1>2. Inv /\ PaceOK => PacedSends
  <2> SUFFICES ASSUME Inv, PaceOK, result = "pending", ~truncated
               PROVE  LET sent == Datagrams - sendsLeft
                      IN sent - refused <= 1 \/ start + SendTime(sent - refused) <= now
      BY DEF PacedSends
  <2>1. /\ OnSchedule(Locals, start, now) /\ flying \in Nat /\ refused \in Nat
        /\ flying + refused = Datagrams - sendsLeft
      BY PendingFacts
  <2>2. (Datagrams - sendsLeft) - refused = flying
      BY <2>1
  <2>3. flying >= 1 => start + SendTime(flying) <= now
      BY <2>1 DEF OnSchedule, Locals
  <2> QED
      BY <2>1, <2>2, <2>3
<1>3. Inv /\ PaceOK /\ [Next]_vars => PaceOK'
    BY NextKeepsPace
<1> QED
    BY <1>1, <1>2, <1>3, AttemptInvariant, PTL DEF Spec

=============================================================================
