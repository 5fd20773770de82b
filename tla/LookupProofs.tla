---------------------------- MODULE LookupProofs ----------------------------
(***************************************************************************)
(* Proofs about Lookup, for any tasks, hosts, search lists, slots of the   *)
(* cache, zones and TTLs and any caps and bounds: Inv is inductive, and    *)
(* the safety properties of the runs that pass follow from it.             *)
(***************************************************************************)
EXTENDS Lookup, SequenceTheorems, TLAPS

-----------------------------------------------------------------------------
(* The cache as a sequence over any set G of entries.                      *)

\* No slot has two entries.
OnePerSlot(c) == \A i, j \in DOMAIN c : Slot[c[i].name] = Slot[c[j].name] => i = j

\* What RemoveAt leaves is where it was, or one place ahead of it.
LEMMA RemovedFacts ==
    ASSUME NEW G, NEW c \in Seq(G), NEW i \in 1..Len(c)
    PROVE  /\ RemoveAt(c, i) \in Seq(G)
           /\ Len(RemoveAt(c, i)) = Len(c) - 1
           /\ \A j \in 1..(Len(c) - 1) :
                 RemoveAt(c, i)[j] = c[IF j < i THEN j ELSE j + 1]
<1>1. PICK a : a = SubSeq(c, 1, i - 1)
    OBVIOUS
<1>2. PICK b : b = SubSeq(c, i + 1, Len(c))
    OBVIOUS
<1>3. Len(c) \in Nat
    OBVIOUS
<1>4. a \in Seq(G) /\ Len(a) = i - 1 /\ \A j \in 1..(i - 1) : a[j] = c[j]
    BY <1>1, <1>3, SubSeqProperties
<1>5. b \in Seq(G) /\ Len(b) = Len(c) - i /\ \A j \in 1..(Len(c) - i) : b[j] = c[i + j]
    BY <1>2, <1>3, SubSeqProperties
<1>6. /\ a \o b \in Seq(G) /\ Len(a \o b) = Len(a) + Len(b)
      /\ \A j \in 1..Len(a) + Len(b) : (a \o b)[j] = IF j <= Len(a) THEN a[j] ELSE b[j - Len(a)]
    BY <1>4, <1>5, ConcatProperties
<1>7. RemoveAt(c, i) = a \o b
    BY <1>1, <1>2 DEF RemoveAt
<1>8. ASSUME NEW j \in 1..(Len(c) - 1)
      PROVE  (a \o b)[j] = c[IF j < i THEN j ELSE j + 1]
  <2>1. CASE j < i
      BY <1>3, <1>4, <1>5, <1>6, <2>1
  <2>2. CASE ~(j < i)
    <3>1. (a \o b)[j] = b[j - (i - 1)]
        BY <1>3, <1>4, <1>5, <1>6, <2>2
    <3>2. j - (i - 1) \in 1..(Len(c) - i)
        BY <1>3, <2>2
    <3>3. b[j - (i - 1)] = c[i + (j - (i - 1))]
        BY <1>5, <3>2
    <3> QED
        BY <2>2, <3>1, <3>3
  <2> QED
      BY <2>1, <2>2
<1>9. Len(a \o b) = Len(c) - 1
    BY <1>3, <1>4, <1>5, <1>6
<1> QED
    BY <1>6, <1>7, <1>8, <1>9

\* Without the entry in a slot the others are there, and none is in the slot.
LEMMA ElsewhereFacts ==
    ASSUME NEW G, NEW c \in Seq(G), OnePerSlot(c), NEW n, NEW w, w = Elsewhere(c, n)
    PROVE  /\ w \in Seq(G) /\ OnePerSlot(w)
           /\ \A j \in DOMAIN w : Slot[w[j].name] # Slot[n]
           /\ Len(w) = IF InSlot(c, n) = {} THEN Len(c) ELSE Len(c) - 1
<1>1. CASE InSlot(c, n) = {}
    BY <1>1 DEF Elsewhere, InSlot
<1>2. CASE InSlot(c, n) # {}
  <2>1. PICK i : i = CHOOSE j \in InSlot(c, n) : TRUE
      OBVIOUS
  <2>2. i \in DOMAIN c /\ Slot[c[i].name] = Slot[n]
      BY <1>2, <2>1 DEF InSlot
  <2>3. w = RemoveAt(c, i) /\ i \in 1..Len(c) /\ Len(c) \in Nat
      BY <1>2, <2>1, <2>2 DEF Elsewhere
  <2>4. /\ w \in Seq(G) /\ Len(w) = Len(c) - 1
        /\ \A j \in 1..(Len(c) - 1) : w[j] = c[IF j < i THEN j ELSE j + 1]
      BY <2>3, RemovedFacts
  <2>5. DOMAIN w = 1..(Len(c) - 1) /\ DOMAIN c = 1..Len(c)
      BY <2>4
  <2>6. \A j \in DOMAIN w : Slot[w[j].name] # Slot[n]
    <3> SUFFICES ASSUME NEW j \in DOMAIN w
                 PROVE  Slot[w[j].name] # Slot[n]
        OBVIOUS
    <3>1. PICK k : k = IF j < i THEN j ELSE j + 1
        OBVIOUS
    <3>2. k \in DOMAIN c /\ k # i /\ w[j] = c[k]
        BY <2>3, <2>4, <2>5, <3>1
    <3> QED
        BY <2>2, <3>2 DEF OnePerSlot
  <2>7. OnePerSlot(w)
    <3> SUFFICES ASSUME NEW j \in DOMAIN w, NEW k \in DOMAIN w,
                        Slot[w[j].name] = Slot[w[k].name]
                 PROVE  j = k
        BY DEF OnePerSlot
    <3>1. PICK p : p = IF j < i THEN j ELSE j + 1
        OBVIOUS
    <3>2. PICK q : q = IF k < i THEN k ELSE k + 1
        OBVIOUS
    <3>3. p \in DOMAIN c /\ q \in DOMAIN c /\ w[j] = c[p] /\ w[k] = c[q]
        BY <2>3, <2>4, <2>5, <3>1, <3>2
    <3>4. p = q
        BY <3>3 DEF OnePerSlot
    <3> QED
        BY <2>3, <2>5, <3>1, <3>2, <3>4
  <2> QED
      BY <1>2, <2>4, <2>6, <2>7
<1> QED
    BY <1>1, <1>2

\* An entry ahead of others whose slots are not its own.
LEMMA InFrontFacts ==
    ASSUME NEW G, NEW w \in Seq(G), OnePerSlot(w), NEW e \in G,
           \A j \in DOMAIN w : Slot[w[j].name] # Slot[e.name]
    PROVE  /\ <<e>> \o w \in Seq(G) /\ OnePerSlot(<<e>> \o w)
           /\ Len(<<e>> \o w) = Len(w) + 1
<1>1. PICK f : f = <<e>>
    OBVIOUS
<1>2. f \in Seq(G) /\ Len(f) = 1 /\ f[1] = e
    BY <1>1
<1>3. PICK all : all = f \o w
    OBVIOUS
<1>7. /\ all \in Seq(G) /\ Len(all) = Len(f) + Len(w)
      /\ \A j \in 1..Len(f) + Len(w) : all[j] = IF j <= Len(f) THEN f[j] ELSE w[j - Len(f)]
    BY <1>2, <1>3, ConcatProperties
<1>4. /\ all \in Seq(G) /\ Len(all) = 1 + Len(w)
      /\ \A j \in 1..(1 + Len(w)) : all[j] = IF j <= 1 THEN f[j] ELSE w[j - 1]
    BY <1>2, <1>7
<1>5. Len(w) \in Nat /\ DOMAIN w = 1..Len(w) /\ DOMAIN all = 1..(1 + Len(w))
    BY <1>4
<1>6. OnePerSlot(all)
  <2> SUFFICES ASSUME NEW j \in DOMAIN all, NEW k \in DOMAIN all, j < k
               PROVE  Slot[all[j].name] # Slot[all[k].name]
    <3>1. \A j, k \in DOMAIN all : j = k \/ j < k \/ k < j
        BY <1>5
    <3> QED
        BY <3>1 DEF OnePerSlot
  <2>1. k - 1 \in DOMAIN w /\ all[k] = w[k - 1]
      BY <1>4, <1>5
  <2>2. CASE j = 1
    <3>1. all[j] = e
        BY <1>2, <1>4, <1>5, <2>2
    <3> QED
        BY <2>1, <3>1
  <2>3. CASE j > 1
    <3>1. j - 1 \in DOMAIN w /\ all[j] = w[j - 1] /\ j - 1 # k - 1
        BY <1>4, <1>5, <2>3
    <3> QED
        BY <2>1, <3>1 DEF OnePerSlot
  <2> QED
      BY <1>5, <2>2, <2>3
<1> QED
    BY <1>1, <1>3, <1>4, <1>5, <1>6

\* A probe keeps the entries, each once.
LEMMA TouchFacts ==
    ASSUME NEW G, NEW c \in Seq(G), OnePerSlot(c), NEW n
    PROVE  Touch(c, n) \in Seq(G) /\ OnePerSlot(Touch(c, n)) /\ Len(Touch(c, n)) = Len(c)
<1>1. CASE InSlot(c, n) = {}
    BY <1>1 DEF Touch
<1>2. CASE InSlot(c, n) # {}
  <2>1. PICK i : i = CHOOSE j \in InSlot(c, n) : TRUE
      OBVIOUS
  <2>2. PICK w : w = Elsewhere(c, n)
      OBVIOUS
  <2>3. i \in DOMAIN c /\ Slot[c[i].name] = Slot[n] /\ c[i] \in G
      BY <1>2, <2>1 DEF InSlot
  <2>4. /\ w \in Seq(G) /\ OnePerSlot(w) /\ Len(w) = Len(c) - 1
        /\ \A j \in DOMAIN w : Slot[w[j].name] # Slot[n]
      BY <1>2, <2>2, ElsewhereFacts
  <2>5. PICK e \in G : e = c[i]
      BY <2>3
  <2>6. \A j \in DOMAIN w : Slot[w[j].name] # Slot[e.name]
      BY <2>3, <2>4, <2>5
  <2>7. <<e>> \o w \in Seq(G) /\ OnePerSlot(<<e>> \o w) /\ Len(<<e>> \o w) = Len(w) + 1
      BY <2>4, <2>6, InFrontFacts
  <2>8. Touch(c, n) = <<e>> \o w
      BY <1>2, <2>1, <2>2, <2>5 DEF Touch
  <2>9. Len(c) \in Nat
      OBVIOUS
  <2> QED
      BY <2>4, <2>7, <2>8, <2>9
<1> QED
    BY <1>1, <1>2

\* A new entry takes the place of the one in its slot, or of the last one, and none
\* is made for a TTL of 0.
LEMMA InsertFacts ==
    ASSUME NEW G, NEW c \in Seq(G), OnePerSlot(c), Len(c) <= Capacity,
           NEW n, NEW result, NEW ttl, NEW t, NEW lost,
           ttl # 0 => [name |-> n, result |-> result, at |-> t,
                       ttl |-> IF ttl > MaxTtl THEN MaxTtl ELSE ttl, lost |-> lost] \in G
    PROVE  /\ Insert(c, n, result, ttl, t, lost) \in Seq(G)
           /\ OnePerSlot(Insert(c, n, result, ttl, t, lost))
           /\ Len(Insert(c, n, result, ttl, t, lost)) <= Capacity
<1>1. CASE ttl = 0
    BY <1>1 DEF Insert
<1>2. CASE ttl # 0
  <2>1. PICK e \in G : e = [name |-> n, result |-> result, at |-> t,
                           ttl |-> IF ttl > MaxTtl THEN MaxTtl ELSE ttl, lost |-> lost]
      BY <1>2
  <2>2. PICK w : w = Elsewhere(c, n)
      OBVIOUS
  <2>3. PICK all : all = <<e>> \o w
      OBVIOUS
  <2>4. w \in Seq(G) /\ OnePerSlot(w) /\ \A j \in DOMAIN w : Slot[w[j].name] # Slot[n]
      BY <2>2, ElsewhereFacts
  <2>5. e.name = n
      BY <2>1
  <2>6. all \in Seq(G) /\ OnePerSlot(all) /\ Len(all) = Len(w) + 1
      BY <2>3, <2>4, <2>5, InFrontFacts
  <2>7. PICK m : m = IF Len(all) > Capacity THEN Capacity ELSE Len(all)
      OBVIOUS
  <2>8. Insert(c, n, result, ttl, t, lost) = SubSeq(all, 1, m)
      BY <1>2, <2>1, <2>2, <2>3, <2>7 DEF Insert
  <2>9. Len(all) \in Nat /\ m \in Nat /\ m <= Len(all) /\ m <= Capacity /\ Capacity \in Nat
      BY <2>6, <2>7, CacheAssumption
  <2>10. PICK s : s = SubSeq(all, 1, m)
      OBVIOUS
  <2>11. /\ s \in Seq(G) /\ Len(s) = m /\ DOMAIN s = 1..m
         /\ \A j \in 1..m : s[j] = all[j]
      BY <2>6, <2>9, <2>10, SubSeqProperties
  <2>12. OnePerSlot(s)
    <3>1. \A j \in DOMAIN s : j \in DOMAIN all /\ s[j] = all[j]
        BY <2>6, <2>9, <2>11
    <3> QED
        BY <2>6, <3>1 DEF OnePerSlot
  <2> QED
      BY <2>8, <2>9, <2>10, <2>11, <2>12
<1> QED
    BY <1>1, <1>2

-----------------------------------------------------------------------------
(* The invariant.                                                          *)

States == Absent \cup Version

\* A lookup that is under way.
Walk == [pc : {"asking", "replied"}, host : Host, i : Nat \ {0},
         reply : States \cup {"none", "transient", "fatal"}, ttl : Int, at : Nat,
         firstNegative : Absent \cup {"none"}, negativeTtl : 0..NegMax, lost : SUBSET Name]

Result == {NoData, NxDomain} \cup {Positive(n, v) : n \in Name, v \in Version}

Outcome == [pc : {"done"}, host : Host, result : Result \cup {Failed},
            from : {"cache", "server", "stale"}, at : Nat, lost : SUBSET Name]

\* The i-th candidate of a host.
Cand(h, i) == Candidates[h][i]

\* Some host has n as a candidate, and those ahead of it had no records or failed.
Reached(n, lost) ==
    \E g \in Host : \E i \in DOMAIN Candidates[g] :
        /\ Cand(g, i) = n
        /\ \A j \in 1..(i - 1) : zone[Cand(g, j)] \in Version => Cand(g, j) \in lost

\* Every candidate of a host that is cached under n was absent since t.
AllAbsent(n, kind, t) ==
    \E g \in Host :
        /\ Key[g] = n
        /\ \A j \in DOMAIN Candidates[g] :
              HeldSince(Cand(g, j), Absent, t - Len(Candidates[g]) * Flight)
        /\ changes = 0 => /\ \A j \in DOMAIN Candidates[g] : zone[Cand(g, j)] \in Absent
                          /\ kind = zone[Cand(g, 1)]

\* What an entry says was so when it was asked for, and still is if nothing changed.
EntryOK(e) ==
    /\ e.at <= now
    /\ IsPositive(e.result) =>
          /\ e.result.name = e.name
          /\ HeldSince(e.name, {e.result.version}, e.at - Flight)
          /\ changes = 0 => e.result.version = zone[e.name] /\ Reached(e.name, e.lost)
    /\ ~IsPositive(e.result) =>
          /\ e.ttl <= NegMax /\ e.lost = {}
          /\ AllAbsent(e.name, e.result.kind, e.at)

Good == {e \in Entry : EntryOK(e)}

\* The first m candidates of a lookup failed or were absent since t, no other failed,
\* and first_negative is the first that was absent.
PassedOver(w, m, t) ==
    /\ \A n \in w.lost : \E j \in 1..m : n = Cand(w.host, j)
    /\ \A j \in 1..m : Cand(w.host, j) \in w.lost \/ HeldSince(Cand(w.host, j), Absent, t)
    /\ w.firstNegative = "none" => \A j \in 1..m : Cand(w.host, j) \in w.lost
    /\ changes = 0 =>
          /\ \A j \in 1..m : Cand(w.host, j) \in w.lost \/ zone[Cand(w.host, j)] \in Absent
          /\ w.firstNegative # "none" =>
                \E k \in 1..m :
                    /\ w.firstNegative = zone[Cand(w.host, k)]
                    /\ \A j \in 1..(k - 1) : Cand(w.host, j) \in w.lost
                    /\ Cand(w.host, k) \in w.lost =>
                          \E l \in DOMAIN Candidates[w.host] :
                              l # k /\ Cand(w.host, l) = Cand(w.host, k)

\* A reply was true of its candidate since it was asked for.
ReplyOK(w) ==
    /\ w.reply \in Version => w.ttl \in Nat /\ HeldSince(Current(w), {w.reply}, w.at)
    /\ w.reply \in Absent => w.ttl \in Nat \cup {NoSoa} /\ HeldSince(Current(w), Absent, w.at)
    /\ changes = 0 /\ w.reply \in States => w.reply = zone[Current(w)]

WalkOK(w) ==
    /\ w \in Walk /\ w.i <= Len(Candidates[w.host])
    /\ w.at <= now /\ now <= w.at + Flight
    /\ w.pc = "replied" => ReplyOK(w)
    /\ PassedOver(w, w.i - 1, w.at - (w.i - 1) * Flight)

\* The properties, of one lookup that has ended.
TrueLately(o) == LET window == IF o.from = "stale" THEN MaxStale ELSE 0
             IN HeldSince(o.result.name, {o.result.version}, o.at - (MaxTtl + Flight + window))

AbsentLately(o) ==
    \E g \in Askers(o) :
        LET unlearnt == IF o.from = "server" THEN o.lost ELSE {}
        IN /\ Key[g] = Key[o.host]
           /\ \A n \in Range(Candidates[g]) \ unlearnt :
                 HeldSince(n, Absent, o.at - (NegMax + Len(Candidates[g]) * Flight))

OutcomeOK(o) ==
    /\ o \in Outcome /\ o.at <= now
    /\ IsPositive(o.result) => TrueLately(o)
    /\ o.result \in {NoData, NxDomain} => AbsentLately(o)
    /\ changes = 0 => \E g \in Askers(o) : Follows(o, g)

TaskOK(t) ==
    /\ t.pc \in {"idle", "asking", "replied", "done"}
    /\ t.pc \in {"asking", "replied"} => WalkOK(t)
    /\ t.pc = "done" => OutcomeOK(t)

WorldOK ==
    /\ now \in 0..MaxTime /\ changes \in Nat
    /\ zone \in [Name -> States]
    /\ lastHeld \in [Name -> [States -> Never..MaxTime]]
    /\ \A n \in Name, z \in States : lastHeld[n][z] <= now

CacheOK(c) == c \in Seq(Good) /\ OnePerSlot(c) /\ Len(c) <= Capacity

Inv == /\ WorldOK
       /\ CacheOK(cache)
       /\ task = [p \in Task |-> task[p]]
       /\ \A p \in Task : TaskOK(task[p])

-----------------------------------------------------------------------------
(* Time passes and the zone changes.                                       *)

\* What the assumptions say of each constant.
LEMMA Constants ==
    /\ {MinTtl, NegMax, NegTtl, Flight, MaxTime} \subseteq Nat
    /\ MaxTtl \in Nat \ {0} /\ Capacity \in Nat \ {0}
    /\ MaxStale \in Nat \cup {-1}
    /\ Ttls \subseteq Nat /\ SoaTtls \subseteq Nat \cup {-1}
    /\ Version \cap {"nodata", "nxdomain", "none", "transient", "fatal"} = {}
    BY LookupAssumption, CacheAssumption DEF NoStale, NoSoa

\* Hosts have candidates, which are names, and their key is one of them.
LEMMA HostFacts ==
    ASSUME NEW h \in Host
    PROVE  /\ Candidates[h] \in Seq(Name)
           /\ Len(Candidates[h]) \in Nat \ {0}
           /\ DOMAIN Candidates[h] = 1..Len(Candidates[h])
           /\ \A i \in 1..Len(Candidates[h]) : Cand(h, i) \in Name
           /\ Range(Candidates[h]) = {Cand(h, i) : i \in 1..Len(Candidates[h])}
           /\ Key[h] \in Name
           /\ \E i \in 1..Len(Candidates[h]) : Cand(h, i) = Key[h]
<1>1. Candidates[h] \in Seq(Name) /\ Candidates[h] # <<>>
    BY LookupAssumption
<1>2. PICK c \in Seq(Name) : c = Candidates[h] /\ c # <<>>
    BY <1>1
<1>3. Len(c) \in Nat /\ Len(c) # 0 /\ DOMAIN c = 1..Len(c) /\ \A i \in 1..Len(c) : c[i] \in Name
    BY <1>2
<1>4. Key[h] \in Name /\ Key[h] \in Range(Candidates[h])
    BY LookupAssumption
<1> QED
    BY <1>2, <1>3, <1>4 DEF Cand, Range

\* A product of naturals.
LEMMA Times ==
    ASSUME NEW m \in Nat, NEW n \in Nat
    PROVE  m * n \in Nat /\ (m + 1) * n = m * n + n
    OBVIOUS

\* Who held S since t held it since any earlier time.
LEMMA HeldEarlier ==
    ASSUME WorldOK, NEW n \in Name, NEW S \in SUBSET States, NEW t \in Int, NEW u \in Int,
           u <= t, HeldSince(n, S, t)
    PROVE  HeldSince(n, S, u)
<1>1. CASE zone[n] \in S
    BY <1>1 DEF HeldSince
<1>2. CASE \E z \in S : lastHeld[n][z] >= t
  <2>1. PICK z \in S : lastHeld[n][z] >= t
      BY <1>2
  <2>2. lastHeld[n][z] \in Int
      BY Constants DEF WorldOK, Never
  <2>3. lastHeld[n][z] >= u
      BY <2>1, <2>2
  <2> QED
      BY <2>3 DEF HeldSince
<1> QED
    BY <1>1, <1>2 DEF HeldSince

\* What was held stays held, and a zone that has not changed is what it was.
Moves == /\ now' \in Nat /\ now <= now'
         /\ \A n \in Name, S \in SUBSET States, t \in Int :
               t <= now /\ HeldSince(n, S, t) => HeldSince(n, S, t)'
         /\ changes' = 0 => changes = 0 /\ zone' = zone

\* A change of the zone records what it ends.
LEMMA ZoneMoves ==
    ASSUME Inv, NEW m \in Name, ZoneChanges(m)
    PROVE  Moves /\ WorldOK' /\ now' = now
<1>1. WorldOK
    BY DEF Inv
<1>2. PICK y \in States : y # zone[m] /\ zone' = [zone EXCEPT ![m] = y]
    BY DEF ZoneChanges, States
<1>3. /\ changes' = changes + 1 /\ now' = now
      /\ lastHeld' = [lastHeld EXCEPT ![m][zone[m]] = now]
    BY DEF ZoneChanges
<1>4. zone[m] \in States /\ now \in Nat /\ now \in 0..MaxTime /\ changes \in Nat
    BY <1>1, Constants DEF WorldOK
<1>5. zone' \in [Name -> States] /\ \A n \in Name : zone'[n] = IF n = m THEN y ELSE zone[n]
    BY <1>1, <1>2 DEF WorldOK
<1>6. /\ lastHeld' \in [Name -> [States -> Never..MaxTime]]
      /\ \A n \in Name, z \in States :
            lastHeld'[n][z] = IF n = m /\ z = zone[m] THEN now ELSE lastHeld[n][z]
  <2>1. now \in Never..MaxTime
      BY <1>4, Constants DEF Never
  <2> QED
      BY <1>1, <1>3, <1>4, <2>1 DEF WorldOK
<1>7. changes' \in Nat /\ changes' # 0
    BY <1>3, <1>4
<1>8. WorldOK'
  <2>1. \A n \in Name, z \in States : lastHeld'[n][z] <= now'
      BY <1>1, <1>3, <1>4, <1>6 DEF WorldOK
  <2> QED
      BY <1>3, <1>4, <1>5, <1>6, <1>7, <2>1 DEF WorldOK
<1>9. ASSUME NEW n \in Name, NEW S \in SUBSET States, NEW t \in Int, t <= now,
             HeldSince(n, S, t)
      PROVE  HeldSince(n, S, t)'
  <2>1. CASE zone[n] \in S
    <3>1. CASE n = m
      <4>1. zone[m] \in S /\ lastHeld'[n][zone[m]] >= t
          BY <1>4, <1>6, <1>9, <2>1, <3>1
      <4> QED
          BY <4>1 DEF HeldSince
    <3>2. CASE n # m
        BY <1>5, <2>1, <3>2 DEF HeldSince
    <3> QED
        BY <3>1, <3>2
  <2>2. CASE \E z \in S : lastHeld[n][z] >= t
    <3>1. PICK z \in S : lastHeld[n][z] >= t
        BY <2>2
    <3>2. z \in States /\ lastHeld'[n][z] \in {now, lastHeld[n][z]}
        BY <1>6
    <3>3. lastHeld'[n][z] >= t
        BY <1>4, <1>9, <3>1, <3>2
    <3> QED
        BY <3>3 DEF HeldSince
  <2> QED
      BY <1>9, <2>1, <2>2 DEF HeldSince
<1> QED
    BY <1>3, <1>4, <1>7, <1>8, <1>9 DEF Moves

\* The clock moves nothing else, and no query is overdue after it.
LEMMA TickMoves ==
    ASSUME Inv, Tick
    PROVE  /\ Moves /\ WorldOK' /\ now' = now + 1
           /\ \A p \in Task : task[p].pc \in {"asking", "replied"} => now - task[p].at < Flight
<1>1. WorldOK
    BY DEF Inv
<1>2. now < MaxTime /\ now' = now + 1 /\ UNCHANGED <<zone, changes, lastHeld>>
    BY DEF Tick
<1>3. now \in Nat /\ now \in 0..MaxTime
    BY <1>1, Constants DEF WorldOK
<1>4. now' \in 0..MaxTime /\ now' \in Nat /\ now <= now'
    BY <1>2, <1>3, Constants
<1>5. WorldOK'
  <2>1. \A n \in Name, z \in States : lastHeld[n][z] \in Int /\ lastHeld[n][z] <= now
      BY <1>1, Constants DEF WorldOK, Never
  <2>2. \A n \in Name, z \in States : lastHeld'[n][z] <= now'
      BY <1>2, <1>3, <2>1
  <2> QED
      BY <1>1, <1>2, <1>4, <2>2 DEF WorldOK
<1>6. Moves
    BY <1>2, <1>4 DEF Moves, HeldSince
<1> QED
    BY <1>2, <1>5, <1>6 DEF Tick

\* What Moves says of one name.
LEMMA StaysHeld ==
    ASSUME Moves, NEW n \in Name, NEW S \in SUBSET States, NEW t \in Int, t <= now,
           HeldSince(n, S, t)
    PROVE  HeldSince(n, S, t)'
    BY DEF Moves

\* What an entry says stays true.
LEMMA EntryMoves ==
    ASSUME WorldOK, Moves, NEW e \in Entry, EntryOK(e)
    PROVE  EntryOK(e)'
<1>1. now \in Nat /\ now' \in Nat /\ now <= now' /\ e.at \in Nat /\ e.at <= now /\ Flight \in Nat
    BY Constants DEF WorldOK, Moves, Entry, EntryOK
<1>2. ASSUME IsPositive(e.result)
      PROVE  /\ HeldSince(e.name, {e.result.version}, e.at - Flight)'
             /\ (changes = 0 => e.result.version = zone[e.name] /\ Reached(e.name, e.lost))'
  <2>6. e.name \in Name
        /\ e.result \in {NoData, NxDomain} \cup {Positive(n, v) : n \in Name, v \in Version}
      BY DEF Entry
  <2>7. e.result.version \in States
      BY <1>2, <2>6 DEF IsPositive, NoData, NxDomain, Positive, States
  <2>8. PICK S : S = {e.result.version}
      OBVIOUS
  <2>1. S \in SUBSET States /\ e.name \in Name
      BY <2>6, <2>7, <2>8
  <2>2. PICK t \in Int : t = e.at - Flight /\ t <= now
      BY <1>1
  <2>3. HeldSince(e.name, S, t)
      BY <1>2, <2>2, <2>8 DEF EntryOK
  <2>4. HeldSince(e.name, S, t)'
      BY <2>1, <2>2, <2>3, StaysHeld
  <2>5. (changes = 0 => e.result.version = zone[e.name] /\ Reached(e.name, e.lost))'
      BY <1>2 DEF EntryOK, Moves, Reached
  <2> QED
      BY <2>2, <2>4, <2>5, <2>8
<1>3. ASSUME ~IsPositive(e.result)
      PROVE  AllAbsent(e.name, e.result.kind, e.at)'
  <2>1. PICK g \in Host :
            /\ Key[g] = e.name
            /\ \A j \in DOMAIN Candidates[g] :
                  HeldSince(Cand(g, j), Absent, e.at - Len(Candidates[g]) * Flight)
            /\ changes = 0 => /\ \A j \in DOMAIN Candidates[g] : zone[Cand(g, j)] \in Absent
                              /\ e.result.kind = zone[Cand(g, 1)]
      BY <1>3 DEF EntryOK, AllAbsent
  <2>2. PICK t \in Int : t = e.at - Len(Candidates[g]) * Flight /\ t <= now
    <3>1. Len(Candidates[g]) \in Nat
        BY HostFacts
    <3>2. PICK m \in Nat : m = Len(Candidates[g])
        BY <3>1
    <3>3. m * Flight \in Nat
        BY <1>1, Times
    <3> QED
        BY <1>1, <3>2, <3>3
  <2>3. ASSUME NEW j \in DOMAIN Candidates[g]
        PROVE  HeldSince(Cand(g, j), Absent, t)'
    <3>1. Cand(g, j) \in Name /\ Absent \in SUBSET States
        BY HostFacts DEF States
    <3>2. HeldSince(Cand(g, j), Absent, t)
        BY <2>1, <2>2
    <3> QED
        BY <2>2, <3>1, <3>2, StaysHeld
  <2> QED
      BY <2>1, <2>2, <2>3 DEF AllAbsent, Moves
<1> QED
    BY <1>1, <1>2, <1>3 DEF EntryOK

\* What a lookup was told stays true, if it is not overdue.
LEMMA WalkMoves ==
    ASSUME WorldOK, Moves, NEW w, WalkOK(w), now' <= w.at + Flight
    PROVE  WalkOK(w)'
<1>1. /\ w \in Walk /\ w.i <= Len(Candidates[w.host]) /\ w.i \in Nat \ {0}
      /\ w.at \in Nat /\ w.at <= now /\ w.host \in Host
    BY DEF WalkOK, Walk
<1>2. now \in Nat /\ now' \in Nat /\ now <= now' /\ Flight \in Nat
    BY Constants DEF WorldOK, Moves
<1>3. \A j \in 1..w.i : Cand(w.host, j) \in Name
    BY <1>1, HostFacts
<1>4. ASSUME w.pc = "replied"
      PROVE  ReplyOK(w)'
  <2>1. ReplyOK(w) /\ Current(w) \in Name
      BY <1>1, <1>3, <1>4 DEF WalkOK, Current, Cand
  <2>2. ASSUME w.reply \in Version
        PROVE  HeldSince(Current(w), {w.reply}, w.at)'
    <3>1. PICK S \in SUBSET States : S = {w.reply}
        BY <2>2 DEF States
    <3>2. HeldSince(Current(w), S, w.at)
        BY <2>1, <2>2, <3>1 DEF ReplyOK
    <3>3. PICK n \in Name : n = Current(w)
        BY <2>1
    <3>4. HeldSince(n, S, w.at)'
        BY <1>1, <3>2, <3>3, StaysHeld
    <3> QED
        BY <3>1, <3>3, <3>4 DEF Current
  <2>3. ASSUME w.reply \in Absent
        PROVE  HeldSince(Current(w), Absent, w.at)'
    <3>1. PICK S \in SUBSET States : S = Absent
        BY DEF States
    <3>2. HeldSince(Current(w), S, w.at)
        BY <2>1, <2>3, <3>1 DEF ReplyOK
    <3>3. PICK n \in Name : n = Current(w)
        BY <2>1
    <3>4. HeldSince(n, S, w.at)'
        BY <1>1, <3>2, <3>3, StaysHeld
    <3> QED
        BY <3>1, <3>3, <3>4 DEF Current
  <2>4. (changes = 0 /\ w.reply \in States => w.reply = zone[Current(w)])'
      BY <2>1 DEF Moves, ReplyOK, Current
  <2> QED
      BY <2>1, <2>2, <2>3, <2>4 DEF ReplyOK
<1>5. PassedOver(w, w.i - 1, w.at - (w.i - 1) * Flight)'
  <2>1. PICK m \in Nat : m = w.i - 1
      BY <1>1
  <2>2. m * Flight \in Nat
      BY <1>2, Times
  <2>3. PICK t \in Int : t = w.at - m * Flight /\ t <= now
      BY <1>1, <1>2, <2>2
  <2>4. PassedOver(w, m, t)
      BY <2>1, <2>3 DEF WalkOK
  <2>5. ASSUME NEW j \in 1..m, HeldSince(Cand(w.host, j), Absent, t)
        PROVE  HeldSince(Cand(w.host, j), Absent, t)'
    <3>1. PICK n \in Name : n = Cand(w.host, j)
        BY <1>1, <1>3, <2>1
    <3>2. PICK S \in SUBSET States : S = Absent
        BY DEF States
    <3>3. HeldSince(n, S, t)
        BY <2>5, <3>1, <3>2
    <3>4. HeldSince(n, S, t)'
        BY <2>3, <3>3, StaysHeld
    <3> QED
        BY <3>1, <3>2, <3>4
  <2>6. PassedOver(w, m, t)'
      BY <2>4, <2>5 DEF PassedOver, Moves
  <2> QED
      BY <2>1, <2>3, <2>6
<1> QED
    BY <1>1, <1>2, <1>4, <1>5 DEF WalkOK

\* The answer of a lookup that has ended stays as old as it was.
LEMMA OutcomeMoves ==
    ASSUME WorldOK, Moves, NEW o, OutcomeOK(o)
    PROVE  OutcomeOK(o)'
<1>1. o \in Outcome /\ o.at \in Nat /\ o.at <= now /\ o.host \in Host
    BY DEF OutcomeOK, Outcome
<1>2. /\ now \in Nat /\ now' \in Nat /\ now <= now'
      /\ Flight \in Nat /\ MaxTtl \in Nat /\ NegMax \in Nat
    BY Constants DEF WorldOK, Moves
<1>3. ASSUME IsPositive(o.result)
      PROVE  TrueLately(o)'
  <2>1. o.result.name \in Name /\ o.result.version \in States
      BY <1>1, <1>3 DEF Outcome, Result, IsPositive, NoData, NxDomain, Failed, Positive, States
  <2>2. PICK u : u = IF o.from = "stale" THEN MaxStale ELSE 0
      OBVIOUS
  <2>3. PICK t \in Int : t = o.at - (MaxTtl + Flight + u)
      BY <1>1, <1>2, <2>2, Constants
  <2>4. t <= now
      BY <1>1, <1>2, <2>2, <2>3, Constants
  <2>5. PICK n \in Name, S \in SUBSET States : n = o.result.name /\ S = {o.result.version}
      BY <2>1
  <2>6. HeldSince(n, S, t)
      BY <1>3, <2>2, <2>3, <2>5 DEF OutcomeOK, TrueLately
  <2>7. HeldSince(n, S, t)'
      BY <2>4, <2>6, StaysHeld
  <2> QED
      BY <2>2, <2>3, <2>5, <2>7 DEF TrueLately
<1>4. ASSUME o.result \in {NoData, NxDomain}
      PROVE  AbsentLately(o)'
  <2>1. PICK u : u = IF o.from = "server" THEN o.lost ELSE {}
      OBVIOUS
  <2>2. PICK g \in Askers(o) :
            /\ Key[g] = Key[o.host]
            /\ \A n \in Range(Candidates[g]) \ u :
                  HeldSince(n, Absent, o.at - (NegMax + Len(Candidates[g]) * Flight))
      BY <1>4, <2>1 DEF OutcomeOK, AbsentLately
  <2>3. g \in Host
      BY <2>2 DEF Askers
  <2>4. PICK m \in Nat : m = Len(Candidates[g])
      BY <2>3, HostFacts
  <2>5. m * Flight \in Nat
      BY <1>2, Times
  <2>6. PICK t \in Int : t = o.at - (NegMax + m * Flight) /\ t <= now
      BY <1>1, <1>2, <2>5
  <2>7. ASSUME NEW n \in Range(Candidates[g]) \ u
        PROVE  HeldSince(n, Absent, t)'
    <3>1. n \in Name /\ Absent \in SUBSET States
        BY <2>3, HostFacts DEF States
    <3>2. HeldSince(n, Absent, t)
        BY <2>2, <2>4, <2>6
    <3> QED
        BY <2>6, <3>1, <3>2, StaysHeld
  <2>8. \A n \in Range(Candidates[g]) \ u :
            HeldSince(n, Absent, o.at - (NegMax + Len(Candidates[g]) * Flight))'
      BY <2>4, <2>6, <2>7
  <2> QED
      BY <2>1, <2>2, <2>8 DEF AbsentLately
<1>5. (changes = 0 => \E g \in Askers(o) : Follows(o, g))'
  <2>1. CASE changes' = 0
    <3>1. changes = 0 /\ zone' = zone
        BY <2>1 DEF Moves
    <3>2. PICK g \in Askers(o) : Follows(o, g)
        BY <3>1 DEF OutcomeOK
    <3>3. Follows(o, g)'
        BY <3>1, <3>2 DEF Follows
    <3> QED
        BY <3>2, <3>3
  <2> QED
      BY <2>1
<1> QED
    BY <1>1, <1>2, <1>3, <1>4, <1>5 DEF OutcomeOK

-----------------------------------------------------------------------------
(* A step of the world, and a step of one task.                            *)

\* The world moves on, and the cache is kept or cleared.
LEMMA WorldStep ==
    ASSUME Inv, Moves, WorldOK', UNCHANGED task, cache' \in {cache, <<>>},
           \A p \in Task : task[p].pc \in {"asking", "replied"} => now' <= task[p].at + Flight
    PROVE  Inv'
<1>1. WorldOK /\ CacheOK(cache) /\ \A p \in Task : TaskOK(task[p])
    BY DEF Inv
<1>2. PICK D : D = Good'
    OBVIOUS
<1>3. Good \subseteq D
    BY <1>1, <1>2, EntryMoves DEF Good
<1>4. cache \in Seq(D) /\ <<>> \in Seq(D)
    BY <1>1, <1>3, SeqMonotonic DEF CacheOK
<1>5. CacheOK(cache)'
  <2>1. PICK c : c = cache'
      OBVIOUS
  <2>2. c \in Seq(D)
      BY <1>4, <2>1
  <2>3. OnePerSlot(c) /\ Len(c) <= Capacity
    <3>1. CacheOK(cache)
        BY <1>1
    <3>2. ASSUME c = <<>>
          PROVE  OnePerSlot(c) /\ Len(c) <= Capacity
      <4>1. Len(c) = 0 /\ DOMAIN c = {}
          BY <3>2
      <4> QED
          BY <4>1, Constants DEF OnePerSlot
    <3> QED
        BY <2>1, <3>1, <3>2 DEF CacheOK
  <2>4. (CacheOK(c))'
      BY <1>2, <2>2, <2>3 DEF CacheOK, OnePerSlot
  <2> QED
      BY <2>1, <2>4
<1>6. ASSUME NEW p \in Task
      PROVE  TaskOK(task[p])'
  <2>1. PICK t : t = task[p]
      OBVIOUS
  <2>2. TaskOK(t) /\ t' = t /\ task'[p] = t
      BY <1>1, <2>1
  <2>3. TaskOK(t)'
      BY <1>1, <2>1, <2>2, WalkMoves, OutcomeMoves DEF TaskOK
  <2> QED
      BY <2>2, <2>3
<1>7. task' = [p \in Task |-> task'[p]]
    BY DEF Inv
<1> QED
    BY <1>5, <1>6, <1>7 DEF Inv

\* The world stands still.
Still == UNCHANGED <<now, zone, changes, lastHeld>>

\* What holds of entries and lookups still holds.
LEMMA StillFacts ==
    ASSUME Still
    PROVE  /\ WorldOK => WorldOK'
           /\ \A e : EntryOK(e) => EntryOK(e)'
           /\ \A t : TaskOK(t) => TaskOK(t)'
<1>1. WorldOK => WorldOK'
    BY DEF Still, WorldOK
<1>2. ASSUME NEW e
      PROVE  EntryOK(e) => EntryOK(e)'
    BY DEF Still, EntryOK, HeldSince, Reached, AllAbsent
<1>3. ASSUME NEW t
      PROVE  TaskOK(t) => TaskOK(t)'
  <2>1. WalkOK(t) => WalkOK(t)'
    <3>1. ReplyOK(t) => ReplyOK(t)'
        BY DEF Still, ReplyOK, HeldSince, Current
    <3>2. \A m, u : PassedOver(t, m, u) => PassedOver(t, m, u)'
        BY DEF Still, PassedOver, HeldSince
    <3> QED
        BY <3>1, <3>2 DEF Still, WalkOK
  <2>2. OutcomeOK(t) => OutcomeOK(t)'
    <3>1. \A g : Follows(t, g) => Follows(t, g)'
        BY DEF Still, Follows
    <3> QED
        BY <3>1 DEF Still, OutcomeOK, TrueLately, AbsentLately, HeldSince
  <2> QED
      BY <2>1, <2>2 DEF TaskOK
<1> QED
    BY <1>1, <1>2, <1>3

\* One task takes a step and leaves the cache in order.
LEMMA TaskStep ==
    ASSUME Inv, Still, NEW p \in Task, NEW x, TaskOK(x), task' = [task EXCEPT ![p] = x],
           NEW c, CacheOK(c), cache' = c
    PROVE  Inv'
<1>1. WorldOK /\ \A q \in Task : TaskOK(task[q])
    BY DEF Inv
<1>2. task' = [q \in Task |-> IF q = p THEN x ELSE task[q]]
    BY DEF Inv
<1>3. ASSUME NEW q \in Task
      PROVE  TaskOK(task[q])'
  <2>1. PICK t : t = IF q = p THEN x ELSE task[q]
      OBVIOUS
  <2>2. TaskOK(t)'
      BY <1>1, <2>1, StillFacts
  <2>3. task'[q] = t
      BY <1>2, <2>1
  <2> QED
      BY <2>2, <2>3
<1>4. PICK D : D = Good'
    OBVIOUS
<1>5. Good \subseteq D
    BY <1>4, StillFacts DEF Good
<1>6. c \in Seq(D)
    BY <1>5, SeqMonotonic DEF CacheOK
<1>7. CacheOK(cache)'
    BY <1>4, <1>6, Constants DEF CacheOK, OnePerSlot
<1>8. WorldOK'
    BY <1>1, StillFacts
<1> QED
    BY <1>2, <1>3, <1>7, <1>8 DEF Inv

\* Probing the cache keeps it in order.
LEMMA ProbeKeepsCache ==
    ASSUME NEW c, CacheOK(c), NEW n
    PROVE  CacheOK(Touch(c, n))
    BY TouchFacts DEF CacheOK

\* So does inserting what is true.
LEMMA InsertKeepsCache ==
    ASSUME NEW c, CacheOK(c), NEW n, NEW result, NEW ttl, NEW t, NEW lost,
           ttl # 0 => [name |-> n, result |-> result, at |-> t,
                       ttl |-> IF ttl > MaxTtl THEN MaxTtl ELSE ttl, lost |-> lost] \in Good
    PROVE  CacheOK(Insert(c, n, result, ttl, t, lost))
    BY InsertFacts DEF CacheOK

-----------------------------------------------------------------------------
(* The steps of a lookup.                                                  *)

\* What is passed over does not depend on the reply.
LEMMA SamePassed ==
    ASSUME NEW w, NEW x, x.host = w.host, x.lost = w.lost, x.firstNegative = w.firstNegative,
           NEW m, NEW t, PassedOver(w, m, t)
    PROVE  PassedOver(x, m, t)
    BY DEF PassedOver

\* The parts of a lookup that is under way.
LEMMA WalkFacts ==
    ASSUME WorldOK, NEW w, WalkOK(w)
    PROVE  /\ w \in Walk /\ w.host \in Host /\ w.i \in 1..Len(Candidates[w.host])
           /\ Len(Candidates[w.host]) \in Nat
           /\ w.at \in Nat /\ w.at <= now /\ now <= w.at + Flight /\ now \in Nat
           /\ now \in 0..MaxTime /\ Flight \in Nat
           /\ w.lost \in SUBSET Name
           /\ Current(w) = Cand(w.host, w.i) /\ Current(w) \in Name
<1>1. w \in Walk /\ w.host \in Host /\ w.i \in Nat \ {0} /\ w.i <= Len(Candidates[w.host])
    BY DEF WalkOK, Walk
<1>2. w.i \in 1..Len(Candidates[w.host])
    BY <1>1, HostFacts
<1>3. Current(w) = Cand(w.host, w.i) /\ Current(w) \in Name
    BY <1>1, <1>2, HostFacts DEF Current, Cand
<1>4. w.at \in Nat /\ w.lost \in SUBSET Name
    BY <1>1 DEF Walk
<1>5. w.at <= now /\ now <= w.at + Flight
    BY DEF WalkOK
<1>6. now \in 0..MaxTime /\ now \in Nat /\ Flight \in Nat
    BY Constants DEF WorldOK
<1>7. Len(Candidates[w.host]) \in Nat
    BY <1>1, HostFacts
<1> QED
    BY <1>1, <1>2, <1>3, <1>4, <1>5, <1>6, <1>7

\* A nameserver tells what its zone holds.
LEMMA ServeKeepsInv ==
    ASSUME Inv, NEW p \in Task, Serve(p)
    PROVE  Inv'
<1>1. PICK t : t = task[p]
    OBVIOUS
<1>2. WorldOK /\ CacheOK(cache) /\ t.pc = "asking" /\ WalkOK(t)
    BY <1>1 DEF Inv, TaskOK, Serve
<1>3. PICK z : z = zone[Current(t)]
    OBVIOUS
<1>4. PICK ttl \in TtlsOf(z) :
          task' = [task EXCEPT ![p] = [t EXCEPT !.pc = "replied", !.reply = z, !.ttl = ttl]]
    BY <1>1, <1>3 DEF Serve
<1>5. PICK x : x = [t EXCEPT !.pc = "replied", !.reply = z, !.ttl = ttl]
    OBVIOUS
<1>6. z \in States /\ t \in Walk
    BY <1>2, <1>3, WalkFacts DEF WorldOK
<1>7. /\ z \in Version => ttl \in Nat
      /\ z \in Absent => ttl \in Nat \cup {NoSoa}
    BY <1>4, Constants DEF TtlsOf, Absent, NoSoa
<1>8. ttl \in Int
    BY <1>6, <1>7 DEF States, NoSoa
<1>9. /\ x.pc = "replied" /\ x.host = t.host /\ x.i = t.i /\ x.reply = z /\ x.ttl = ttl
      /\ x.at = t.at /\ x.firstNegative = t.firstNegative /\ x.negativeTtl = t.negativeTtl
      /\ x.lost = t.lost
    BY <1>5, <1>6 DEF Walk
<1>10. x \in Walk
    BY <1>5, <1>6, <1>8 DEF Walk
<1>11. ReplyOK(x)
    BY <1>3, <1>6, <1>7, <1>9 DEF ReplyOK, Current, HeldSince
<1>12. PassedOver(x, x.i - 1, x.at - (x.i - 1) * Flight)
    BY <1>2, <1>9, SamePassed DEF WalkOK
<1>13. TaskOK(x)
    BY <1>2, <1>9, <1>10, <1>11, <1>12 DEF TaskOK, WalkOK
<1> QED
    BY <1>2, <1>4, <1>5, <1>13, TaskStep DEF Serve, Still

\* A failed query tells nothing.
LEMMA FailKeepsInv ==
    ASSUME Inv, NEW p \in Task, Fail(p)
    PROVE  Inv'
<1>1. PICK t : t = task[p]
    OBVIOUS
<1>2. WorldOK /\ CacheOK(cache) /\ t.pc = "asking" /\ WalkOK(t)
    BY <1>1 DEF Inv, TaskOK, Fail
<1>3. PICK e \in {"transient", "fatal"} :
          task' = [task EXCEPT ![p] = [t EXCEPT !.pc = "replied", !.reply = e]]
    BY <1>1 DEF Fail
<1>4. PICK x : x = [t EXCEPT !.pc = "replied", !.reply = e]
    OBVIOUS
<1>5. t \in Walk
    BY <1>2 DEF WalkOK
<1>6. /\ x.pc = "replied" /\ x.host = t.host /\ x.i = t.i /\ x.reply = e
      /\ x.at = t.at /\ x.firstNegative = t.firstNegative /\ x.lost = t.lost
    BY <1>4, <1>5 DEF Walk
<1>7. x \in Walk
    BY <1>4, <1>5 DEF Walk
<1>8. ReplyOK(x)
    BY <1>6, Constants DEF ReplyOK, States, Absent
<1>9. PassedOver(x, x.i - 1, x.at - (x.i - 1) * Flight)
    BY <1>2, <1>6, SamePassed DEF WalkOK
<1>10. TaskOK(x)
    BY <1>2, <1>6, <1>7, <1>8, <1>9 DEF TaskOK, WalkOK
<1> QED
    BY <1>2, <1>3, <1>4, <1>10, TaskStep DEF Fail, Still

\* A lookup that asks has passed over nothing yet.
LEMMA AskingOK ==
    ASSUME WorldOK, NEW h \in Host
    PROVE  TaskOK(Asking(h))
<1>1. PICK x : x = Asking(h)
    OBVIOUS
<1>2. /\ x.pc = "asking" /\ x.host = h /\ x.i = 1 /\ x.at = now /\ x.lost = {}
      /\ x.firstNegative = "none"
    BY <1>1 DEF Asking
<1>3. now \in Nat /\ Flight \in Nat /\ NegMax \in Nat
    BY Constants DEF WorldOK
<1>4. x \in Walk
    BY <1>1, <1>3 DEF Asking, Walk
<1>5. PassedOver(x, 0, now - 0 * Flight)
    BY <1>2 DEF PassedOver
<1>6. PassedOver(x, x.i - 1, x.at - (x.i - 1) * Flight)
    BY <1>2, <1>5
<1>7. x.i <= Len(Candidates[x.host]) /\ now <= x.at + Flight
    BY <1>2, <1>3, HostFacts
<1> QED
    BY <1>1, <1>2, <1>3, <1>4, <1>6, <1>7 DEF TaskOK, WalkOK

\* The parts of an entry of the cache.
LEMMA EntryFacts ==
    ASSUME NEW e \in Good
    PROVE  /\ e.name \in Name /\ e.result \in Result /\ e.lost \in SUBSET Name
           /\ e.at \in Nat /\ e.ttl \in Nat /\ e.ttl <= MaxTtl
           /\ IsPositive(e.result) => /\ e.result = Positive(e.name, e.result.version)
                                      /\ e.result.version \in States
           /\ ~IsPositive(e.result) => e.result \in {NoData, NxDomain}
<1>1. e \in Entry /\ EntryOK(e)
    BY DEF Good
<1>2. e.name \in Name /\ e.result \in Result /\ e.lost \in SUBSET Name
    BY <1>1 DEF Entry, Result
<1>3. e.at \in Nat /\ e.ttl \in Nat /\ e.ttl <= MaxTtl
    BY <1>1, Constants DEF Entry
<1>4. CASE e.result \in {NoData, NxDomain}
    BY <1>2, <1>3, <1>4 DEF IsPositive, NoData, NxDomain
<1>5. CASE \E n \in Name, v \in Version : e.result = Positive(n, v)
  <2>1. PICK n \in Name, v \in Version : e.result = Positive(n, v)
      BY <1>5
  <2>2. IsPositive(e.result) /\ e.result.name = n /\ e.result.version = v
      BY <2>1 DEF IsPositive, Positive
  <2>3. e.result.name = e.name
      BY <1>1, <2>2 DEF EntryOK
  <2> QED
      BY <1>2, <1>3, <2>1, <2>2, <2>3 DEF States
<1> QED
    BY <1>2, <1>4, <1>5 DEF Result

\* The kinds of results exclude each other.
LEMMA ResultKinds ==
    /\ \A n, v : IsPositive(Positive(n, v)) /\ Positive(n, v) \notin {NoData, NxDomain}
    /\ \A r \in {NoData, NxDomain, Failed} : ~IsPositive(r)
    /\ Failed \notin {NoData, NxDomain}
    /\ NoData.kind = "nodata" /\ NxDomain.kind = "nxdomain"
<1>1. \A n, v : Positive(n, v).kind = "positive"
    BY DEF Positive
<1>2. NoData.kind = "nodata" /\ NxDomain.kind = "nxdomain" /\ Failed.kind = "error"
    BY DEF NoData, NxDomain, Failed
<1> QED
    BY <1>1, <1>2 DEF IsPositive

\* Records from the cache, in time or served stale, are those they should be.
LEMMA CachedRecords ==
    ASSUME WorldOK, NEW h \in Host, NEW e \in Good, e.name = Key[h], IsPositive(e.result),
           NEW window \in Nat, now - e.at <= e.ttl + window
    PROVE  /\ HeldSince(e.result.name, {e.result.version}, now - (MaxTtl + Flight + window))
           /\ e.result.name = Key[h]
           /\ changes = 0 => /\ e.result = Positive(Key[h], zone[Key[h]])
                             /\ zone[Key[h]] \in Version
                             /\ Reached(Key[h], e.lost)
<1>1. EntryOK(e) /\ e.at \in Nat /\ e.ttl \in Nat /\ e.ttl <= MaxTtl
    BY EntryFacts DEF Good
<1>2. now \in Nat /\ Flight \in Nat /\ MaxTtl \in Nat
    BY Constants DEF WorldOK
<1>3. PICK S \in SUBSET States : S = {e.result.version}
    BY EntryFacts
<1>4. PICK t \in Int : t = e.at - Flight
    BY <1>1, <1>2
<1>5. PICK u \in Int : u = now - (MaxTtl + Flight + window)
    BY <1>2
<1>6. u <= t
    BY <1>1, <1>2, <1>4, <1>5
<1>7. HeldSince(e.name, S, t) /\ e.result.name = e.name
    BY <1>1, <1>3, <1>4 DEF EntryOK
<1>8. HeldSince(e.name, S, u)
    BY <1>6, <1>7, EntryFacts, HeldEarlier
<1>9. ASSUME changes = 0
      PROVE  /\ e.result = Positive(Key[h], zone[Key[h]])
             /\ zone[Key[h]] \in Version
             /\ Reached(Key[h], e.lost)
  <2>1. e.result.version = zone[e.name] /\ Reached(e.name, e.lost)
      BY <1>1, <1>9 DEF EntryOK
  <2>2. e.result.version \in Version
    <3>1. e.result \in {Positive(n, v) : n \in Name, v \in Version}
        BY EntryFacts, ResultKinds DEF Result
    <3> QED
        BY <3>1 DEF Positive
  <2> QED
      BY <2>1, <2>2, EntryFacts
<1> QED
    BY <1>3, <1>5, <1>7, <1>8, <1>9

\* An entry that is fresh is an answer, of the host or of another with its key.
LEMMA CachedOutcome ==
    ASSUME WorldOK, NEW h \in Host, NEW e \in Good, e.name = Key[h], now - e.at <= e.ttl,
           NEW o, o = Done(h, e.result, "cache", e.lost)
    PROVE  OutcomeOK(o)
<1>1. /\ EntryOK(e) /\ e.result \in Result /\ e.lost \in SUBSET Name
      /\ e.at \in Nat /\ e.ttl \in Nat
    BY EntryFacts DEF Good
<1>2. now \in Nat /\ Flight \in Nat /\ NegMax \in Nat
    BY Constants DEF WorldOK
<1>3. /\ o.pc = "done" /\ o.host = h /\ o.result = e.result /\ o.from = "cache" /\ o.at = now
      /\ o.lost = e.lost
    BY DEF Done
<1>4. o \in Outcome
    BY <1>1, <1>2 DEF Done, Outcome
<1>5. CASE IsPositive(e.result)
  <2>1. /\ HeldSince(e.result.name, {e.result.version}, now - (MaxTtl + Flight + 0))
        /\ changes = 0 => /\ e.result = Positive(Key[h], zone[Key[h]])
                          /\ zone[Key[h]] \in Version
                          /\ Reached(Key[h], e.lost)
    <3>1. PICK window \in Nat : window = 0
        OBVIOUS
    <3>2. now - e.at <= e.ttl + window
        BY <1>1, <1>2, <3>1
    <3> QED
        BY <1>5, <3>1, <3>2, CachedRecords
  <2>2. TrueLately(o)
      BY <1>3, <2>1 DEF TrueLately
  <2>3. o.result \notin {NoData, NxDomain}
      BY <1>3, <1>5, ResultKinds
  <2>4. ASSUME changes = 0
        PROVE  \E g \in Askers(o) : Follows(o, g)
    <3>1. PICK g \in Host : \E i \in DOMAIN Candidates[g] :
              /\ Cand(g, i) = Key[h]
              /\ \A j \in 1..(i - 1) : zone[Cand(g, j)] \in Version => Cand(g, j) \in e.lost
        BY <2>1, <2>4 DEF Reached
    <3>7. PICK i \in DOMAIN Candidates[g] :
              /\ Cand(g, i) = Key[h]
              /\ \A j \in 1..(i - 1) : zone[Cand(g, j)] \in Version => Cand(g, j) \in e.lost
        BY <3>1
    <3>2. g \in Askers(o)
        BY <1>3, <3>7, HostFacts DEF Askers
    <3>3. /\ i \in 1..Len(Candidates[g]) /\ DOMAIN Candidates[g] = 1..Len(Candidates[g])
          /\ Len(Candidates[g]) \in Nat
        BY <3>7, HostFacts
    <3>4. ASSUME NEW j \in DOMAIN Candidates[g], zone[Candidates[g][j]] \in Version,
                 Candidates[g][j] \notin o.lost
          PROVE  i <= j
      <4>1. j \notin 1..(i - 1)
          BY <1>3, <3>7, <3>4 DEF Cand
      <4> QED
          BY <3>3, <4>1
    <3>5. o.result = Positive(Candidates[g][i], zone[Candidates[g][i]])
          /\ Candidates[g][i] = Key[o.host] /\ zone[Candidates[g][i]] \in Version
        BY <1>3, <2>1, <2>4, <3>7 DEF Cand
    <3>6. Follows(o, g)
        BY <1>3, <2>3, <3>7, <3>4, <3>5 DEF Follows
    <3> QED
        BY <3>2, <3>6
  <2> QED
      BY <1>2, <1>3, <1>4, <2>2, <2>3, <2>4 DEF OutcomeOK
<1>6. CASE ~IsPositive(e.result)
  <2>1. e.ttl <= NegMax /\ e.lost = {} /\ e.result \in {NoData, NxDomain}
      BY <1>1, <1>6, EntryFacts DEF EntryOK
  <2>2. PICK g \in Host :
            /\ Key[g] = e.name
            /\ \A j \in DOMAIN Candidates[g] :
                  HeldSince(Cand(g, j), Absent, e.at - Len(Candidates[g]) * Flight)
            /\ changes = 0 => /\ \A j \in DOMAIN Candidates[g] : zone[Cand(g, j)] \in Absent
                              /\ e.result.kind = zone[Cand(g, 1)]
      BY <1>1, <1>6 DEF EntryOK, AllAbsent
  <2>3. g \in Askers(o) /\ Key[g] = Key[o.host]
    <3>1. Key[g] \in Range(Candidates[g])
        BY LookupAssumption
    <3> QED
        BY <1>3, <2>2, <3>1 DEF Askers
  <2>4. PICK m \in Nat : m = Len(Candidates[g])
      BY HostFacts
  <2>5. m * Flight \in Nat
      BY <1>2, Times
  <2>6. PICK t \in Int, u \in Int : t = e.at - m * Flight /\ u = now - (NegMax + m * Flight)
      BY <1>1, <1>2, <2>5
  <2>7. u <= t
      BY <1>1, <1>2, <2>1, <2>5, <2>6
  <2>8. ASSUME NEW n \in Range(Candidates[g])
        PROVE  HeldSince(n, Absent, u)
    <3>1. PICK j \in DOMAIN Candidates[g] : n = Cand(g, j) /\ n \in Name
      <4>1. /\ DOMAIN Candidates[g] = 1..Len(Candidates[g])
            /\ \A i \in 1..Len(Candidates[g]) : Cand(g, i) \in Name
            /\ Range(Candidates[g]) = {Cand(g, i) : i \in 1..Len(Candidates[g])}
          BY HostFacts
      <4> QED
          BY <4>1
    <3>2. HeldSince(n, Absent, t)
        BY <2>2, <2>4, <2>6, <3>1
    <3> QED
        BY <2>6, <2>7, <3>1, <3>2, HeldEarlier DEF States
  <2>9. AbsentLately(o)
      BY <1>3, <2>3, <2>4, <2>6, <2>8 DEF AbsentLately
  <2>10. ASSUME changes = 0
         PROVE  Follows(o, g)
    <3>1. 1 \in DOMAIN Candidates[g] /\ \A j \in DOMAIN Candidates[g] : 1 <= j
        BY HostFacts
    <3>2. \A j \in DOMAIN Candidates[g] : zone[Candidates[g][j]] \notin Version
        BY <2>2, <2>10, Constants DEF Cand, Absent
    <3>3. o.result.kind = zone[Candidates[g][1]] /\ ~IsPositive(o.result) /\ o.lost = {}
        BY <1>3, <1>6, <2>1, <2>2, <2>10 DEF Cand
    <3> QED
        BY <1>3, <2>3, <3>1, <3>2, <3>3 DEF Follows
  <2> QED
      BY <1>2, <1>3, <1>4, <1>6, <2>3, <2>9, <2>10 DEF OutcomeOK
<1> QED
    BY <1>5, <1>6

\* A lookup begins: it misses the cache and asks, or it hits and is answered.
LEMMA BeginKeepsInv ==
    ASSUME Inv, NEW p \in Task, NEW h \in Host, Begin(p, h)
    PROVE  Inv'
<1>1. WorldOK /\ CacheOK(cache)
    BY DEF Inv
<1>2. CacheOK(Touch(cache, Key[h])) /\ cache' = Touch(cache, Key[h]) /\ Still
    BY <1>1, ProbeKeepsCache DEF Begin, Still
<1>3. CASE Fresh(cache, Key[h], now) = {}
    BY <1>1, <1>2, <1>3, AskingOK, TaskStep DEF Begin
<1>4. CASE Fresh(cache, Key[h], now) # {}
  <2>1. PICK e : e = CHOOSE f \in Fresh(cache, Key[h], now) : TRUE
      OBVIOUS
  <2>2. e \in Fresh(cache, Key[h], now)
      BY <1>4, <2>1
  <2>3. e \in Range(cache) /\ e.name = Key[h] /\ now - e.at <= e.ttl
      BY <2>2 DEF Fresh, Find
  <2>4. e \in Good
      BY <1>1, <2>3 DEF CacheOK, Range
  <2>5. PICK o : o = Done(h, e.result, "cache", e.lost)
      OBVIOUS
  <2>6. TaskOK(o)
    <3>1. OutcomeOK(o) /\ o.pc = "done"
        BY <1>1, <2>3, <2>4, <2>5, CachedOutcome DEF Done
    <3> QED
        BY <3>1 DEF TaskOK
  <2>7. task' = [task EXCEPT ![p] = o]
      BY <1>4, <2>1, <2>5 DEF Begin
  <2> QED
      BY <1>2, <2>6, <2>7, TaskStep
<1> QED
    BY <1>3, <1>4

\* An answer of a server ends the lookup: its own search order is the one followed.
LEMMA ServedOutcome ==
    ASSUME WorldOK, NEW h \in Host, NEW r \in Result \cup {Failed}, NEW lost \in SUBSET Name,
           NEW o, o = Done(h, r, "server", lost),
           IsPositive(r) => TrueLately(o),
           r \in {NoData, NxDomain} => AbsentLately(o),
           changes = 0 => Follows(o, h)
    PROVE  TaskOK(o)
<1>1. /\ o.pc = "done" /\ o.host = h /\ o.result = r /\ o.from = "server" /\ o.at = now
    BY DEF Done
<1>2. now \in Nat
    BY DEF WorldOK
<1>3. o \in Outcome
    BY <1>2 DEF Done, Outcome
<1>4. h \in Askers(o)
    BY <1>1 DEF Askers
<1> QED
    BY <1>1, <1>2, <1>3, <1>4 DEF TaskOK, OutcomeOK

\* An error follows any search order.
LEMMA ErrorFollows ==
    ASSUME NEW o, o.result = Failed, o.from # "stale", NEW g
    PROVE  Follows(o, g)
    BY ResultKinds DEF Follows

\* Records are cached as of now and returned.
LEMMA TakePositiveKeepsInv ==
    ASSUME Inv, NEW p \in Task, TakePositive(p)
    PROVE  Inv'
<1>1. PICK t : t = task[p]
    OBVIOUS
<1>2. /\ WorldOK /\ CacheOK(cache) /\ t.pc = "replied" /\ WalkOK(t) /\ t.reply \in Version
      /\ ReplyOK(t)
    BY <1>1 DEF Inv, TaskOK, TakePositive, WalkOK
<1>3. /\ t \in Walk /\ t.host \in Host /\ t.i \in 1..Len(Candidates[t.host])
      /\ Len(Candidates[t.host]) \in Nat
      /\ t.at \in Nat /\ t.at <= now /\ now <= t.at + Flight /\ now \in Nat
      /\ now \in 0..MaxTime /\ Flight \in Nat
      /\ t.lost \in SUBSET Name
      /\ Current(t) = Cand(t.host, t.i) /\ Current(t) \in Name
    BY <1>2, WalkFacts
<1>4. PICK n \in Name : n = Current(t)
    BY <1>3
<1>5. PICK v \in Version : v = t.reply
    BY <1>2
<1>6. PICK r : r = Positive(n, v)
    OBVIOUS
<1>7. r \in Result /\ IsPositive(r) /\ r.name = n /\ r.version = v
    BY <1>6 DEF Result, IsPositive, Positive
<1>8. PICK ttl \in Nat : ttl = IF t.ttl > MinTtl THEN t.ttl ELSE MinTtl
    BY <1>2, Constants DEF ReplyOK
<1>9. PICK S \in SUBSET States : S = {v}
    BY DEF States
<1>10. HeldSince(n, S, t.at)
    BY <1>2, <1>4, <1>5, <1>9 DEF ReplyOK
<1>11. HeldSince(n, {v}, now - Flight)
  <2>1. PICK u \in Int : u = now - Flight
      BY <1>3
  <2>2. u <= t.at
      BY <1>3, <2>1
  <2> QED
      BY <1>2, <1>3, <1>9, <1>10, <2>1, <2>2, HeldEarlier
<1>12. changes = 0 => zone[n] = v
    BY <1>2, <1>4, <1>5 DEF ReplyOK, States
<1>13. ASSUME changes = 0, NEW j \in 1..(t.i - 1), zone[Cand(t.host, j)] \in Version
       PROVE  Cand(t.host, j) \in t.lost
    BY <1>2, <1>13, Constants DEF WalkOK, PassedOver, Absent
<1>14. CacheOK(Insert(cache, n, r, ttl, now, t.lost))
  <2>1. ASSUME ttl # 0
        PROVE  [name |-> n, result |-> r, at |-> now,
                ttl |-> IF ttl > MaxTtl THEN MaxTtl ELSE ttl, lost |-> t.lost] \in Good
    <3>1. PICK m : m = IF ttl > MaxTtl THEN MaxTtl ELSE ttl
        OBVIOUS
    <3>2. m \in 1..MaxTtl
        BY <2>1, <3>1, Constants
    <3>3. PICK e : e = [name |-> n, result |-> r, at |-> now, ttl |-> m, lost |-> t.lost]
        OBVIOUS
    <3>4. e \in Entry
        BY <1>3, <1>7, <3>2, <3>3 DEF Entry, Result
    <3>5. e.name = n /\ e.result = r /\ e.at = now /\ e.lost = t.lost
        BY <3>3
    <3>6. changes = 0 => Reached(n, t.lost)
      <4>1. t.i \in DOMAIN Candidates[t.host]
          BY <1>3, HostFacts
      <4> QED
          BY <1>3, <1>4, <1>13, <4>1 DEF Reached
    <3>7. EntryOK(e)
      <4>1. HeldSince(e.name, {e.result.version}, e.at - Flight)
          BY <1>7, <1>11, <3>5
      <4>2. e.at <= now /\ IsPositive(e.result) /\ e.result.name = e.name
          BY <1>3, <1>7, <3>5
      <4>3. changes = 0 => e.result.version = zone[e.name] /\ Reached(e.name, e.lost)
          BY <1>7, <1>12, <3>5, <3>6
      <4> QED
          BY <4>1, <4>2, <4>3 DEF EntryOK
    <3> QED
        BY <3>1, <3>3, <3>4, <3>7 DEF Good
  <2> QED
      BY <1>2, <2>1, InsertKeepsCache
<1>15. PICK o : o = Done(t.host, r, "server", t.lost)
    OBVIOUS
<1>16. o.result = r /\ o.from = "server" /\ o.at = now /\ o.lost = t.lost /\ o.host = t.host
    BY <1>15 DEF Done
<1>17. TrueLately(o)
  <2>1. PICK u \in Int : u = now - (MaxTtl + Flight + 0)
      BY <1>3, Constants
  <2>2. u <= t.at
      BY <1>3, <2>1, Constants
  <2>3. HeldSince(n, S, u)
      BY <1>2, <1>3, <1>10, <2>2, HeldEarlier
  <2> QED
      BY <1>7, <1>9, <1>16, <2>1, <2>3 DEF TrueLately
<1>18. ASSUME changes = 0
       PROVE  Follows(o, t.host)
  <2>1. t.i \in DOMAIN Candidates[t.host]
        /\ DOMAIN Candidates[t.host] = 1..Len(Candidates[t.host])
      BY <1>3, HostFacts
  <2>2. o.result = Positive(Candidates[t.host][t.i], zone[Candidates[t.host][t.i]])
        /\ zone[Candidates[t.host][t.i]] \in Version
      BY <1>3, <1>4, <1>6, <1>12, <1>16, <1>18 DEF Cand
  <2>3. ASSUME NEW j \in DOMAIN Candidates[t.host], zone[Candidates[t.host][j]] \in Version,
               Candidates[t.host][j] \notin o.lost
        PROVE  t.i <= j
    <3>1. j \notin 1..(t.i - 1)
        BY <1>13, <1>16, <1>18, <2>3 DEF Cand
    <3> QED
        BY <1>3, <2>1, <3>1
  <2>4. o.result \notin {NoData, NxDomain}
      BY <1>6, <1>16, ResultKinds
  <2> QED
      BY <1>16, <2>1, <2>2, <2>3, <2>4 DEF Follows
<1>19. TaskOK(o)
    BY <1>2, <1>3, <1>6, <1>7, <1>15, <1>17, <1>18, ServedOutcome, ResultKinds
<1>20. /\ cache' = Insert(cache, n, r, ttl, now, t.lost)
       /\ task' = [task EXCEPT ![p] = o]
       /\ Still
    BY <1>1, <1>4, <1>5, <1>6, <1>8, <1>15 DEF TakePositive, Still
<1> QED
    BY <1>14, <1>19, <1>20, TaskStep

\* A fatal error is returned.
LEMMA TakeFatalKeepsInv ==
    ASSUME Inv, NEW p \in Task, TakeFatal(p)
    PROVE  Inv'
<1>1. PICK t : t = task[p]
    OBVIOUS
<1>2. WorldOK /\ CacheOK(cache) /\ WalkOK(t)
    BY <1>1 DEF Inv, TaskOK, TakeFatal
<1>3. t.host \in Host /\ t.lost \in SUBSET Name
    BY <1>2, WalkFacts
<1>4. PICK o : o = Done(t.host, Failed, "server", t.lost)
    OBVIOUS
<1>5. o.result = Failed /\ o.from = "server"
    BY <1>4 DEF Done
<1>6. Follows(o, t.host)
    BY <1>5, ErrorFollows
<1>7. TaskOK(o)
    BY <1>2, <1>3, <1>4, <1>6, ServedOutcome, ResultKinds
<1>8. task' = [task EXCEPT ![p] = o] /\ cache' = cache /\ Still
    BY <1>1, <1>4 DEF TakeFatal, Still
<1> QED
    BY <1>2, <1>7, <1>8, TaskStep

\* What is noted of an absence or a failure: one more candidate is passed over.
LEMMA NotedFacts ==
    ASSUME WorldOK, NEW t, WalkOK(t), Inconclusive(t), NEW n, n = Noted(t)
    PROVE  /\ n \in Walk /\ n.host = t.host /\ n.i = t.i
           /\ PassedOver(n, t.i, now - t.i * Flight)
<1>1. /\ t \in Walk /\ t.host \in Host /\ t.i \in 1..Len(Candidates[t.host])
      /\ Len(Candidates[t.host]) \in Nat
      /\ t.at \in Nat /\ t.at <= now /\ now <= t.at + Flight /\ now \in Nat
      /\ now \in 0..MaxTime /\ Flight \in Nat
      /\ t.lost \in SUBSET Name
      /\ Current(t) = Cand(t.host, t.i) /\ Current(t) \in Name
    BY WalkFacts
<1>2. t.pc = "replied" /\ t.reply \in Absent \cup {"transient"} /\ ReplyOK(t)
    BY DEF Inconclusive, WalkOK
<1>3. "transient" \notin Absent /\ "none" \notin Absent
    BY DEF Absent
<1>4. PICK fn : fn = IF t.reply \in Absent /\ t.firstNegative = "none" THEN t.reply
                     ELSE t.firstNegative
    OBVIOUS
<1>5. PICK lost : lost = IF t.reply = "transient" THEN t.lost \cup {Current(t)} ELSE t.lost
    OBVIOUS
<1>6. PICK nt : nt = IF t.reply \in Absent /\ t.firstNegative = "none" THEN NegativeTtl(t.ttl)
                     ELSE t.negativeTtl
    OBVIOUS
<1>7. n = [t EXCEPT !.firstNegative = fn, !.negativeTtl = nt, !.lost = lost]
    BY <1>4, <1>5, <1>6 DEF Noted
<1>8. t.firstNegative \in Absent \cup {"none"} /\ t.negativeTtl \in 0..NegMax
    BY <1>1 DEF Walk
<1>9. fn \in Absent \cup {"none"} /\ lost \in SUBSET Name
    BY <1>1, <1>4, <1>5, <1>8
<1>10. nt \in 0..NegMax
  <2>1. CASE t.reply \in Absent /\ t.firstNegative = "none"
    <3>1. t.ttl \in Nat \cup {-1}
        BY <1>2, <2>1 DEF ReplyOK, NoSoa
    <3>2. NegativeTtl(t.ttl) \in 0..NegMax
        BY <3>1, Constants DEF NegativeTtl, NoSoa
    <3> QED
        BY <1>6, <2>1, <3>2
  <2>2. CASE ~(t.reply \in Absent /\ t.firstNegative = "none")
      BY <1>6, <1>8, <2>2
  <2> QED
      BY <2>1, <2>2
<1>11. /\ n.host = t.host /\ n.i = t.i /\ n.firstNegative = fn /\ n.lost = lost
       /\ n.negativeTtl = nt
    BY <1>1, <1>7 DEF Walk
<1>12. n \in Walk
    BY <1>1, <1>7, <1>9, <1>10 DEF Walk
<1>13. PICK m \in Nat : m = t.i - 1 /\ t.i = m + 1
    BY <1>1
<1>14. m * Flight \in Nat /\ t.i * Flight = m * Flight + Flight
    BY <1>1, <1>13, Times
<1>15. PICK u \in Int, v \in Int : u = now - t.i * Flight /\ v = t.at - m * Flight
  <2>1. PICK a \in Nat, b \in Nat : a = m * Flight /\ b = t.i * Flight
    <3>1. PICK k \in Nat : k = t.i
        BY <1>13
    <3>2. k * Flight \in Nat
        BY <1>1, Times
    <3> QED
        BY <1>14, <3>1, <3>2
  <2>2. now - b \in Int /\ t.at - a \in Int
      BY <1>1, <2>1
  <2> QED
      BY <2>1, <2>2
<1>16. u <= v /\ u <= t.at
    BY <1>1, <1>14, <1>15
<1>17. PassedOver(t, m, v)
    BY <1>13, <1>15 DEF WalkOK
<1>18. \A j \in 1..t.i : j \in 1..m \/ j = t.i
    BY <1>1, <1>13
<1>19. \A j \in 1..m : j \in 1..t.i /\ j # t.i
    BY <1>1, <1>13
<1>20. t.lost \subseteq lost /\ t.i \in 1..t.i
    BY <1>1, <1>5
<1>21. ASSUME NEW x \in lost
       PROVE  \E j \in 1..t.i : x = Cand(t.host, j)
    BY <1>1, <1>5, <1>17, <1>19, <1>20 DEF PassedOver
<1>22. ASSUME NEW j \in 1..t.i
       PROVE  Cand(t.host, j) \in lost \/ HeldSince(Cand(t.host, j), Absent, u)
  <2>1. Cand(t.host, j) \in Name
      BY <1>1, HostFacts
  <2>2. PICK x \in Name, S \in SUBSET States : x = Cand(t.host, j) /\ S = Absent
      BY <2>1 DEF States
  <2>3. CASE j \in 1..m
    <3>1. x \in t.lost \/ HeldSince(x, S, v)
        BY <1>17, <2>2, <2>3 DEF PassedOver
    <3>2. x \in lost \/ HeldSince(x, S, u)
        BY <1>16, <1>20, <3>1, HeldEarlier
    <3> QED
        BY <2>2, <3>2
  <2>4. CASE j = t.i
    <3>1. t.reply \in Absent => HeldSince(x, S, t.at)
        BY <1>1, <1>2, <2>2, <2>4 DEF ReplyOK
    <3>2. t.reply \in Absent => HeldSince(x, S, u)
        BY <1>1, <1>16, <3>1, HeldEarlier
    <3> QED
        BY <1>1, <1>2, <1>5, <2>2, <2>4, <3>2
  <2> QED
      BY <1>18, <2>3, <2>4
<1>23. ASSUME fn = "none", NEW j \in 1..t.i
       PROVE  Cand(t.host, j) \in lost
    BY <1>1, <1>2, <1>3, <1>4, <1>5, <1>17, <1>18, <1>23 DEF PassedOver
<1>24. ASSUME changes = 0, NEW j \in 1..t.i
       PROVE  Cand(t.host, j) \in lost \/ zone[Cand(t.host, j)] \in Absent
  <2>1. CASE j \in 1..m
      BY <1>17, <1>20, <1>24, <2>1 DEF PassedOver
  <2>2. CASE j = t.i
      BY <1>1, <1>2, <1>5, <1>24, <2>2 DEF ReplyOK, States
  <2> QED
      BY <1>18, <2>1, <2>2
<1>25. ASSUME changes = 0, fn # "none"
       PROVE  \E k \in 1..t.i :
                  /\ fn = zone[Cand(t.host, k)]
                  /\ \A j \in 1..(k - 1) : Cand(t.host, j) \in lost
                  /\ Cand(t.host, k) \in lost =>
                        \E l \in DOMAIN Candidates[t.host] :
                            l # k /\ Cand(t.host, l) = Cand(t.host, k)
  <2>1. DOMAIN Candidates[t.host] = 1..Len(Candidates[t.host])
      BY <1>1, HostFacts
  <2>2. \A j \in 1..t.i : j \in DOMAIN Candidates[t.host]
      BY <1>1, <2>1
  <2>3. CASE t.firstNegative # "none"
    <3>1. PICK k \in 1..m :
              /\ t.firstNegative = zone[Cand(t.host, k)]
              /\ \A j \in 1..(k - 1) : Cand(t.host, j) \in t.lost
              /\ Cand(t.host, k) \in t.lost =>
                    \E l \in DOMAIN Candidates[t.host] :
                        l # k /\ Cand(t.host, l) = Cand(t.host, k)
        BY <1>17, <1>25, <2>3 DEF PassedOver
    <3>2. fn = t.firstNegative
        BY <1>4, <2>3
    <3>3. k \in 1..t.i /\ k # t.i
        BY <1>19
    <3>4. \A j \in 1..(k - 1) : Cand(t.host, j) \in lost
        BY <1>20, <3>1
    <3>5. ASSUME Cand(t.host, k) \in lost
          PROVE  \E l \in DOMAIN Candidates[t.host] :
                     l # k /\ Cand(t.host, l) = Cand(t.host, k)
      <4>1. CASE Cand(t.host, k) \in t.lost
          BY <3>1, <4>1
      <4>2. CASE Cand(t.host, k) \notin t.lost
        <5>1. Cand(t.host, k) = Cand(t.host, t.i)
            BY <1>1, <1>5, <3>5, <4>2
        <5> QED
            BY <1>20, <2>2, <3>3, <5>1
      <4> QED
          BY <4>1, <4>2
    <3> QED
        BY <3>1, <3>2, <3>3, <3>4, <3>5
  <2>4. CASE t.firstNegative = "none"
    <3>1. t.reply \in Absent /\ fn = t.reply /\ lost = t.lost
        BY <1>3, <1>4, <1>5, <1>25, <2>4
    <3>2. fn = zone[Cand(t.host, t.i)]
        BY <1>1, <1>2, <1>25, <3>1 DEF ReplyOK, States
    <3>3. \A j \in 1..(t.i - 1) : Cand(t.host, j) \in lost
        BY <1>13, <1>17, <2>4, <3>1 DEF PassedOver
    <3>4. ASSUME Cand(t.host, t.i) \in lost
          PROVE  \E l \in DOMAIN Candidates[t.host] :
                     l # t.i /\ Cand(t.host, l) = Cand(t.host, t.i)
      <4>1. PICK l \in 1..m : Cand(t.host, t.i) = Cand(t.host, l)
          BY <1>17, <3>1, <3>4 DEF PassedOver
      <4> QED
          BY <1>19, <2>2, <4>1
    <3> QED
        BY <1>20, <3>2, <3>3, <3>4
  <2> QED
      BY <2>3, <2>4
<1>26. PassedOver(n, t.i, u)
    BY <1>11, <1>21, <1>22, <1>23, <1>24, <1>25 DEF PassedOver
<1> QED
    BY <1>11, <1>12, <1>15, <1>26

\* An inconclusive reply to a candidate that is not the last: the next is asked for.
LEMMA TakeNextKeepsInv ==
    ASSUME Inv, NEW p \in Task, TakeNext(p)
    PROVE  Inv'
<1>1. PICK t : t = task[p]
    OBVIOUS
<1>2. /\ WorldOK /\ CacheOK(cache) /\ WalkOK(t) /\ Inconclusive(t)
    BY <1>1 DEF Inv, TaskOK, TakeNext, Inconclusive
<1>3. PICK n : n = Noted(t)
    OBVIOUS
<1>4. n \in Walk /\ n.host = t.host /\ n.i = t.i /\ PassedOver(n, t.i, now - t.i * Flight)
    BY <1>2, <1>3, NotedFacts
<1>5. /\ n.i < Len(Candidates[n.host])
      /\ task' = [task EXCEPT ![p] = [n EXCEPT !.pc = "asking", !.i = @ + 1,
                                              !.reply = "none", !.ttl = 0, !.at = now]]
      /\ cache' = cache /\ Still
    BY <1>1, <1>3 DEF TakeNext, Still
<1>6. PICK x : x = [n EXCEPT !.pc = "asking", !.i = @ + 1,
                             !.reply = "none", !.ttl = 0, !.at = now]
    OBVIOUS
<1>7. t.i \in Nat \ {0} /\ now \in Nat /\ Flight \in Nat /\ Len(Candidates[t.host]) \in Nat
    BY <1>2, WalkFacts
<1>8. /\ x.pc = "asking" /\ x.host = n.host /\ x.i = t.i + 1 /\ x.at = now
      /\ x.firstNegative = n.firstNegative /\ x.lost = n.lost
    BY <1>4, <1>6 DEF Walk
<1>9. x \in Walk
  <2>1. PICK k \in Nat \ {0} : k = n.i + 1
      BY <1>4, <1>7
  <2>2. x = [n EXCEPT !.pc = "asking", !.i = k, !.reply = "none", !.ttl = 0, !.at = now]
      BY <1>6, <2>1
  <2>3. x = [pc |-> "asking", host |-> n.host, i |-> k, reply |-> "none", ttl |-> 0, at |-> now,
             firstNegative |-> n.firstNegative, negativeTtl |-> n.negativeTtl, lost |-> n.lost]
      BY <1>4, <2>2 DEF Walk
  <2>4. /\ n.host \in Host /\ n.firstNegative \in Absent \cup {"none"}
        /\ n.negativeTtl \in 0..NegMax /\ n.lost \in SUBSET Name
      BY <1>4 DEF Walk
  <2> QED
      BY <1>7, <2>3, <2>4 DEF Walk
<1>10. PassedOver(x, t.i, now - t.i * Flight)
    BY <1>4, <1>8, SamePassed
<1>11. x.i - 1 = t.i /\ x.i <= Len(Candidates[x.host]) /\ now <= x.at + Flight
    BY <1>4, <1>5, <1>7, <1>8
<1>12. PassedOver(x, x.i - 1, x.at - (x.i - 1) * Flight)
    BY <1>8, <1>10, <1>11
<1>13. TaskOK(x)
    BY <1>7, <1>8, <1>9, <1>11, <1>12 DEF TaskOK, WalkOK
<1> QED
    BY <1>2, <1>5, <1>6, <1>13, TaskStep

\* The last candidate, and some were absent: the absence is returned, and cached if
\* every one of them is known.
LEMMA TakeLastAbsentKeepsInv ==
    ASSUME Inv, NEW p \in Task, TakeLastAbsent(p)
    PROVE  Inv'
<1>1. PICK t : t = task[p]
    OBVIOUS
<1>2. /\ WorldOK /\ CacheOK(cache) /\ WalkOK(t) /\ Inconclusive(t)
    BY <1>1 DEF Inv, TaskOK, TakeLastAbsent, Inconclusive
<1>3. PICK n : n = Noted(t)
    OBVIOUS
<1>4. n \in Walk /\ n.host = t.host /\ n.i = t.i /\ PassedOver(n, t.i, now - t.i * Flight)
    BY <1>2, <1>3, NotedFacts
<1>5. PICK h \in Host : h = n.host
    BY <1>4 DEF Walk
<1>6. PICK r : r = IF n.firstNegative = "nodata" THEN NoData ELSE NxDomain
    OBVIOUS
<1>7. PICK o : o = Done(h, r, "server", n.lost)
    OBVIOUS
<1>8. /\ n.i = Len(Candidates[h]) /\ n.firstNegative # "none"
      /\ cache' = IF n.lost = {} THEN Insert(cache, Key[h], r, n.negativeTtl, now, n.lost)
                  ELSE cache
      /\ task' = [task EXCEPT ![p] = o]
      /\ Still
    BY <1>1, <1>3, <1>5, <1>6, <1>7 DEF TakeLastAbsent, Still
<1>9. /\ Len(Candidates[h]) \in Nat /\ DOMAIN Candidates[h] = 1..Len(Candidates[h])
      /\ \A i \in 1..Len(Candidates[h]) : Cand(h, i) \in Name
      /\ Range(Candidates[h]) = {Cand(h, i) : i \in 1..Len(Candidates[h])}
      /\ Key[h] \in Name
    BY HostFacts
<1>10. PICK m \in Nat : m = Len(Candidates[h]) /\ t.i = m
    BY <1>4, <1>8, <1>9
<1>11. now \in Nat /\ now \in 0..MaxTime /\ Flight \in Nat /\ NegMax \in Nat
    BY <1>2, Constants DEF WorldOK
<1>12. m * Flight \in Nat
    BY <1>11, Times
<1>13. PICK u \in Int, v \in Int : u = now - m * Flight /\ v = now - (NegMax + m * Flight)
  <2>1. PICK a \in Nat : a = m * Flight
      BY <1>12
  <2>2. now - a \in Int /\ now - (NegMax + a) \in Int
      BY <1>11
  <2> QED
      BY <2>1, <2>2
<1>14. v <= u
    BY <1>11, <1>12, <1>13
<1>15. PassedOver(n, m, u)
    BY <1>4, <1>10, <1>13
<1>16. n.lost \in SUBSET Name /\ n.firstNegative \in Absent /\ n.negativeTtl \in 0..NegMax
    BY <1>4, <1>8 DEF Walk
<1>17. r \in {NoData, NxDomain} /\ r.kind = n.firstNegative /\ ~IsPositive(r)
    BY <1>6, <1>16, ResultKinds DEF Absent
<1>18. \A j \in 1..m : Cand(h, j) \in n.lost \/ HeldSince(Cand(h, j), Absent, u)
    BY <1>5, <1>15 DEF PassedOver
<1>19. ASSUME changes = 0
       PROVE  /\ \A j \in 1..m : Cand(h, j) \in n.lost \/ zone[Cand(h, j)] \in Absent
              /\ \E k \in 1..m :
                    /\ n.firstNegative = zone[Cand(h, k)]
                    /\ \A j \in 1..(k - 1) : Cand(h, j) \in n.lost
                    /\ Cand(h, k) \in n.lost =>
                          \E l \in DOMAIN Candidates[h] : l # k /\ Cand(h, l) = Cand(h, k)
    BY <1>5, <1>8, <1>15, <1>19 DEF PassedOver
<1>20. ASSUME n.lost = {}
       PROVE  CacheOK(Insert(cache, Key[h], r, n.negativeTtl, now, n.lost))
  <2>1. ASSUME n.negativeTtl # 0
        PROVE  [name |-> Key[h], result |-> r, at |-> now,
                ttl |-> IF n.negativeTtl > MaxTtl THEN MaxTtl ELSE n.negativeTtl,
                lost |-> n.lost] \in Good
    <3>1. PICK k : k = IF n.negativeTtl > MaxTtl THEN MaxTtl ELSE n.negativeTtl
        OBVIOUS
    <3>2. k \in 1..MaxTtl /\ k <= NegMax
        BY <1>11, <1>16, <2>1, <3>1, Constants
    <3>3. PICK e : e = [name |-> Key[h], result |-> r, at |-> now, ttl |-> k, lost |-> n.lost]
        OBVIOUS
    <3>4. e \in Entry
        BY <1>9, <1>11, <1>16, <1>17, <3>2, <3>3 DEF Entry
    <3>5. e.name = Key[h] /\ e.result = r /\ e.at = now /\ e.lost = {} /\ e.ttl = k
        BY <1>20, <3>3
    <3>6. AllAbsent(Key[h], r.kind, now)
      <4>1. \A j \in DOMAIN Candidates[h] :
                HeldSince(Cand(h, j), Absent, now - Len(Candidates[h]) * Flight)
          BY <1>9, <1>10, <1>13, <1>18, <1>20
      <4>2. ASSUME changes = 0
            PROVE  /\ \A j \in DOMAIN Candidates[h] : zone[Cand(h, j)] \in Absent
                   /\ r.kind = zone[Cand(h, 1)]
        <5>1. PICK k2 \in 1..m :
                  /\ n.firstNegative = zone[Cand(h, k2)]
                  /\ \A j \in 1..(k2 - 1) : Cand(h, j) \in n.lost
            BY <1>19, <4>2
        <5>2. 1 \notin 1..(k2 - 1)
            BY <1>20, <5>1
        <5>3. k2 = 1
            BY <5>2
        <5> QED
            BY <1>9, <1>10, <1>17, <1>19, <1>20, <4>2, <5>1, <5>3
      <4> QED
          BY <4>1, <4>2 DEF AllAbsent
    <3>7. EntryOK(e)
        BY <1>11, <1>17, <3>2, <3>5, <3>6 DEF EntryOK
    <3> QED
        BY <3>1, <3>3, <3>4, <3>7 DEF Good
  <2> QED
      BY <1>2, <2>1, InsertKeepsCache
<1>21. PICK c : CacheOK(c) /\ cache' = c
    BY <1>2, <1>8, <1>20
<1>22. o.result = r /\ o.from = "server" /\ o.at = now /\ o.lost = n.lost /\ o.host = h
    BY <1>7 DEF Done
<1>23. AbsentLately(o)
  <2>1. ASSUME NEW x \in Range(Candidates[h]) \ n.lost
        PROVE  HeldSince(x, Absent, v)
    <3>1. PICK j \in 1..m : x = Cand(h, j) /\ x \in Name
        BY <1>9, <1>10
    <3>2. HeldSince(x, Absent, u)
        BY <1>18, <3>1
    <3> QED
        BY <1>2, <1>14, <3>1, <3>2, HeldEarlier DEF States
  <2>2. h \in Askers(o)
      BY <1>22 DEF Askers
  <2> QED
      BY <1>10, <1>13, <1>22, <2>1, <2>2 DEF AbsentLately
<1>24. ASSUME changes = 0
       PROVE  Follows(o, h)
  <2>1. PICK k \in 1..m :
            /\ n.firstNegative = zone[Cand(h, k)]
            /\ \A j \in 1..(k - 1) : Cand(h, j) \in n.lost
            /\ Cand(h, k) \in n.lost =>
                  \E l \in DOMAIN Candidates[h] : l # k /\ Cand(h, l) = Cand(h, k)
      BY <1>19, <1>24
  <2>2. ASSUME NEW j \in DOMAIN Candidates[h], Candidates[h][j] \notin o.lost
        PROVE  zone[Candidates[h][j]] \notin Version /\ k <= j
    <3>1. j \in 1..m /\ Cand(h, j) = Candidates[h][j] /\ Cand(h, j) \notin n.lost
        BY <1>9, <1>10, <1>22, <2>2 DEF Cand
    <3>2. zone[Cand(h, j)] \in Absent
        BY <1>19, <1>24, <3>1
    <3>3. j \notin 1..(k - 1)
        BY <2>1, <3>1
    <3> QED
        BY <3>1, <3>2, <3>3, Constants DEF Absent
  <2>3. k \in DOMAIN Candidates[h] /\ o.result.kind = zone[Candidates[h][k]]
      BY <1>9, <1>10, <1>17, <1>22, <2>1 DEF Cand
  <2>4. Candidates[h][k] \in o.lost =>
            \E l \in DOMAIN Candidates[h] : l # k /\ Candidates[h][l] = Candidates[h][k]
      BY <1>22, <2>1 DEF Cand
  <2> QED
      BY <1>17, <1>22, <2>2, <2>3, <2>4 DEF Follows
<1>25. TaskOK(o)
    BY <1>2, <1>7, <1>16, <1>17, <1>23, <1>24, ServedOutcome DEF Result
<1> QED
    BY <1>8, <1>21, <1>25, TaskStep

\* The last candidate, and every query failed: an expired answer is served, if there
\* is one, or the error returned.
LEMMA TakeLastFailedKeepsInv ==
    ASSUME Inv, NEW p \in Task, TakeLastFailed(p)
    PROVE  Inv'
<1>1. PICK t : t = task[p]
    OBVIOUS
<1>2. /\ WorldOK /\ CacheOK(cache) /\ WalkOK(t) /\ Inconclusive(t)
    BY <1>1 DEF Inv, TaskOK, TakeLastFailed, Inconclusive
<1>3. PICK n : n = Noted(t)
    OBVIOUS
<1>4. n \in Walk /\ n.host = t.host /\ n.i = t.i /\ PassedOver(n, t.i, now - t.i * Flight)
    BY <1>2, <1>3, NotedFacts
<1>5. PICK h \in Host : h = n.host
    BY <1>4 DEF Walk
<1>6. PICK stale : stale = IF MaxStale = NoStale THEN {} ELSE Stale(cache, Key[h], now, MaxStale)
    OBVIOUS
<1>7. /\ n.i = Len(Candidates[h]) /\ n.firstNegative = "none"
      /\ cache' = IF MaxStale = NoStale THEN cache ELSE Touch(cache, Key[h])
      /\ task' = [task EXCEPT ![p] =
             IF stale = {} THEN Done(h, Failed, "server", n.lost)
             ELSE Done(h, (CHOOSE e \in stale : TRUE).result, "stale", n.lost)]
      /\ Still
    BY <1>1, <1>3, <1>5, <1>6 DEF TakeLastFailed, Still
<1>8. PICK c : CacheOK(c) /\ cache' = c
    BY <1>2, <1>7, ProbeKeepsCache
<1>9. n.lost \in SUBSET Name
    BY <1>4 DEF Walk
<1>10. CASE stale = {}
  <2>1. PICK o : o = Done(h, Failed, "server", n.lost)
      OBVIOUS
  <2>2. Follows(o, h)
    <3>1. o.result = Failed /\ o.from = "server"
        BY <2>1 DEF Done
    <3> QED
        BY <3>1, ErrorFollows
  <2>3. TaskOK(o)
      BY <1>2, <1>9, <2>1, <2>2, ServedOutcome, ResultKinds
  <2>4. task' = [task EXCEPT ![p] = o]
      BY <1>7, <1>10, <2>1
  <2> QED
      BY <1>7, <1>8, <2>3, <2>4, TaskStep
<1>11. CASE stale # {}
  <2>1. PICK e : e = CHOOSE f \in stale : TRUE
      OBVIOUS
  <2>2. e \in stale /\ MaxStale # NoStale
      BY <1>6, <1>11, <2>1
  <2>3. /\ e \in Range(cache) /\ e.name = Key[h] /\ IsPositive(e.result)
        /\ now - e.at <= e.ttl + MaxStale
      BY <1>6, <2>2 DEF Stale, Find
  <2>4. e \in Good
      BY <1>2, <2>3 DEF CacheOK, Range
  <2>5. MaxStale \in Nat
      BY <2>2, Constants DEF NoStale
  <2>6. PICK o : o = Done(h, e.result, "stale", n.lost)
      OBVIOUS
  <2>7. /\ o.pc = "done" /\ o.host = h /\ o.result = e.result /\ o.from = "stale" /\ o.at = now
        /\ o.lost = n.lost
      BY <2>6 DEF Done
  <2>8. now \in Nat
      BY <1>2, Constants DEF WorldOK
  <2>9. o \in Outcome
      BY <1>9, <2>4, <2>6, <2>8, EntryFacts DEF Done, Outcome
  <2>10. /\ HeldSince(e.result.name, {e.result.version}, now - (MaxTtl + Flight + MaxStale))
         /\ changes = 0 => /\ e.result = Positive(Key[h], zone[Key[h]])
                           /\ zone[Key[h]] \in Version
      BY <1>2, <2>3, <2>4, <2>5, CachedRecords
  <2>11. TrueLately(o)
      BY <2>7, <2>10 DEF TrueLately
  <2>12. o.result \notin {NoData, NxDomain}
      BY <2>3, <2>7, ResultKinds
  <2>13. ASSUME changes = 0
         PROVE  Follows(o, h)
    <3>1. /\ DOMAIN Candidates[h] = 1..Len(Candidates[h])
          /\ \E i \in 1..Len(Candidates[h]) : Cand(h, i) = Key[h]
        BY HostFacts
    <3>2. PICK i \in DOMAIN Candidates[h] : Candidates[h][i] = Key[h]
        BY <3>1 DEF Cand
    <3>3. ASSUME NEW j \in DOMAIN Candidates[h]
          PROVE  Candidates[h][j] \in o.lost
        BY <1>4, <1>5, <1>7, <2>7, <3>1 DEF PassedOver, Cand
    <3> QED
        BY <2>7, <2>10, <2>12, <2>13, <3>2, <3>3 DEF Follows
  <2>14. TaskOK(o)
    <3>1. h \in Askers(o)
        BY <2>7 DEF Askers
    <3> QED
        BY <2>7, <2>8, <2>9, <2>11, <2>12, <2>13, <3>1 DEF TaskOK, OutcomeOK
  <2>15. task' = [task EXCEPT ![p] = o]
      BY <1>7, <1>11, <2>1, <2>6
  <2> QED
      BY <1>7, <1>8, <2>14, <2>15, TaskStep
<1> QED
    BY <1>10, <1>11

\* A lookup is dropped.
LEMMA CancelKeepsInv ==
    ASSUME Inv, NEW p \in Task, Cancel(p)
    PROVE  Inv'
<1>1. TaskOK(Idle)
    BY DEF TaskOK, Idle
<1> QED
    BY <1>1, TaskStep DEF Inv, Cancel, Still

-----------------------------------------------------------------------------
(* The theorems.                                                           *)

\* At the start nothing is cached and nobody looks anything up.
LEMMA InitInv == Init => Inv
<1> SUFFICES ASSUME Init
             PROVE  Inv
    OBVIOUS
<1>1. WorldOK
    BY Constants DEF Init, WorldOK, States, Never
<1>2. CacheOK(cache)
  <2>1. PICK c : c = cache
      OBVIOUS
  <2>2. c = <<>> /\ Len(c) = 0 /\ DOMAIN c = {}
      BY <2>1 DEF Init
  <2> QED
      BY <2>1, <2>2, Constants DEF CacheOK, OnePerSlot
<1>3. \A p \in Task : TaskOK(task[p])
    BY DEF Init, TaskOK, Idle
<1> QED
    BY <1>1, <1>2, <1>3 DEF Init, Inv

\* Every step keeps the invariant.
LEMMA NextKeepsInv == Inv /\ [Next]_vars => Inv'
<1> SUFFICES ASSUME Inv, [Next]_vars
             PROVE  Inv'
    OBVIOUS
<1>1. /\ WorldOK
      /\ \A p \in Task : task[p].pc \in {"asking", "replied"} =>
             task[p].at \in Nat /\ now <= task[p].at + Flight
    BY WalkFacts DEF Inv, TaskOK
<1>2. now \in Nat /\ Flight \in Nat
    BY <1>1, Constants DEF WorldOK
<1>3. ASSUME UNCHANGED <<now, zone, changes, lastHeld>>, UNCHANGED task, cache' \in {cache, <<>>}
      PROVE  Inv'
  <2>1. Moves
      BY <1>2, <1>3 DEF Moves, HeldSince
  <2>2. WorldOK'
      BY <1>1, <1>3, StillFacts DEF Still
  <2> QED
      BY <1>1, <1>3, <2>1, <2>2, WorldStep
<1>4. ASSUME NEW n \in Name, ZoneChanges(n)
      PROVE  Inv'
  <2>1. Moves /\ WorldOK' /\ now' = now
      BY <1>4, ZoneMoves
  <2> QED
      BY <1>1, <1>4, <2>1, WorldStep DEF ZoneChanges
<1>5. CASE Tick
  <2>1. /\ Moves /\ WorldOK' /\ now' = now + 1
        /\ \A p \in Task : task[p].pc \in {"asking", "replied"} => now - task[p].at < Flight
      BY <1>5, TickMoves
  <2>2. \A p \in Task : task[p].pc \in {"asking", "replied"} => now' <= task[p].at + Flight
      BY <1>1, <1>2, <2>1
  <2> QED
      BY <1>5, <2>1, <2>2, WorldStep DEF Tick
<1>6. CASE ClearCache
    BY <1>3, <1>6 DEF ClearCache
<1>7. CASE UNCHANGED vars
    BY <1>3, <1>7 DEF vars
<1>8. ASSUME NEW p \in Task, Take(p)
      PROVE  Inv'
    BY <1>8, TakePositiveKeepsInv, TakeFatalKeepsInv, TakeNextKeepsInv,
       TakeLastAbsentKeepsInv, TakeLastFailedKeepsInv DEF Take
<1> QED
    BY <1>4, <1>5, <1>6, <1>7, <1>8, BeginKeepsInv, ServeKeepsInv, FailKeepsInv,
       CancelKeepsInv DEF Next

\* What the cache and the lookups hold stays true of the zone's past, and of the zone
\* itself while it does not change.
THEOREM LookupInvariant == Spec => []Inv
<1>1. Init => Inv
    BY InitInv
<1>2. Inv /\ [Next]_vars => Inv'
    BY NextKeepsInv
<1> QED
    BY <1>1, <1>2, PTL DEF Spec

\* Every variable keeps its type, whatever the hosts, slots, TTLs and caps: the cache
\* never exceeds its capacity, never has two entries in one slot, and files records
\* only under the name they are of.
THEOREM LookupTypes == Spec => []TypeOK
<1>1. Inv => TypeOK
  <2> SUFFICES ASSUME Inv
               PROVE  TypeOK
      OBVIOUS
  <2>1. WorldOK /\ CacheOK(cache) /\ \A p \in Task : TaskOK(task[p])
      BY DEF Inv
  <2>2. ASSUME NEW e \in Range(cache)
        PROVE  e \in Entry /\ (IsPositive(e.result) => e.result.name = e.name)
    <3>1. e \in Good
        BY <2>1 DEF CacheOK, Range
    <3> QED
        BY <3>1 DEF Good, EntryOK
  <2>3. now \in 0..MaxTime /\ zone \in [Name -> Absent \cup Version]
        /\ lastHeld \in [Name -> [Absent \cup Version -> Never..MaxTime]]
      BY <2>1 DEF WorldOK, States
  <2> QED
      BY <2>1, <2>2, <2>3 DEF TypeOK, CacheOK, OnePerSlot, TaskOK
<1> QED
    BY <1>1, LookupInvariant, PTL

\* Records returned were held no longer ago than the TTL cap, one query and, for
\* stale answers, the stale window allow, however lookups, evictions and changes of
\* the zone interleave.
THEOREM StalenessIsBounded == Spec => []BoundedStaleness
<1>1. Inv => BoundedStaleness
  <2> SUFFICES ASSUME Inv, NEW p \in Task, Answered(p)
               PROVE  TrueLately(task[p])
      BY DEF BoundedStaleness, TrueLately
  <2> QED
      BY DEF Inv, TaskOK, OutcomeOK, Answered, Ended
<1> QED
    BY <1>1, LookupInvariant, PTL

\* An absence returned was one no longer ago than the negative cap and the queries of
\* a search list allow, for every candidate that the lookup did not fail to learn of.
THEOREM AbsenceIsBounded == Spec => []BoundedAbsence
<1>1. Inv => BoundedAbsence
  <2> SUFFICES ASSUME Inv, NEW p \in Task, Denied(p)
               PROVE  AbsentLately(task[p])
      BY DEF BoundedAbsence, AbsentLately
  <2> QED
      BY DEF Inv, TaskOK, OutcomeOK, Denied, Ended
<1> QED
    BY <1>1, LookupInvariant, PTL

\* While the zone does not change, every lookup returns what a search order over its
\* key says, from the servers and from the cache.
THEOREM AnswersFollowSearch == Spec => []AnswerFollowsSearch
<1>1. Inv => AnswerFollowsSearch
    BY DEF Inv, TaskOK, OutcomeOK, AnswerFollowsSearch, Ended
<1> QED
    BY <1>1, LookupInvariant, PTL

=============================================================================
