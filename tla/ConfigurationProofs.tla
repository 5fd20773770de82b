------------------------ MODULE ConfigurationProofs ------------------------
(***************************************************************************)
(* Proofs about Configuration, for any networks, lists, providers, hosts   *)
(* and bounds: what the orders of ServerOrder hold and where, and that Inv *)
(* is inductive, from which the safety invariants follow.                  *)
(***************************************************************************)
EXTENDS Configuration, FiniteSetTheorems, SequenceTheorems, TLAPS

-----------------------------------------------------------------------------
(* Orders. *)

\* A key orders S if no two members share one.
Keyed(S, key) == /\ IsFiniteSet(S)
                 /\ key \in [S -> Int]
                 /\ \A s, t \in S : key[s] = key[t] => s = t

Before(S, key, s) == {t \in S : key[t] < key[s]}

\* Fewer than all come before a member, and fewer before an earlier one.
LEMMA BeforeGrows ==
    ASSUME NEW S, NEW key, Keyed(S, key), NEW s \in S
    PROVE  /\ Cardinality(S) \in Nat
           /\ Cardinality(Before(S, key, s)) \in Nat
           /\ Cardinality(Before(S, key, s)) < Cardinality(S)
           /\ \A t \in S : key[t] < key[s] =>
                 Cardinality(Before(S, key, t)) < Cardinality(Before(S, key, s))
<1>1. /\ IsFiniteSet(S) /\ key \in [S -> Int]
      /\ \A x, y \in S : key[x] = key[y] => x = y
    BY DEF Keyed
<1>2. Cardinality(S) \in Nat
    BY <1>1, FS_CardinalityType
<1>3. ASSUME NEW x \in S
      PROVE  /\ IsFiniteSet(Before(S, key, x))
             /\ Cardinality(Before(S, key, x)) \in Nat
             /\ Cardinality(Before(S, key, x)) < Cardinality(S)
    <2>1. PICK B \in SUBSET S : B = Before(S, key, x)
        BY DEF Before
    <2>2. IsFiniteSet(B)
        BY <1>1, FS_Subset
    <2>3. Cardinality(B) \in Nat
        BY <2>2, FS_CardinalityType
    <2>4. x \notin B
        BY <1>1, <2>1 DEF Before
    <2>5. Cardinality(B) <= Cardinality(S) /\ Cardinality(B) # Cardinality(S)
        BY <1>1, <2>4, FS_Subset
    <2> QED
        BY <1>2, <2>1, <2>2, <2>3, <2>5
<1>4. ASSUME NEW t \in S, key[t] < key[s]
      PROVE  Cardinality(Before(S, key, t)) < Cardinality(Before(S, key, s))
    <2>1. PICK B \in SUBSET S : B = Before(S, key, s)
        BY DEF Before
    <2>2. PICK A \in SUBSET B : A = Before(S, key, t)
        <3>1. ASSUME NEW x \in S, key[x] < key[t]
              PROVE  key[x] < key[s]
            <4>1. key[x] \in Int /\ key[t] \in Int /\ key[s] \in Int
                BY <1>1
            <4> QED
                BY <1>4, <3>1, <4>1
        <3>2. Before(S, key, t) \subseteq B
            BY <2>1, <3>1 DEF Before
        <3> QED
            BY <3>2
    <2>3. t \in B /\ t \notin A
        BY <1>1, <1>4, <2>1, <2>2 DEF Before
    <2>4. IsFiniteSet(B) /\ Cardinality(A) \in Nat /\ Cardinality(B) \in Nat
        BY <1>3, <2>1, <2>2
    <2>5. Cardinality(A) <= Cardinality(B) /\ Cardinality(A) # Cardinality(B)
        BY <2>3, <2>4, FS_Subset
    <2> QED
        BY <2>1, <2>2, <2>4, <2>5
<1> QED
    BY <1>2, <1>3, <1>4

\* InOrder lists every member once, each behind the members of smaller keys.
LEMMA InOrderLists ==
    ASSUME NEW S, NEW key, Keyed(S, key)
    PROVE  /\ Cardinality(S) \in Nat
           /\ DOMAIN InOrder(S, key) = 1..Cardinality(S)
           /\ \A k \in 1..Cardinality(S) :
                 /\ InOrder(S, key)[k] \in S
                 /\ Cardinality(Before(S, key, InOrder(S, key)[k])) = k - 1
           /\ \A s \in S : \E k \in 1..Cardinality(S) : InOrder(S, key)[k] = s
<1>1. /\ IsFiniteSet(S) /\ key \in [S -> Int]
      /\ \A x, y \in S : key[x] = key[y] => x = y
    BY DEF Keyed
<1>2. PICK n \in Nat : n = Cardinality(S)
    BY <1>1, FS_CardinalityType
<1>3. PICK rank : rank = [s \in S |-> Cardinality(Before(S, key, s)) + 1]
    OBVIOUS
<1>4. ASSUME NEW s \in S
      PROVE  rank[s] \in 1..n /\ rank[s] = Cardinality(Before(S, key, s)) + 1
             /\ Cardinality(Before(S, key, s)) \in Nat
    BY <1>2, <1>3, BeforeGrows
<1>5. ASSUME NEW s \in S, NEW t \in S, rank[s] = rank[t]
      PROVE  s = t
    <2>1. CASE key[s] < key[t]
        <3>1. Cardinality(Before(S, key, s)) < Cardinality(Before(S, key, t))
            BY <2>1, BeforeGrows
        <3> QED
            BY <1>4, <1>5, <3>1
    <2>2. CASE key[t] < key[s]
        <3>1. Cardinality(Before(S, key, t)) < Cardinality(Before(S, key, s))
            BY <2>2, BeforeGrows
        <3> QED
            BY <1>4, <1>5, <3>1
    <2> QED
        BY <1>1, <2>1, <2>2
<1>6. rank \in Injection(S, 1..n)
    BY <1>3, <1>4, <1>5 DEF Injection, IsInjective
<1>7. IsFiniteSet(1..n) /\ Cardinality(1..n) = n
    BY FS_Interval
<1>8. rank \in Surjection(S, 1..n)
    BY <1>2, <1>6, <1>7, FS_Injection
<1>9. PICK order : order = InOrder(S, key)
    OBVIOUS
<1>10. order = [k \in 1..n |-> CHOOSE s \in S : Cardinality({t \in S : key[t] < key[s]}) = k - 1]
    BY <1>2, <1>9 DEF InOrder
<1>11. ASSUME NEW k \in 1..n
       PROVE  order[k] \in S /\ Cardinality(Before(S, key, order[k])) = k - 1
    <2>1. PICK s \in S : rank[s] = k
        BY <1>8 DEF Surjection
    <2>2. Cardinality({t \in S : key[t] < key[s]}) = k - 1
        BY <1>4, <2>1 DEF Before
    <2>3. order[k] = CHOOSE x \in S : Cardinality({t \in S : key[t] < key[x]}) = k - 1
        BY <1>10
    <2> QED
        BY <2>2, <2>3 DEF Before
<1>12. ASSUME NEW s \in S
       PROVE  \E k \in 1..n : order[k] = s
    <2>1. rank[s] \in 1..n
        BY <1>4
    <2>2. PICK k \in 1..n : k = rank[s]
        BY <2>1
    <2>3. order[k] \in S /\ Cardinality(Before(S, key, order[k])) = k - 1
        BY <1>11
    <2>4. rank[order[k]] = k
        BY <1>3, <2>3
    <2> QED
        BY <1>5, <2>2, <2>3, <2>4
<1> QED
    BY <1>2, <1>9, <1>10, <1>11, <1>12

-----------------------------------------------------------------------------
(* interleave_nameservers and default_order. *)

Slots(lists) == UNION {{i} \X DOMAIN lists[i] : i \in DOMAIN lists}
Turn(lists) == [slot \in Slots(lists) |-> slot[2] * Len(lists) + slot[1]]

\* A later round comes behind all of an earlier one.
LEMMA RoundsDiffer ==
    ASSUME NEW n \in Nat, NEW i \in 1..n, NEW j \in 1..n, NEW r \in Nat, NEW q \in Nat, r < q
    PROVE  r * n + i < q * n + j
<1>1. PICK d \in Nat : q = r + 1 + d
    <2>1. q - r - 1 \in Nat /\ q = r + 1 + (q - r - 1)
        OBVIOUS
    <2> QED
        BY <2>1
<1>2. q * n = r * n + n + d * n
    BY <1>1
<1>3. PICK a \in Nat : a = r * n
    OBVIOUS
<1>4. PICK b \in Nat : b = d * n
    OBVIOUS
<1>5. q * n = a + n + b
    BY <1>2, <1>3, <1>4
<1>6. a + i < a + n + b + j
    OBVIOUS
<1> QED
    BY <1>3, <1>5, <1>6

\* The slots of finitely many lists are finitely many, and no two have the same turn.
LEMMA SlotsAreKeyed ==
    ASSUME NEW T, NEW lists \in Seq(Seq(T))
    PROVE  /\ Keyed(Slots(lists), Turn(lists))
           /\ \A slot \in Slots(lists) :
                 /\ slot = <<slot[1], slot[2]>>
                 /\ slot[1] \in 1..Len(lists) /\ slot[2] \in 1..Len(lists[slot[1]])
                 /\ lists[slot[1]][slot[2]] \in T
           /\ \A i \in 1..Len(lists) : \A j \in 1..Len(lists[i]) : <<i, j>> \in Slots(lists)
<1>1. PICK n \in Nat : n = Len(lists) /\ DOMAIN lists = 1..n
    OBVIOUS
<1>2. ASSUME NEW i \in 1..n
      PROVE  /\ lists[i] \in Seq(T) /\ Len(lists[i]) \in Nat
             /\ DOMAIN lists[i] = 1..Len(lists[i])
             /\ \A j \in 1..Len(lists[i]) : lists[i][j] \in T
    <2>1. lists[i] \in Seq(T)
        BY <1>1
    <2> QED
        BY <2>1
<1>3. IsFiniteSet(Slots(lists))
    <2>1. PICK parts : parts = {{i} \X DOMAIN lists[i] : i \in DOMAIN lists}
        OBVIOUS
    <2>2. IsFiniteSet(1..n)
        BY FS_Interval
    <2>3. PICK f : f = [i \in 1..n |-> {i} \X DOMAIN lists[i]]
        OBVIOUS
    <2>4. f \in Surjection(1..n, parts)
        BY <1>1, <2>1, <2>3 DEF Surjection
    <2>5. IsFiniteSet(parts)
        BY <2>2, <2>4, FS_Surjection
    <2>6. ASSUME NEW part \in parts
          PROVE  IsFiniteSet(part)
        <3>1. PICK i \in 1..n : part = {i} \X DOMAIN lists[i]
            BY <1>1, <2>1
        <3>2. IsFiniteSet({i})
            BY FS_Singleton
        <3>3. PICK m \in Nat : m = Len(lists[i])
            BY <1>2
        <3>4. IsFiniteSet(1..m)
            BY FS_Interval
        <3>5. IsFiniteSet(DOMAIN lists[i])
            BY <1>2, <3>3, <3>4
        <3> QED
            BY <3>1, <3>2, <3>5, FS_Product
    <2>7. IsFiniteSet(UNION parts)
        BY <2>5, <2>6, FS_UNION
    <2> QED
        BY <2>1, <2>7 DEF Slots
<1>4. ASSUME NEW slot \in Slots(lists)
      PROVE  /\ slot = <<slot[1], slot[2]>>
             /\ slot[1] \in 1..n /\ slot[2] \in 1..Len(lists[slot[1]])
             /\ slot[1] \in Nat /\ slot[2] \in Nat
             /\ lists[slot[1]][slot[2]] \in T
    <2>1. PICK i \in DOMAIN lists : slot \in {i} \X DOMAIN lists[i]
        BY DEF Slots
    <2>2. slot = <<slot[1], slot[2]>> /\ slot[1] = i /\ slot[2] \in DOMAIN lists[i]
        BY <2>1
    <2> QED
        BY <1>1, <1>2, <2>2
<1>5. ASSUME NEW i \in 1..n, NEW j \in 1..Len(lists[i])
      PROVE  <<i, j>> \in Slots(lists)
    <2>1. i \in DOMAIN lists /\ <<i, j>> \in {i} \X DOMAIN lists[i]
        BY <1>1, <1>2
    <2> QED
        BY <2>1 DEF Slots
<1>6. PICK turn : turn = Turn(lists)
    OBVIOUS
<1>7. ASSUME NEW slot \in Slots(lists)
      PROVE  turn[slot] = slot[2] * n + slot[1] /\ turn[slot] \in Int
    <2>1. turn[slot] = slot[2] * n + slot[1]
        BY <1>1, <1>6 DEF Turn
    <2>2. slot[2] * n \in Int
        BY <1>4
    <2> QED
        BY <1>4, <2>1, <2>2
<1>8. turn \in [Slots(lists) -> Int]
    BY <1>6, <1>7 DEF Turn
<1>9. ASSUME NEW s \in Slots(lists), NEW t \in Slots(lists), turn[s] = turn[t]
      PROVE  s = t
    <2>1. PICK i \in 1..n, r \in Nat : s = <<i, r>> /\ s[1] = i /\ s[2] = r
        BY <1>4
    <2>2. PICK j \in 1..n, q \in Nat : t = <<j, q>> /\ t[1] = j /\ t[2] = q
        BY <1>4
    <2>3. r * n + i = q * n + j
        BY <1>7, <1>9, <2>1, <2>2
    <2>4. r * n \in Nat /\ q * n \in Nat
        OBVIOUS
    <2>5. ~(r < q)
        BY <2>3, <2>4, RoundsDiffer
    <2>6. ~(q < r)
        BY <2>3, <2>4, RoundsDiffer
    <2>7. r = q
        BY <2>5, <2>6
    <2>8. i = j
        <3>1. PICK a \in Nat : a = r * n
            BY <2>4
        <3>2. a + i = a + j
            BY <2>3, <2>7, <3>1
        <3> QED
            BY <3>2
    <2> QED
        BY <2>1, <2>2, <2>7, <2>8
<1> QED
    BY <1>1, <1>3, <1>4, <1>5, <1>6, <1>8, <1>9 DEF Keyed

\* The merge holds what its lists hold, no less and no more.
LEMMA InterleaveMerges ==
    ASSUME NEW T, NEW lists \in Seq(Seq(T))
    PROVE  /\ InterleaveNameservers(lists) \in Seq(T)
           /\ \A i \in 1..Len(lists) : Range(lists[i]) \subseteq Range(InterleaveNameservers(lists))
           /\ Len(InterleaveNameservers(lists)) = Cardinality(Slots(lists))
           /\ \A k \in 1..Cardinality(Slots(lists)) :
                 LET slot == InOrder(Slots(lists), Turn(lists))[k]
                 IN /\ slot \in Slots(lists)
                    /\ Cardinality(Before(Slots(lists), Turn(lists), slot)) = k - 1
                    /\ InterleaveNameservers(lists)[k] = lists[slot[1]][slot[2]]
<1>1. PICK merged : merged = InterleaveNameservers(lists)
    OBVIOUS
<1>2. PICK order : order = InOrder(Slots(lists), Turn(lists))
    OBVIOUS
<1>3. Keyed(Slots(lists), Turn(lists))
    BY SlotsAreKeyed
<1>4. PICK n \in Nat : n = Cardinality(Slots(lists))
    BY <1>3, InOrderLists
<1>5. /\ DOMAIN order = 1..n
      /\ \A k \in 1..n : /\ order[k] \in Slots(lists)
                         /\ Cardinality(Before(Slots(lists), Turn(lists), order[k])) = k - 1
      /\ \A slot \in Slots(lists) : \E k \in 1..n : order[k] = slot
    BY <1>2, <1>3, <1>4, InOrderLists
<1>6. merged = [k \in 1..n |-> lists[order[k][1]][order[k][2]]]
    BY <1>1, <1>2, <1>5 DEF InterleaveNameservers, Slots, Turn
<1>7. \A k \in 1..n : merged[k] \in T
    BY <1>5, <1>6, SlotsAreKeyed
<1>8. merged \in Seq(T) /\ Len(merged) = n
    BY <1>6, <1>7
<1>9. ASSUME NEW i \in 1..Len(lists), NEW x \in Range(lists[i])
      PROVE  x \in Range(merged)
    <2>1. lists[i] \in Seq(T)
        OBVIOUS
    <2>2. PICK j \in 1..Len(lists[i]) : x = lists[i][j]
        BY <2>1 DEF Range
    <2>3. PICK k \in 1..n : order[k] = <<i, j>>
        BY <1>5, SlotsAreKeyed
    <2>4. merged[k] = x
        BY <1>6, <2>2, <2>3
    <2> QED
        BY <1>6, <2>4 DEF Range
<1>10. \A k \in 1..n : merged[k] = lists[order[k][1]][order[k][2]]
    BY <1>6
<1> QED
    BY <1>1, <1>2, <1>4, <1>5, <1>8, <1>9, <1>10

\* The udp part of default_order.
Plain(providers) == [i \in DOMAIN providers |-> ProviderServers(providers[i], "udp")]

ServerOf(P) == [addr : P \X {"v4", "v6", "v4b", "v6b"}, protocol : {"udp", "https"}, name : {Unnamed}]

\* Each provider has four nameservers of every protocol.
LEMMA ProviderHasFour ==
    ASSUME NEW P, NEW p \in P, NEW protocol \in {"udp", "https"}
    PROVE  /\ ProviderServers(p, protocol) \in Seq(ServerOf(P))
           /\ Len(ProviderServers(p, protocol)) = 4
           /\ \A i \in 1..4 : /\ ProviderServers(p, protocol)[i].protocol = protocol
                              /\ ProviderServers(p, protocol)[i].addr[1] = p
<1>1. PICK s : s = ProviderServers(p, protocol)
    OBVIOUS
<1>2. PICK where : where = <<"v4", "v6", "v4b", "v6b">>
    OBVIOUS
<1>3. \A i \in 1..4 : where[i] \in {"v4", "v6", "v4b", "v6b"}
    BY <1>2
<1>4. s = [i \in 1..4 |-> [addr |-> <<p, where[i]>>, protocol |-> protocol, name |-> Unnamed]]
    BY <1>1, <1>2 DEF ProviderServers, Server
<1>5. ASSUME NEW i \in 1..4
      PROVE  s[i] \in ServerOf(P) /\ s[i].protocol = protocol /\ s[i].addr[1] = p
    <2>1. s[i] = [addr |-> <<p, where[i]>>, protocol |-> protocol, name |-> Unnamed]
        BY <1>4
    <2>2. <<p, where[i]>> \in P \X {"v4", "v6", "v4b", "v6b"}
        BY <1>3
    <2> QED
        BY <2>1, <2>2 DEF ServerOf
<1>6. s \in Seq(ServerOf(P)) /\ Len(s) = 4
    BY <1>4, <1>5
<1> QED
    BY <1>1, <1>5, <1>6

\* A set that holds two different things has two members at least.
LEMMA TwoMembers ==
    ASSUME NEW S, IsFiniteSet(S), NEW a \in S, NEW b \in S, a # b
    PROVE  2 <= Cardinality(S)
<1>1. PICK rest : rest = S \ {a}
    OBVIOUS
<1>2. IsFiniteSet(rest) /\ Cardinality(rest) = Cardinality(S) - 1
    BY <1>1, FS_RemoveElement
<1>3. Cardinality(rest) \in Nat /\ Cardinality(S) \in Nat
    BY <1>2, FS_CardinalityType
<1>4. Cardinality(rest) # 0
    BY <1>1, <1>2, FS_EmptySet
<1> QED
    BY <1>2, <1>3, <1>4

\* The merge of the providers' lists begins with the first server of each.
LEMMA MergeBegins ==
    ASSUME NEW P, NEW providers \in Seq(P)
    PROVE  LET udp == InterleaveNameservers(Plain(providers))
           IN /\ udp \in Seq(ServerOf(P))
              /\ \A k \in 1..Len(udp) : udp[k].protocol = "udp"
              /\ providers # <<>> => Len(udp) > 1 /\ udp[1].addr[1] = providers[1]
              /\ Len(providers) > 1 => udp[2].addr[1] = providers[2]
<1>1. PICK n \in Nat : n = Len(providers) /\ DOMAIN providers = 1..n
    OBVIOUS
<1>2. PICK lists : lists = Plain(providers)
    OBVIOUS
<1>3. \A i \in 1..n : /\ lists[i] \in Seq(ServerOf(P)) /\ Len(lists[i]) = 4
                      /\ \A j \in 1..4 : /\ lists[i][j].protocol = "udp"
                                         /\ lists[i][j].addr[1] = providers[i]
    <2>1. ASSUME NEW i \in 1..n
          PROVE  /\ lists[i] \in Seq(ServerOf(P)) /\ Len(lists[i]) = 4
                 /\ \A j \in 1..4 : /\ lists[i][j].protocol = "udp"
                                    /\ lists[i][j].addr[1] = providers[i]
        <3>1. PICK p \in P : p = providers[i]
            BY <1>1
        <3>2. lists[i] = ProviderServers(p, "udp")
            BY <1>1, <1>2, <3>1 DEF Plain
        <3>3. PICK udp \in {"udp", "https"} : udp = "udp"
            OBVIOUS
        <3>4. PICK s : s = ProviderServers(p, udp)
            OBVIOUS
        <3>5. /\ s \in Seq(ServerOf(P)) /\ Len(s) = 4
              /\ \A j \in 1..4 : s[j].protocol = udp /\ s[j].addr[1] = p
            BY <3>4, ProviderHasFour
        <3>6. s = lists[i]
            BY <3>2, <3>3, <3>4
        <3> QED
            BY <3>1, <3>3, <3>5, <3>6
    <2> QED
        BY <2>1
<1>4. lists \in Seq(Seq(ServerOf(P))) /\ Len(lists) = n
    BY <1>1, <1>2, <1>3 DEF Plain
<1>5. PICK udp : udp = InterleaveNameservers(lists)
    OBVIOUS
<1>6. PICK slots : slots = Slots(lists)
    OBVIOUS
<1>7. PICK turn : turn = Turn(lists)
    OBVIOUS
<1>8. PICK order : order = InOrder(slots, turn)
    OBVIOUS
<1>9. /\ Keyed(slots, turn)
      /\ \A slot \in slots : /\ slot = <<slot[1], slot[2]>>
                             /\ slot[1] \in 1..n /\ slot[2] \in 1..4
                             /\ turn[slot] = slot[2] * n + slot[1]
      /\ \A i \in 1..n, j \in 1..4 : <<i, j>> \in slots
    <2>1. Keyed(slots, turn)
        BY <1>4, <1>6, <1>7, SlotsAreKeyed
    <2>2. ASSUME NEW slot \in slots
          PROVE  /\ slot = <<slot[1], slot[2]>>
                 /\ slot[1] \in 1..n /\ slot[2] \in 1..4
                 /\ turn[slot] = slot[2] * n + slot[1]
        <3>1. /\ slot = <<slot[1], slot[2]>>
              /\ slot[1] \in 1..Len(lists) /\ slot[2] \in 1..Len(lists[slot[1]])
            BY <1>4, <1>6, SlotsAreKeyed
        <3>2. slot[1] \in 1..n /\ Len(lists[slot[1]]) = 4
            BY <1>3, <1>4, <3>1
        <3>3. turn[slot] = slot[2] * n + slot[1]
            BY <1>4, <1>6, <1>7 DEF Turn
        <3> QED
            BY <3>1, <3>2, <3>3
    <2>3. ASSUME NEW i \in 1..n, NEW j \in 1..4
          PROVE  <<i, j>> \in slots
        <3>1. i \in 1..Len(lists) /\ j \in 1..Len(lists[i])
            BY <1>3, <1>4
        <3> QED
            BY <1>4, <1>6, <3>1, SlotsAreKeyed
    <2> QED
        BY <2>1, <2>2, <2>3
<1>10. PICK m \in Nat : m = Cardinality(slots)
    BY <1>9, InOrderLists
<1>11. /\ udp \in Seq(ServerOf(P)) /\ Len(udp) = m
       /\ \A k \in 1..m : /\ order[k] \in slots
                          /\ Cardinality(Before(slots, turn, order[k])) = k - 1
                          /\ udp[k] = lists[order[k][1]][order[k][2]]
    BY <1>4, <1>5, <1>6, <1>7, <1>8, <1>10, InterleaveMerges
<1>12. \A k \in 1..m : udp[k].protocol = "udp"
    <2>1. ASSUME NEW k \in 1..m
          PROVE  udp[k].protocol = "udp"
        <3>1. PICK i \in 1..n, r \in 1..4 : order[k] = <<i, r>> /\ order[k][1] = i /\ order[k][2] = r
            BY <1>9, <1>11
        <3>2. udp[k] = lists[i][r]
            BY <1>11, <3>1
        <3> QED
            BY <1>3, <3>2
    <2> QED
        BY <2>1
<1>13. IsFiniteSet(slots)
    BY <1>9 DEF Keyed
<1>14. ASSUME providers # <<>>
       PROVE  m > 1 /\ udp[1].addr[1] = providers[1]
    <2>1. n > 0
        BY <1>1, <1>14
    <2>2. PICK a \in slots : a = <<1, 1>>
        <3>1. 1 \in 1..n /\ 1 \in 1..4
            BY <2>1
        <3>2. <<1, 1>> \in slots
            BY <1>9, <3>1, Zenon
        <3> QED
            BY <3>2
    <2>3. PICK b \in slots : b = <<1, 2>>
        <3>1. 1 \in 1..n /\ 2 \in 1..4
            BY <2>1
        <3>2. <<1, 2>> \in slots
            BY <1>9, <3>1, Zenon
        <3> QED
            BY <3>2
    <2>4. a # b
        BY <2>2, <2>3
    <2>5. 2 <= m
        BY <1>10, <1>13, <2>4, TwoMembers
    <2>6. m > 1
        BY <2>5
    <2>7. PICK s \in slots : s = order[1] /\ Cardinality(Before(slots, turn, s)) = 0
        BY <1>11, <2>6
    <2>8. IsFiniteSet(Before(slots, turn, s))
        BY <1>13, FS_Subset DEF Before
    <2>9. Before(slots, turn, s) = {}
        BY <2>7, <2>8, FS_EmptySet
    <2>10. ~(turn[a] < turn[s])
        BY <2>9 DEF Before
    <2>11. PICK i \in 1..n, r \in 1..4 : s = <<i, r>> /\ s[1] = i /\ s[2] = r
        BY <1>9
    <2>12. turn[a] = n + 1 /\ turn[s] = r * n + i
        BY <1>9, <2>2, <2>11
    <2>13. i = 1
        <3>1. CASE r = 1
            BY <2>10, <2>12, <3>1
        <3>2. CASE 1 < r
            <4>1. 1 \in 1..n /\ r \in Nat
                BY <2>1
            <4>2. 1 * n + 1 < r * n + i
                BY <3>2, <4>1, RoundsDiffer
            <4>3. r * n \in Nat
                BY <4>1
            <4> QED
                BY <2>10, <2>12, <4>2, <4>3
        <3> QED
            BY <3>1, <3>2
    <2>14. udp[1] = lists[i][r]
        <3>1. PICK k \in 1..m : k = 1
            BY <2>6
        <3>2. udp[k] = lists[order[k][1]][order[k][2]]
            BY <1>11
        <3> QED
            BY <2>7, <2>11, <3>1, <3>2
    <2> QED
        BY <1>3, <2>6, <2>13, <2>14
<1>15. ASSUME n > 1
       PROVE  udp[2].addr[1] = providers[2]
    <2>1. providers # <<>>
        BY <1>1, <1>15
    <2>2. m > 1
        BY <1>14, <2>1
    <2>3. PICK s \in slots : s = order[2] /\ Cardinality(Before(slots, turn, s)) = 1
        BY <1>11, <2>2
    <2>4. PICK i \in 1..n, r \in 1..4 : s = <<i, r>> /\ s[1] = i /\ s[2] = r
        BY <1>9
    <2>5. PICK a \in slots : a = <<1, 1>>
        <3>1. 1 \in 1..n /\ 1 \in 1..4
            BY <1>15
        <3>2. <<1, 1>> \in slots
            BY <1>9, <3>1, Zenon
        <3> QED
            BY <3>2
    <2>6. PICK b \in slots : b = <<2, 1>>
        <3>1. 2 \in 1..n /\ 1 \in 1..4
            BY <1>15
        <3>2. <<2, 1>> \in slots
            BY <1>9, <3>1, Zenon
        <3> QED
            BY <3>2
    <2>7. turn[a] = n + 1 /\ turn[b] = n + 2 /\ turn[s] = r * n + i
        BY <1>9, <2>4, <2>5, <2>6
    <2>8. IsFiniteSet(Before(slots, turn, s))
        BY <1>13, FS_Subset DEF Before
    <2>9. s # a
        <3>1. ASSUME s = a, NEW t \in slots
              PROVE  ~(turn[t] < turn[a])
            <4>1. PICK j \in 1..n, q \in 1..4 : t = <<j, q>> /\ t[1] = j /\ t[2] = q
                BY <1>9
            <4>2. turn[t] = q * n + j
                BY <1>9, <4>1
            <4>3. CASE q = 1
                BY <2>7, <4>2, <4>3
            <4>4. CASE 1 < q
                <5>1. 1 \in 1..n /\ q \in Nat
                    BY <1>15
                <5>2. 1 * n + 1 < q * n + j
                    BY <4>4, <5>1, RoundsDiffer
                <5>3. q * n \in Nat
                    BY <5>1
                <5> QED
                    BY <2>7, <4>2, <5>2, <5>3
            <4> QED
                BY <4>3, <4>4
        <3>2. ASSUME s = a
              PROVE  FALSE
            <4>1. Before(slots, turn, s) = {}
                BY <3>1, <3>2 DEF Before
            <4> QED
                BY <2>3, <4>1, FS_EmptySet
        <3> QED
            BY <3>2
    <2>10. s = b
        <3>1. ASSUME s # b
              PROVE  FALSE
            <4>1. turn[a] < turn[s] /\ turn[b] < turn[s]
                <5>1. CASE r = 1
                    <6>1. i # 1 /\ i # 2
                        BY <2>4, <2>5, <2>6, <2>9, <3>1, <5>1
                    <6> QED
                        BY <2>7, <5>1, <6>1
                <5>2. CASE 1 < r
                    <6>1. 2 \in 1..n /\ r \in Nat
                        BY <1>15
                    <6>2. 1 * n + 2 < r * n + i
                        BY <5>2, <6>1, RoundsDiffer
                    <6>3. r * n \in Nat
                        BY <6>1
                    <6> QED
                        BY <2>7, <6>2, <6>3
                <5> QED
                    BY <5>1, <5>2
            <4>2. a \in Before(slots, turn, s) /\ b \in Before(slots, turn, s)
                BY <4>1 DEF Before
            <4>3. a # b
                BY <2>5, <2>6
            <4>4. 2 <= Cardinality(Before(slots, turn, s))
                BY <2>8, <4>2, <4>3, TwoMembers
            <4> QED
                BY <2>3, <4>4
        <3> QED
            BY <3>1
    <2>11. udp[2] = lists[2][1]
        <3>1. PICK k \in 1..m : k = 2
            BY <2>2
        <3>2. udp[k] = lists[order[k][1]][order[k][2]]
            BY <1>11
        <3>3. s[1] = 2 /\ s[2] = 1
            BY <2>6, <2>10
        <3> QED
            BY <2>3, <3>1, <3>2, <3>3
    <2> QED
        BY <1>3, <1>15, <2>11
<1> QED
    BY <1>1, <1>2, <1>5, <1>11, <1>12, <1>14, <1>15

\* default_order is a list. The first two of plain DNS are of the first two providers,
\* and DNS over HTTPS comes third.
LEMMA DefaultOrderBegins ==
    ASSUME NEW providers, IsList(providers)
    PROVE  LET order == DefaultOrder(providers)
           IN /\ IsList(order)
              /\ providers # <<>> => /\ Len(order) > 2
                                     /\ order[1].protocol = "udp" /\ order[1].addr[1] = providers[1]
                                     /\ order[2].protocol = "udp"
                                     /\ order[3].protocol = "https"
              /\ Len(providers) > 1 => order[2].addr[1] = providers[2]
<1>1. PICK P : P = Range(providers)
    OBVIOUS
<1>2. providers \in Seq(P)
    BY <1>1 DEF IsList
<1>3. PICK n \in Nat : n = Len(providers) /\ DOMAIN providers = 1..n
    BY <1>2
<1>4. PICK udp : udp = InterleaveNameservers(Plain(providers))
    OBVIOUS
<1>5. /\ udp \in Seq(ServerOf(P))
      /\ \A k \in 1..Len(udp) : udp[k].protocol = "udp"
      /\ providers # <<>> => Len(udp) > 1 /\ udp[1].addr[1] = providers[1]
      /\ Len(providers) > 1 => udp[2].addr[1] = providers[2]
    BY <1>2, <1>4, MergeBegins
<1>6. PICK doh : doh = [i \in DOMAIN providers |-> ProviderServers(providers[i], "https")[1]]
    OBVIOUS
<1>7. ASSUME NEW i \in 1..n
      PROVE  doh[i] \in ServerOf(P) /\ doh[i].protocol = "https"
    <2>1. PICK p \in P : p = providers[i]
        BY <1>2, <1>3
    <2>2. PICK https \in {"udp", "https"} : https = "https"
        OBVIOUS
    <2>3. PICK s : s = ProviderServers(p, https)
        OBVIOUS
    <2>4. s \in Seq(ServerOf(P)) /\ Len(s) = 4 /\ \A j \in 1..4 : s[j].protocol = https
        BY <2>3, ProviderHasFour
    <2>5. PICK j \in 1..4 : j = 1
        OBVIOUS
    <2>6. s[j] \in ServerOf(P) /\ s[j].protocol = https
        <3>1. j \in 1..Len(s)
            BY <2>4
        <3>2. s[j] \in ServerOf(P)
            BY <2>4, <3>1, ElementOfSeq, Zenon
        <3>3. s[j].protocol = https
            BY <2>4
        <3> QED
            BY <3>2, <3>3
    <2>7. doh[i] = s[j]
        BY <1>3, <1>6, <2>1, <2>2, <2>3, <2>5
    <2> QED
        BY <2>2, <2>6, <2>7
<1>8. doh \in Seq(ServerOf(P)) /\ Len(doh) = n
    BY <1>3, <1>6, <1>7
<1>9. PICK at \in Nat : at = IF Len(udp) < 2 THEN Len(udp) ELSE 2
    BY <1>5
<1>10. PICK head : head = SubSeq(udp, 1, at)
    OBVIOUS
<1>11. PICK rest : rest = SubSeq(udp, at + 1, Len(udp))
    OBVIOUS
<1>12. PICK order : order = DefaultOrder(providers)
    OBVIOUS
<1>13. order = head \o doh \o rest
    BY <1>4, <1>6, <1>9, <1>10, <1>11, <1>12 DEF DefaultOrder, Plain
<1>14. Len(udp) \in Nat /\ at <= Len(udp)
    BY <1>5, <1>9
<1>15. /\ head \in Seq(ServerOf(P)) /\ Len(head) = at
       /\ \A k \in 1..at : head[k] = udp[k]
    BY <1>5, <1>10, <1>14
<1>16. rest \in Seq(ServerOf(P))
    <2>1. \A k \in (at + 1)..Len(udp) : udp[k] \in ServerOf(P)
        BY <1>5
    <2> QED
        BY <1>5, <1>11, <1>14, <2>1
<1>17. PICK front : front = head \o doh
    OBVIOUS
<1>18. /\ front \in Seq(ServerOf(P)) /\ Len(front) = at + n
       /\ \A k \in 1..at : front[k] = udp[k]
       /\ \A k \in 1..n : front[at + k] = doh[k]
    <2>1. /\ front \in Seq(ServerOf(P)) /\ Len(front) = Len(head) + Len(doh)
          /\ \A k \in 1..(Len(head) + Len(doh)) :
                front[k] = IF k <= Len(head) THEN head[k] ELSE doh[k - Len(head)]
        BY <1>8, <1>15, <1>17, ConcatProperties
    <2>2. \A k \in 1..(at + n) : front[k] = IF k <= at THEN head[k] ELSE doh[k - at]
        BY <1>8, <1>15, <2>1
    <2>3. ASSUME NEW k \in 1..at
          PROVE  front[k] = udp[k]
        BY <1>15, <2>2
    <2>4. ASSUME NEW k \in 1..n
          PROVE  front[at + k] = doh[k]
        <3>1. PICK j \in 1..(at + n) : j = at + k
            OBVIOUS
        <3>2. ~(j <= at) /\ j - at = k
            BY <3>1
        <3> QED
            BY <2>2, <3>1, <3>2
    <2> QED
        BY <1>8, <1>15, <2>1, <2>3, <2>4
<1>19. /\ order \in Seq(ServerOf(P)) /\ Len(order) \in Nat /\ at + n <= Len(order)
       /\ \A k \in 1..(at + n) : order[k] = front[k]
    BY <1>13, <1>16, <1>17, <1>18
<1>20. IsList(order)
    BY <1>19 DEF IsList, Range
<1>21. ASSUME providers # <<>>
       PROVE  /\ Len(order) > 2
              /\ order[1] = udp[1] /\ order[2] = udp[2]
              /\ udp[1].protocol = "udp" /\ udp[2].protocol = "udp"
              /\ order[3].protocol = "https"
    <2>1. n > 0 /\ at = 2 /\ Len(udp) > 1
        BY <1>2, <1>3, <1>5, <1>9, <1>21
    <2>2. Len(order) > 2
        BY <1>19, <2>1
    <2>3. ASSUME NEW k \in 1..2
          PROVE  order[k] = udp[k] /\ udp[k].protocol = "udp"
        BY <1>5, <1>14, <1>18, <1>19, <2>1
    <2>4. PICK k \in 1..n : k = 1
        BY <2>1
    <2>5. at + k = 3 /\ at + k \in 1..(at + n)
        BY <2>1, <2>4
    <2>6. order[at + k] = doh[k]
        BY <1>18, <1>19, <2>5
    <2>7. order[3].protocol = "https"
        BY <1>7, <2>5, <2>6
    <2> QED
        BY <2>2, <2>3, <2>7
<1>22. Len(providers) > 1 => providers # <<>>
    BY <1>2
<1> QED
    BY <1>5, <1>12, <1>20, <1>21, <1>22

-----------------------------------------------------------------------------
(* ResolverState::build. *)

\* The two parts of a list that was put together are found where they were put.
LEMMA PartsOfConcat ==
    ASSUME NEW T, NEW s \in Seq(T), NEW t \in Seq(T)
    PROVE  /\ s \o t \in Seq(T)
           /\ Len(s) \in Nat /\ Len(t) \in Nat /\ Len(s \o t) = Len(s) + Len(t)
           /\ SubSeq(s \o t, 1, Len(s)) = s
           /\ SubSeq(s \o t, Len(s) + 1, Len(s) + Len(t)) = t
           /\ SubSeq(s \o t, Len(s) + Len(t) + 1, Len(s) + Len(t)) = <<>>
           /\ Range(s \o t) = Range(s) \cup Range(t)
<1>1. PICK m \in Nat : m = Len(s)
    OBVIOUS
<1>2. PICK n \in Nat : n = Len(t)
    OBVIOUS
<1>3. s \o t \in Seq(T) /\ Len(s \o t) = m + n
    BY <1>1, <1>2, ConcatProperties
<1>4. PICK u \in Seq(T) : u = s \o t
    BY <1>3
<1>5. SubSeq(u, 1, m) = s
    <2>1. SubSeq(s \o t, 1, m) = SubSeq(s, 1, m)
        BY <1>1, SubSeqOfConcat1
    <2> QED
        BY <1>1, <1>4, <2>1, SubSeqFull
<1>6. SubSeq(u, m + 1, m + n) = t
    <2>1. (m + 1) - m = 1 /\ (m + n) - m = n
        OBVIOUS
    <2>2. SubSeq(s \o t, m + 1, m + n) = SubSeq(t, (m + 1) - m, (m + n) - m)
        BY <1>1, <1>2, SubSeqOfConcat2
    <2>3. SubSeq(t, 1, n) = t
        BY <1>2, SubSeqFull
    <2> QED
        BY <1>4, <2>1, <2>2, <2>3
<1>7. SubSeq(u, m + n + 1, m + n) = <<>>
    BY <1>4, SubSeqEmpty
<1>8. Range(u) = Range(s) \cup Range(t)
    BY <1>4, RangeConcatenation
<1> QED
    BY <1>1, <1>2, <1>3, <1>4, <1>5, <1>6, <1>7, <1>8

First(tiers) == SubSeq(tiers.servers, 1, tiers.primaryCount)
Rest(tiers) == SubSeq(tiers.servers, tiers.primaryCount + 1, Len(tiers.servers))

\* What each mode makes of the nameservers of the three sources.
LEMMA TiersOfModes ==
    ASSUME NEW T, NEW system \in Seq(T), NEW explicit \in Seq(T), NEW fallback \in Seq(T),
           NEW mode \in FallbackMode
    PROVE  LET tiers == Assembled(system, explicit, fallback, mode)
               own == Range(system) \cup Range(explicit)
           IN /\ tiers.servers \in Seq(T)
              /\ tiers.primaryCount \in 0..Len(tiers.servers)
              /\ mode = "deferred" => Range(First(tiers)) = own /\ Rest(tiers) = fallback
              /\ mode # "deferred" =>
                    /\ Rest(tiers) = <<>>
                    /\ Range(First(tiers)) = IF mode = "if_system_empty" /\ system # <<>>
                                             THEN own ELSE own \cup Range(fallback)
<1>1. PICK tiers : tiers = Assembled(system, explicit, fallback, mode)
    OBVIOUS
<1>2. PICK primary \in Seq(T) : primary = system \o explicit
    BY PartsOfConcat
<1>3. Range(primary) = Range(system) \cup Range(explicit)
    BY <1>2, PartsOfConcat
<1>4. PICK added \in Seq(T) :
          added = IF mode = "if_system_empty" /\ system # <<>> THEN <<>> ELSE fallback
    <2>1. <<>> \in Seq(T)
        OBVIOUS
    <2>2. (IF mode = "if_system_empty" /\ system # <<>> THEN <<>> ELSE fallback) \in Seq(T)
        BY <2>1
    <2> QED
        BY <2>2
<1>5. PICK servers \in Seq(T) : servers = primary \o added
    BY PartsOfConcat
<1>6. /\ Len(primary) \in Nat /\ Len(added) \in Nat /\ Len(servers) \in Nat
      /\ Len(servers) = Len(primary) + Len(added)
      /\ SubSeq(servers, 1, Len(primary)) = primary
      /\ SubSeq(servers, Len(primary) + 1, Len(servers)) = added
      /\ SubSeq(servers, 1, Len(servers)) = servers
      /\ SubSeq(servers, Len(servers) + 1, Len(servers)) = <<>>
      /\ Range(servers) = Range(primary) \cup Range(added)
    <2>1. /\ Len(primary) \in Nat /\ Len(added) \in Nat
          /\ Len(primary \o added) = Len(primary) + Len(added)
        BY PartsOfConcat
    <2>2. SubSeq(primary \o added, 1, Len(primary)) = primary
        BY PartsOfConcat
    <2>3. SubSeq(primary \o added, Len(primary) + 1, Len(primary) + Len(added)) = added
        BY PartsOfConcat
    <2>4. SubSeq(servers, 1, Len(servers)) = servers
        BY SubSeqFull
    <2>5. SubSeq(primary \o added, Len(primary) + Len(added) + 1, Len(primary) + Len(added))
              = <<>>
        BY PartsOfConcat
    <2>6. Range(primary \o added) = Range(primary) \cup Range(added)
        BY PartsOfConcat
    <2> QED
        BY <1>5, <2>1, <2>2, <2>3, <2>4, <2>5, <2>6
<1>7. PICK count \in Nat :
          count = Len(primary) + IF mode = "deferred" THEN 0 ELSE Len(added)
    <2>1. PICK m \in Nat, n \in Nat : m = Len(primary) /\ n = Len(added)
        BY <1>6
    <2>2. m + (IF mode = "deferred" THEN 0 ELSE n) \in Nat
        OBVIOUS
    <2> QED
        BY <2>1, <2>2
<1>8. tiers = [servers |-> servers, primaryCount |-> count]
    BY <1>1, <1>2, <1>4, <1>5, <1>7 DEF Assembled
<1>9. tiers.servers = servers /\ tiers.primaryCount = count
    BY <1>8
<1>10. count \in 0..Len(servers)
    <2>1. PICK m \in Nat, n \in Nat : m = Len(primary) /\ n = Len(added) /\ Len(servers) = m + n
        BY <1>6
    <2>2. count = m \/ count = m + n
        BY <1>7, <2>1
    <2> QED
        BY <2>1, <2>2
<1>11. ASSUME mode = "deferred"
       PROVE  Range(First(tiers)) = Range(primary) /\ Rest(tiers) = fallback
    <2>1. count = Len(primary) /\ added = fallback
        BY <1>4, <1>6, <1>7, <1>11
    <2> QED
        BY <1>6, <1>9, <2>1 DEF First, Rest
<1>12. ASSUME mode # "deferred"
       PROVE  /\ Rest(tiers) = <<>>
              /\ Range(First(tiers)) = Range(primary) \cup Range(added)
    <2>1. count = Len(servers)
        BY <1>6, <1>7, <1>12
    <2> QED
        BY <1>6, <1>9, <2>1 DEF First, Rest
<1>13. Range(added) = IF mode = "if_system_empty" /\ system # <<>> THEN {} ELSE Range(fallback)
    BY <1>4 DEF Range
<1> QED
    BY <1>1, <1>3, <1>9, <1>10, <1>11, <1>12, <1>13

-----------------------------------------------------------------------------
(* Search list and hosts file. *)

\* A set of naturals that is not empty has a least member.
LEMMA LeastMember ==
    ASSUME NEW S \in SUBSET Nat, S # {}
    PROVE  \E m \in S : \A j \in S : m <= j
<1>1. PICK rel : rel = OpToRel(<, Nat)
    OBVIOUS
<1>2. IsWellFoundedOn(rel, Nat)
    BY <1>1, NatLessThanWellFounded
<1>3. ASSUME NEW i \in Nat, NEW j \in Nat, i < j
      PROVE  <<i, j>> \in rel
    BY <1>1, <1>3 DEF OpToRel
<1>4. PICK m \in S : \A j \in S : ~(<<j, m>> \in rel)
    BY <1>2, WFMin
<1>5. ASSUME NEW j \in S
      PROVE  m <= j
    <2>1. m \in Nat /\ j \in Nat
        OBVIOUS
    <2>2. ~(j < m)
        BY <1>3, <1>4, <2>1
    <2> QED
        BY <2>1, <2>2
<1> QED
    BY <1>5

\* One that is bounded has a greatest member.
LEMMA GreatestMember ==
    ASSUME NEW n \in Nat, NEW S \in SUBSET (1..n), S # {}
    PROVE  \E m \in S : \A j \in S : j <= m
<1>1. PICK R \in SUBSET Nat : R = {n - i : i \in S}
    <2>1. \A i \in S : n - i \in Nat
        OBVIOUS
    <2> QED
        BY <2>1
<1>2. PICK r \in R : \A j \in R : r <= j
    <2>1. R # {}
        BY <1>1
    <2> QED
        BY <2>1, LeastMember
<1>3. PICK m \in S : r = n - m
    BY <1>1, <1>2
<1>4. ASSUME NEW j \in S
      PROVE  j <= m
    <2>1. n - j \in R
        BY <1>1
    <2>2. n - m <= n - j
        BY <1>2, <1>3, <2>1
    <2> QED
        BY <2>2
<1> QED
    BY <1>4

\* The search list makes of a host the names it stands for, and no other.
LEMMA CandidatesAreNames ==
    ASSUME NEW config, IsList(config.search), NEW h \in Host
    PROVE  /\ IsList(Candidates(config, h))
           /\ Names(config, h) = {<<Bare[name[1]], name[2]>> : name \in Range(Candidates(config, h))}
<1>1. PICK search : search = config.search
    OBVIOUS
<1>2. search \in Seq(Range(search))
    BY <1>1 DEF IsList
<1>3. PICK n \in Nat : n = Len(search) /\ DOMAIN search = 1..n
    BY <1>2
<1>4. PICK fresh \in SUBSET (1..n) :
          fresh = {i \in DOMAIN search : /\ <<h, search[i]>> \notin Unusable
                                         /\ \A j \in 1..(i - 1) : search[j] # search[i]}
    BY <1>3
<1>5. PICK key : key = [i \in fresh |-> i]
    OBVIOUS
<1>6. Keyed(fresh, key)
    <2>1. IsFiniteSet(1..n)
        BY FS_Interval
    <2>2. IsFiniteSet(fresh)
        BY <2>1, FS_Subset
    <2> QED
        BY <1>5, <2>2 DEF Keyed
<1>7. PICK order : order = InOrder(fresh, key)
    OBVIOUS
<1>8. PICK m \in Nat : m = Cardinality(fresh)
    BY <1>6, InOrderLists
<1>9. /\ DOMAIN order = 1..m
      /\ \A k \in 1..m : order[k] \in fresh
      /\ \A i \in fresh : \E k \in 1..m : order[k] = i
    BY <1>6, <1>7, <1>8, InOrderLists
<1>10. PICK expanded : expanded = [k \in DOMAIN order |-> <<h, search[order[k]]>>]
    OBVIOUS
<1>11. PICK valid : valid = {<<h, d>> : d \in Range(search)} \ Unusable
    OBVIOUS
<1>12. ASSUME NEW i \in fresh
       PROVE  <<h, search[i]>> \in valid
    BY <1>3, <1>4, <1>11 DEF Range
<1>13. expanded \in Seq(valid) /\ DOMAIN expanded = 1..m
    <2>1. \A k \in 1..m : expanded[k] \in valid
        BY <1>9, <1>10, <1>12
    <2>2. DOMAIN expanded = 1..m /\ expanded = [k \in 1..m |-> expanded[k]]
        BY <1>9, <1>10
    <2> QED
        BY <2>1, <2>2
<1>14. Range(expanded) = valid
    <2>1. Range(expanded) \subseteq valid
        BY <1>9, <1>10, <1>12 DEF Range
    <2>2. ASSUME NEW x \in valid
          PROVE  x \in Range(expanded)
        <3>1. PICK d \in Range(search) : x = <<h, d>> /\ <<h, d>> \notin Unusable
            BY <1>11
        <3>2. PICK same \in SUBSET Nat : same = {i \in 1..n : search[i] = d}
            <4>1. {i \in 1..n : search[i] = d} \subseteq Nat
                OBVIOUS
            <4> QED
                BY <4>1
        <3>3. same # {}
            BY <1>3, <3>1, <3>2 DEF Range
        <3>4. PICK i \in same : \A j \in same : i <= j
            BY <3>3, LeastMember
        <3>5. i \in 1..n /\ search[i] = d
            BY <3>2
        <3>6. \A j \in 1..(i - 1) : search[j] # d
            <4>1. ASSUME NEW j \in 1..(i - 1), search[j] = d
                  PROVE  FALSE
                <5>1. j \in same /\ ~(i <= j)
                    BY <3>2, <3>5, <4>1
                <5> QED
                    BY <3>4, <5>1
            <4> QED
                BY <4>1
        <3>7. i \in fresh
            BY <1>3, <1>4, <3>1, <3>5, <3>6
        <3>8. PICK k \in 1..m : order[k] = i
            BY <1>9, <3>7
        <3>9. expanded[k] = x
            BY <1>9, <1>10, <3>1, <3>5, <3>8
        <3> QED
            BY <1>13, <3>9 DEF Range
    <2> QED
        BY <2>1, <2>2
<1>15. PICK bare : bare = << <<h, "">> >>
    OBVIOUS
<1>16. bare \in Seq({<<h, "">>}) /\ Range(bare) = {<<h, "">>}
    <2>1. PICK x : x = <<h, "">>
        OBVIOUS
    <2>2. bare = <<x>>
        BY <1>15, <2>1
    <2>3. bare \in Seq({x}) /\ DOMAIN bare = 1..1 /\ bare[1] = x
        BY <2>2
    <2>4. Range(bare) = {x}
        BY <2>3 DEF Range
    <2> QED
        BY <2>1, <2>3, <2>4
<1>17. PICK names : names = Candidates(config, h)
    OBVIOUS
<1>18. /\ h \in Dotted \/ search = <<>> => names = bare
       /\ ~(h \in Dotted \/ search = <<>>) => names = bare \o expanded \/ names = expanded \o bare
    BY <1>1, <1>4, <1>5, <1>7, <1>10, <1>15, <1>17 DEF Candidates
<1>19. PICK all : all = valid \cup {<<h, "">>}
    OBVIOUS
<1>20. bare \in Seq(all) /\ expanded \in Seq(all)
    <2>1. valid \subseteq all /\ {<<h, "">>} \subseteq all
        BY <1>19
    <2>2. PICK one : one = {<<h, "">>}
        OBVIOUS
    <2>3. bare \in Seq(one) /\ one \subseteq all
        BY <1>16, <2>1, <2>2
    <2>4. bare \in Seq(all)
        BY <2>3
    <2>5. expanded \in Seq(all)
        <3>1. expanded \in Seq(valid)
            BY <1>13
        <3>2. valid \subseteq all
            BY <2>1
        <3> QED
            BY <3>1, <3>2
    <2> QED
        BY <2>4, <2>5
<1>21. /\ bare \o expanded \in Seq(all) /\ Range(bare \o expanded) = all
       /\ expanded \o bare \in Seq(all) /\ Range(expanded \o bare) = all
    <2>1. bare \o expanded \in Seq(all) /\ expanded \o bare \in Seq(all)
        BY <1>20, ConcatProperties
    <2>2. Range(bare \o expanded) = Range(bare) \cup Range(expanded)
        BY <1>20, RangeConcatenation
    <2>3. Range(expanded \o bare) = Range(expanded) \cup Range(bare)
        BY <1>20, RangeConcatenation
    <2> QED
        BY <1>14, <1>16, <1>19, <2>1, <2>2, <2>3
<1>22. IsList(names)
    <2>1. names \in Seq(all)
        BY <1>18, <1>20, <1>21
    <2> QED
        BY <2>1, SeqOfRange DEF IsList
<1>23. Range(names) = IF h \in Dotted \/ search = <<>> THEN {<<h, "">>} ELSE all
    BY <1>16, <1>18, <1>21
<1>24. Bare[h] = h <=> h \notin Dotted
    BY ConfigurationAssumption
<1>25. Names(config, h) = {<<Bare[name[1]], name[2]>> : name \in Range(names)}
    <2>1. CASE h \in Dotted
        <3>1. Names(config, h) = {<<Bare[h], "">>}
            BY <2>1 DEF Names
        <3>2. PICK x : x = <<h, "">> /\ x[1] = h /\ x[2] = ""
            <4>1. <<h, "">>[1] = h /\ <<h, "">>[2] = ""
                OBVIOUS
            <4> QED
                BY <4>1
        <3>3. Range(names) = {x}
            BY <1>23, <2>1, <3>2
        <3>4. {<<Bare[name[1]], name[2]>> : name \in {x}} = {<<Bare[x[1]], x[2]>>}
            OBVIOUS
        <3> QED
            BY <3>1, <3>2, <3>3, <3>4
    <2>2. CASE h \notin Dotted
        <3>1. Names(config, h) = all
            BY <1>1, <1>11, <1>19, <1>24, <2>2 DEF Names
        <3>2. ASSUME NEW name \in all
              PROVE  <<Bare[name[1]], name[2]>> = name
            <4>1. PICK d : name = <<h, d>>
                BY <1>11, <1>19
            <4>2. name[1] = h /\ name[2] = d
                BY <4>1
            <4> QED
                BY <1>24, <2>2, <4>1, <4>2
        <3>3. search = <<>> => valid = {}
            BY <1>11 DEF Range
        <3>4. Range(names) = all
            BY <1>19, <1>23, <2>2, <3>3
        <3> QED
            BY <3>1, <3>2, <3>4
    <2> QED
        BY <2>1, <2>2
<1> QED
    BY <1>17, <1>22, <1>25

\* What the first candidate with an address gets is one of its host's mappings, and
\* without one there is none.
LEMMA OverrideIsMapped ==
    ASSUME NEW config, IsList(config.search), NEW h \in Host, NEW family
    PROVE  LET mappings == {e \in config.hosts : /\ e.family = family
                                                 /\ e.name \in Names(config, h)}
           IN /\ Override(config, h, family) \subseteq {e.addr : e \in mappings}
              /\ Override(config, h, family) = {} => mappings = {}
<1>1. PICK names : names = Candidates(config, h)
    OBVIOUS
<1>2. names \in Seq(Range(names))
    BY <1>1, CandidatesAreNames DEF IsList
<1>3. Names(config, h) = {<<Bare[name[1]], name[2]>> : name \in Range(names)}
    BY <1>1, CandidatesAreNames
<1>4. PICK n \in Nat : n = Len(names) /\ DOMAIN names = 1..n
    BY <1>2
<1>5. PICK mappings : mappings = {e \in config.hosts : /\ e.family = family
                                                       /\ e.name \in Names(config, h)}
    OBVIOUS
<1>6. PICK mapped \in SUBSET Nat :
          mapped = {i \in DOMAIN names : Mapped(config, names[i], family) # {}}
    <2>1. {i \in DOMAIN names : Mapped(config, names[i], family) # {}} \subseteq Nat
        BY <1>4
    <2> QED
        BY <2>1
<1>7. ASSUME NEW i \in 1..n
      PROVE  Mapped(config, names[i], family) \subseteq {e.addr : e \in mappings}
    <2>1. <<Bare[names[i][1]], names[i][2]>> \in Names(config, h)
        BY <1>3, <1>4 DEF Range
    <2> QED
        BY <1>5, <2>1 DEF Mapped
<1>8. ASSUME NEW e \in mappings
      PROVE  \E i \in mapped : TRUE
    <2>1. e \in config.hosts /\ e.family = family
        BY <1>5
    <2>2. PICK name \in Range(names) : e.name = <<Bare[name[1]], name[2]>>
        BY <1>3, <1>5
    <2>3. PICK i \in 1..n : name = names[i]
        BY <1>4 DEF Range
    <2>4. e.addr \in Mapped(config, names[i], family)
        BY <2>1, <2>2, <2>3 DEF Mapped
    <2> QED
        BY <1>4, <1>6, <2>4
<1>9. PICK found : found = Override(config, h, family)
    OBVIOUS
<1>10. CASE mapped = {}
    <2>1. found = {}
        BY <1>1, <1>6, <1>9, <1>10 DEF Override
    <2>2. mappings = {}
        BY <1>8, <1>10
    <2> QED
        BY <1>5, <1>9, <2>1, <2>2
<1>11. CASE mapped # {}
    <2>1. PICK i \in mapped : i = CHOOSE k \in mapped : \A j \in mapped : k <= j
        BY <1>11, LeastMember
    <2>2. found = Mapped(config, names[i], family)
        BY <1>1, <1>6, <1>9, <1>11, <2>1 DEF Override
    <2>3. i \in 1..n /\ Mapped(config, names[i], family) # {}
        BY <1>4, <1>6
    <2> QED
        BY <1>5, <1>7, <1>9, <2>2, <2>3
<1> QED
    BY <1>10, <1>11

-----------------------------------------------------------------------------
(* The pins of the client for DNS over HTTPS. *)

\* A name that no other address shares is pinned to the address it is of.
LEMMA UnsharedIsPinned ==
    ASSUME NEW servers, IsList(servers), NEW s \in Range(servers),
           s.protocol = "https", s.name # Unnamed,
           \A t \in Range(servers) : t.protocol = "https" /\ t.name = s.name => t.addr = s.addr
    PROVE  s.name \in DOMAIN Pins(servers) /\ Pins(servers)[s.name] = s.addr
<1>1. servers \in Seq(Range(servers))
    BY DEF IsList
<1>2. PICK n \in Nat : n = Len(servers) /\ DOMAIN servers = 1..n
    BY <1>1
<1>3. PICK named \in SUBSET (1..n) :
          named = {i \in DOMAIN servers : servers[i].protocol = "https" /\ servers[i].name # Unnamed}
    BY <1>2
<1>4. PICK pins : pins = Pins(servers)
    OBVIOUS
<1>5. pins = [m \in {servers[i].name : i \in named} |->
                 servers[CHOOSE i \in named : /\ servers[i].name = m
                                              /\ \A j \in named : servers[j].name = m => j <= i].addr]
    BY <1>3, <1>4 DEF Pins
<1>6. PICK k \in 1..n : s = servers[k]
    BY <1>2 DEF Range
<1>7. k \in named
    BY <1>2, <1>3, <1>6
<1>8. s.name \in DOMAIN pins
    BY <1>5, <1>6, <1>7
<1>9. PICK same \in SUBSET (1..n) : same = {i \in named : servers[i].name = s.name}
    OBVIOUS
<1>10. PICK last \in same : \A j \in same : j <= last
    <2>1. k \in same
        BY <1>6, <1>7, <1>9
    <2> QED
        BY <2>1, GreatestMember
<1>11. \E i \in named : /\ servers[i].name = s.name
                        /\ \A j \in named : servers[j].name = s.name => j <= i
    BY <1>9, <1>10
<1>12. PICK i \in named : i = CHOOSE m \in named : /\ servers[m].name = s.name
                                                   /\ \A j \in named : servers[j].name = s.name => j <= m
    BY <1>11
<1>13. servers[i].name = s.name
    BY <1>11, <1>12
<1>14. servers[i] \in Range(servers) /\ servers[i].protocol = "https"
    BY <1>2, <1>3 DEF Range
<1>15. pins[s.name] = servers[i].addr
    BY <1>5, <1>8, <1>12
<1> QED
    BY <1>4, <1>8, <1>13, <1>14, <1>15

-----------------------------------------------------------------------------
(* The invariant. *)

StateOn(config) ==
    LET tiers == Assembled(config.servers, builder.explicit, builder.fallback, builder.mode)
    IN [built |-> TRUE, config |-> config,
        servers |-> tiers.servers, primaryCount |-> tiers.primaryCount]

\* The fallback is default_order's as long as nothing else was added to it.
BuilderOK ==
    /\ builder \in [system : BOOLEAN, explicit : Seq(ServerSet), fallback : Seq(ServerSet),
                    mode : FallbackMode, calls : 0..MaxCalls]
    /\ chosen # <<>> => chosen \in Providers /\ builder.fallback = DefaultOrder(chosen)

\* What a resolver may have read.
Readable(r) == IF builder.system THEN since[r] ELSE {NoConfig}

\* A resolver's state is what the builder as it stands makes of a configuration it may
\* have read, and its client's pins are those of its state.
ResolverOK(r) ==
    LET state == resolver[r].state
        client == resolver[r].client
    IN /\ resolver[r] = [state |-> state, client |-> client]
       /\ state = Unbuilt \/ \E config \in Readable(r) : state = StateOn(config)
       /\ \/ client = NoClient
          \/ state # Unbuilt /\ client = [made |-> TRUE, pins |-> Pins(state.servers)]

\* Each resolver's history is of networks there were, the present one among them.
HistoryOK == /\ network \in Network
             /\ IsList(since) /\ Len(since) = Len(resolver)
             /\ \A r \in DOMAIN since : since[r] \subseteq Network /\ network \in since[r]

EventOK == /\ event.kind \in {"none", "address", "dial"}
           /\ resolver = <<>> => event = NoEvent
           /\ OverridesPrecedeDns
           /\ UnsharedNamesDialRight

Inv == /\ BuilderOK
       /\ HistoryOK
       /\ IsList(resolver) /\ Len(resolver) <= MaxResolvers
       /\ \A r \in DOMAIN resolver : ResolverOK(r)
       /\ EventOK

\* What ConfigurationAssumption says of the lists.
LEMMA Lists ==
    /\ \A list \in Explicit : list \in Seq(ServerSet)
    /\ \A lists \in Interleaved : InterleaveNameservers(lists) \in Seq(ServerSet)
    /\ \A providers \in Providers : DefaultOrder(providers) \in Seq(ServerSet)
    /\ \A config \in Network \cup {NoConfig} :
          config.servers \in Seq(ServerSet) /\ IsList(config.search)
<1>1. ASSUME NEW list \in Explicit
      PROVE  list \in Seq(ServerSet)
    <2>1. list \in Seq(Range(list))
        BY ConfigurationAssumption DEF IsList
    <2>2. Range(list) \subseteq ServerSet
        BY DEF ServerSet
    <2> QED
        BY <2>1, <2>2
<1>2. ASSUME NEW lists \in Interleaved
      PROVE  InterleaveNameservers(lists) \in Seq(ServerSet)
    <2>1. lists \in Seq(Range(lists))
        BY ConfigurationAssumption DEF IsList
    <2>2. ASSUME NEW list \in Range(lists)
          PROVE  list \in Seq(ServerSet)
        <3>1. list \in Seq(Range(list))
            BY ConfigurationAssumption DEF IsList
        <3>2. Range(list) \subseteq ServerSet
            BY DEF ServerSet
        <3> QED
            BY <3>1, <3>2
    <2>3. lists \in Seq(Seq(ServerSet))
        BY <2>1, <2>2
    <2> QED
        BY <2>3, InterleaveMerges
<1>3. ASSUME NEW providers \in Providers
      PROVE  DefaultOrder(providers) \in Seq(ServerSet)
    <2>1. IsList(providers)
        BY ConfigurationAssumption
    <2>2. DefaultOrder(providers) \in Seq(Range(DefaultOrder(providers)))
        BY <2>1, DefaultOrderBegins DEF IsList
    <2>3. Range(DefaultOrder(providers)) \subseteq ServerSet
        <3>1. ASSUME NEW x \in Range(DefaultOrder(providers))
              PROVE  x \in UNION {Range(DefaultOrder(p)) : p \in Providers}
            BY <3>1, Zenon
        <3> QED
            BY <3>1, Zenon DEF ServerSet
    <2> QED
        BY <2>2, <2>3
<1>4. ASSUME NEW config \in Network
      PROVE  config.servers \in Seq(ServerSet) /\ IsList(config.search)
    <2>1. config.servers \in Seq(Range(config.servers)) /\ IsList(config.search)
        BY ConfigurationAssumption DEF IsList
    <2>2. Range(config.servers) \subseteq ServerSet
        <3>1. ASSUME NEW x \in Range(config.servers)
              PROVE  x \in UNION {Range(net.servers) : net \in Network}
            BY <3>1, Zenon
        <3> QED
            BY <3>1, Zenon DEF ServerSet
    <2> QED
        BY <2>1, <2>2
<1>5. NoConfig.servers \in Seq(ServerSet) /\ IsList(NoConfig.search)
    <2>1. NoConfig.servers = <<>> /\ NoConfig.search = <<>>
        BY ConfigurationAssumption
    <2>2. IsList(<<>>)
        BY DEF IsList
    <2>3. <<>> \in Seq(ServerSet)
        OBVIOUS
    <2> QED
        BY <2>1, <2>2, <2>3
<1> QED
    BY <1>1, <1>2, <1>3, <1>4, <1>5

\* A list that grew by one.
LEMMA ListAppended ==
    ASSUME NEW s, IsList(s), NEW e
    PROVE  /\ IsList(Append(s, e))
           /\ Len(s) \in Nat /\ DOMAIN s = 1..Len(s)
           /\ Len(Append(s, e)) = Len(s) + 1
           /\ DOMAIN Append(s, e) = 1..(Len(s) + 1)
           /\ \A i \in DOMAIN s : Append(s, e)[i] = s[i]
           /\ Append(s, e)[Len(s) + 1] = e
<1>1. PICK T : T = Range(s) \cup {e}
    OBVIOUS
<1>2. s \in Seq(T) /\ e \in T
    BY <1>1 DEF IsList
<1>3. Append(s, e) \in Seq(T)
    BY <1>2
<1>4. IsList(Append(s, e))
    BY <1>3, SeqOfRange DEF IsList
<1> QED
    BY <1>2, <1>3, <1>4

\* A list that was changed at one place.
LEMMA ListReplaced ==
    ASSUME NEW s, IsList(s), NEW i \in DOMAIN s, NEW e
    PROVE  LET t == [s EXCEPT ![i] = e]
           IN /\ IsList(t)
              /\ Len(t) = Len(s) /\ DOMAIN t = DOMAIN s
              /\ t[i] = e
              /\ \A j \in DOMAIN s : j # i => t[j] = s[j]
<1>1. PICK T : T = Range(s) \cup {e}
    OBVIOUS
<1>2. s \in Seq(T) /\ e \in T
    BY <1>1 DEF IsList
<1>3. PICK t : t = [s EXCEPT ![i] = e]
    OBVIOUS
<1>4. t \in Seq(T) /\ Len(t) = Len(s) /\ DOMAIN t = DOMAIN s
    BY <1>2, <1>3
<1>5. IsList(t)
    BY <1>4, SeqOfRange DEF IsList
<1>6. t[i] = e /\ \A j \in DOMAIN s : j # i => t[j] = s[j]
    BY <1>2, <1>3
<1> QED
    BY <1>3, <1>4, <1>5, <1>6

-----------------------------------------------------------------------------
(* Every step keeps it. *)

\* The state a resolver has, or builds if it has none.
LEMMA StateOfIsRead ==
    ASSUME Inv, NEW r \in DOMAIN resolver
    PROVE  \E config \in Readable(r) : /\ StateOf(r) = StateOn(config)
                                       /\ config \in Network \cup {NoConfig}
<1>1. r \in DOMAIN since
    <2>1. IsList(resolver) /\ IsList(since) /\ Len(since) = Len(resolver)
        BY DEF Inv, HistoryOK
    <2> QED
        BY <2>1 DEF IsList
<1>2. since[r] \subseteq Network /\ network \in since[r] /\ network \in Network
    BY <1>1 DEF Inv, HistoryOK
<1>3. Readable(r) \subseteq Network \cup {NoConfig}
    BY <1>2 DEF Readable
<1>4. PICK state : state = resolver[r].state
    OBVIOUS
<1>5. state = Unbuilt \/ \E config \in Readable(r) : state = StateOn(config)
    BY <1>4 DEF Inv, ResolverOK
<1>6. CASE \E config \in Readable(r) : state = StateOn(config)
    <2>1. PICK config \in Readable(r) : state = StateOn(config)
        BY <1>6
    <2>2. state.built
        BY <2>1 DEF StateOn
    <2> QED
        BY <1>3, <1>4, <2>1, <2>2 DEF StateOf
<1>7. CASE state = Unbuilt
    <2>1. ~state.built
        BY <1>7 DEF Unbuilt
    <2>2. PICK config : config = IF builder.system THEN network ELSE NoConfig
        OBVIOUS
    <2>3. StateOf(r) = StateOn(config)
        BY <1>4, <2>1, <2>2 DEF StateOf, Built, StateOn
    <2>4. config \in Readable(r)
        BY <1>2, <2>2 DEF Readable
    <2> QED
        BY <1>3, <2>3, <2>4
<1> QED
    BY <1>5, <1>6, <1>7

\* A resolver that was used.
LEMMA UseKeeps ==
    ASSUME Inv, NEW r \in DOMAIN resolver, NEW client,
           \/ client = resolver[r].client
           \/ client = [made |-> TRUE, pins |-> Pins(StateOf(r).servers)],
           resolver' = [resolver EXCEPT ![r] = [state |-> StateOf(r), client |-> client]],
           UNCHANGED <<builder, network, since, chosen>>
    PROVE  /\ BuilderOK' /\ HistoryOK'
           /\ IsList(resolver') /\ Len(resolver') <= MaxResolvers
           /\ \A i \in DOMAIN resolver' : ResolverOK(i)'
           /\ resolver' # <<>>
           /\ r \in DOMAIN resolver' /\ resolver'[r].state = StateOf(r)
<1>1. IsList(resolver) /\ Len(resolver) <= MaxResolvers
    BY DEF Inv
<1>2. PICK used : used = [state |-> StateOf(r), client |-> client]
    OBVIOUS
<1>3. PICK next : next = resolver'
    OBVIOUS
<1>4. next = [resolver EXCEPT ![r] = used]
    BY <1>2, <1>3
<1>5. /\ IsList(next) /\ Len(next) = Len(resolver) /\ DOMAIN next = DOMAIN resolver
      /\ next[r] = used
      /\ \A j \in DOMAIN resolver : j # r => next[j] = resolver[j]
    BY <1>1, <1>4, ListReplaced
<1>6. BuilderOK'
    BY DEF Inv, BuilderOK
<1>7. HistoryOK'
    BY <1>3, <1>5 DEF Inv, HistoryOK, IsList
<1>8. ASSUME NEW i \in DOMAIN resolver, i # r
      PROVE  ResolverOK(i)'
    <2>1. ResolverOK(i)
        BY DEF Inv
    <2>2. resolver'[i] = resolver[i]
        BY <1>3, <1>5, <1>8
    <2> QED
        BY <2>1, <2>2 DEF ResolverOK, Readable, StateOn
<1>9. ResolverOK(r)'
    <2>1. PICK config \in Readable(r) : StateOf(r) = StateOn(config)
        BY StateOfIsRead
    <2>2. PICK state : state = StateOf(r) /\ state = StateOn(config)
        BY <2>1
    <2>3. state.built /\ state # Unbuilt
        <3>1. state.built = TRUE
            BY <2>2 DEF StateOn
        <3>2. Unbuilt.built = FALSE
            BY DEF Unbuilt
        <3> QED
            BY <3>1, <3>2
    <2>4. client = NoClient \/ client = [made |-> TRUE, pins |-> Pins(state.servers)]
        <3>1. CASE client = [made |-> TRUE, pins |-> Pins(StateOf(r).servers)]
            BY <2>2, <3>1
        <3>2. CASE client = resolver[r].client
            <4>1. \/ client = NoClient
                  \/ /\ resolver[r].state # Unbuilt
                     /\ client = [made |-> TRUE, pins |-> Pins(resolver[r].state.servers)]
                BY <3>2 DEF Inv, ResolverOK
            <4>2. ASSUME resolver[r].state # Unbuilt
                  PROVE  StateOf(r) = resolver[r].state
                <5>1. \E c \in Readable(r) : resolver[r].state = StateOn(c)
                    BY <4>2 DEF Inv, ResolverOK
                <5>2. resolver[r].state.built
                    BY <5>1 DEF StateOn
                <5> QED
                    BY <5>2 DEF StateOf
            <4> QED
                BY <2>2, <4>1, <4>2
        <3> QED
            BY <3>1, <3>2
    <2>5. /\ resolver'[r] = [state |-> state, client |-> client]
          /\ resolver'[r].state = state /\ resolver'[r].client = client
        BY <1>2, <1>3, <1>5, <2>2
    <2>6. Readable(r)' = Readable(r) /\ StateOn(config)' = StateOn(config)
        BY DEF Readable, StateOn
    <2> QED
        BY <2>1, <2>2, <2>3, <2>4, <2>5, <2>6 DEF ResolverOK
<1>10. resolver' # <<>> /\ r \in DOMAIN resolver' /\ resolver'[r].state = StateOf(r)
    <2>1. next # <<>>
        BY <1>5
    <2> QED
        BY <1>2, <1>3, <1>5, <2>1
<1> QED
    BY <1>1, <1>3, <1>5, <1>6, <1>7, <1>8, <1>9, <1>10

\* An address lookup: where its answer comes from is right by the configuration that
\* the resolver has read, or reads now.
LEMMA LookupKeeps ==
    ASSUME Inv, NEW r \in DOMAIN resolver, NEW h \in Host, NEW family \in {"v4", "v6"},
           LookupAddress(r, h, family)
    PROVE  Inv'
<1>1. PICK config \in Readable(r) : /\ StateOf(r) = StateOn(config)
                                    /\ config \in Network \cup {NoConfig}
    BY StateOfIsRead
<1>2. StateOf(r).config = config
    BY <1>1 DEF StateOn
<1>3. PICK found : found = Override(config, h, family)
    OBVIOUS
<1>4. PICK mappings : mappings = {e \in config.hosts : /\ e.family = family
                                                       /\ e.name \in Names(config, h)}
    OBVIOUS
<1>5. found \subseteq {e.addr : e \in mappings} /\ (found = {} => mappings = {})
    <2>1. IsList(config.search)
        BY <1>1, Lists
    <2> QED
        BY <1>3, <1>4, <2>1, OverrideIsMapped
<1>6. PICK from : from = IF h \in Localhost THEN "loopback" ELSE IF found # {} THEN "hosts" ELSE "dns"
    OBVIOUS
<1>7. PICK addrs : addrs = IF h \in Localhost THEN {} ELSE found
    OBVIOUS
<1>8. /\ event' = [kind |-> "address", resolver |-> r, host |-> h,
                   family |-> family, from |-> from, addrs |-> addrs]
      /\ UNCHANGED <<builder, network, since, chosen>>
    <2>1. CASE h \in Localhost
        BY <1>6, <1>7, <2>1 DEF LookupAddress
    <2>2. CASE h \notin Localhost
        BY <1>2, <1>3, <1>6, <1>7, <2>2 DEF LookupAddress
    <2> QED
        BY <2>1, <2>2
<1>9. /\ BuilderOK' /\ HistoryOK'
      /\ IsList(resolver') /\ Len(resolver') <= MaxResolvers
      /\ \A i \in DOMAIN resolver' : ResolverOK(i)'
      /\ resolver' # <<>>
    <2>1. CASE h \in Localhost
        <3>1. resolver' = resolver
            BY <2>1 DEF LookupAddress
        <3>2. resolver # <<>>
            OBVIOUS
        <3>3. BuilderOK' /\ HistoryOK'
            BY <1>8, <3>1 DEF Inv, BuilderOK, HistoryOK
        <3>4. ASSUME NEW i \in DOMAIN resolver
              PROVE  ResolverOK(i)'
            <4>1. ResolverOK(i)
                BY DEF Inv
            <4> QED
                BY <1>8, <3>1, <4>1 DEF ResolverOK, Readable, StateOn
        <3> QED
            BY <3>1, <3>2, <3>3, <3>4 DEF Inv
    <2>2. CASE h \notin Localhost
        <3>1. PICK client : client = resolver[r].client
            OBVIOUS
        <3>2. resolver[r] = [state |-> resolver[r].state, client |-> client]
            BY <3>1 DEF Inv, ResolverOK
        <3>3. resolver' = [resolver EXCEPT ![r].state = StateOf(r)]
            BY <2>2 DEF LookupAddress
        <3>4. resolver' = [resolver EXCEPT ![r] = [state |-> StateOf(r), client |-> client]]
            <4>1. PICK state : state = StateOf(r)
                OBVIOUS
            <4>2. PICK old : old = resolver[r] /\ old = [state |-> old.state, client |-> client]
                BY <3>2
            <4>3. [old EXCEPT !.state = state] = [state |-> state, client |-> client]
                BY <4>2
            <4>4. resolver' = [resolver EXCEPT ![r] = [old EXCEPT !.state = state]]
                BY <3>3, <4>1, <4>2
            <4> QED
                BY <4>1, <4>3, <4>4
        <3> QED
            BY <1>8, <3>1, <3>4, UseKeeps
    <2> QED
        BY <2>1, <2>2
<1>10. OverridesPrecedeDns'
    <2>1. ASSUME h \in Localhost
          PROVE  from = "loopback"
        BY <1>6, <2>1
    <2>2. ASSUME builder.system, from = "dns"
          PROVE  config \in since[r] /\ mappings = {}
        BY <1>1, <1>5, <1>6, <2>2 DEF Readable
    <2>3. ASSUME from = "hosts"
          PROVE  config \in since[r] /\ addrs \subseteq {e.addr : e \in mappings}
        <3>1. found # {} /\ addrs = found
            BY <1>6, <1>7, <2>3
        <3>2. NoConfig.hosts = {}
            BY ConfigurationAssumption
        <3>3. config # NoConfig
            BY <1>4, <1>5, <3>1, <3>2
        <3> QED
            BY <1>1, <1>5, <3>1, <3>3 DEF Readable
    <2>4. /\ event'.kind = "address" /\ event'.resolver = r /\ event'.host = h
          /\ event'.family = family /\ event'.from = from /\ event'.addrs = addrs
        BY <1>8
    <2>5. mappings = {e \in config.hosts : /\ e.family = event'.family
                                           /\ e.name \in Names(config, event'.host)}
        BY <1>4, <2>4
    <2>6. since' = since /\ builder' = builder
        BY <1>8
    <2>7. /\ event'.host \in Localhost => event'.from = "loopback"
          /\ builder'.system /\ event'.from = "dns" =>
                \E c \in since'[event'.resolver] :
                   {e \in c.hosts : /\ e.family = event'.family
                                    /\ e.name \in Names(c, event'.host)} = {}
          /\ event'.from = "hosts" =>
                \E c \in since'[event'.resolver] :
                   event'.addrs \subseteq
                      {e.addr : e \in {e \in c.hosts : /\ e.family = event'.family
                                                       /\ e.name \in Names(c, event'.host)}}
        <3>1. ASSUME builder'.system, event'.from = "dns"
              PROVE  \E c \in since'[event'.resolver] :
                        {e \in c.hosts : /\ e.family = event'.family
                                         /\ e.name \in Names(c, event'.host)} = {}
            BY <2>2, <2>4, <2>5, <2>6, <3>1
        <3>2. ASSUME event'.from = "hosts"
              PROVE  \E c \in since'[event'.resolver] :
                        event'.addrs \subseteq
                           {e.addr : e \in {e \in c.hosts : /\ e.family = event'.family
                                                            /\ e.name \in Names(c, event'.host)}}
            BY <2>3, <2>4, <2>5, <2>6, <3>2
        <3> QED
            BY <2>1, <2>4, <3>1, <3>2
    <2> QED
        BY <2>7 DEF OverridesPrecedeDns, Names
<1>11. event'.kind = "address" /\ UnsharedNamesDialRight'
    BY <1>8 DEF UnsharedNamesDialRight
<1> QED
    BY <1>9, <1>10, <1>11 DEF Inv, EventOK

\* A query over HTTPS: a nameserver is connected to by the pins of the state it is of.
LEMMA QueryKeeps ==
    ASSUME Inv, NEW r \in DOMAIN resolver, QueryHttps(r)
    PROVE  Inv'
<1>1. PICK config \in Readable(r) : /\ StateOf(r) = StateOn(config)
                                    /\ config \in Network \cup {NoConfig}
    BY StateOfIsRead
<1>2. PICK state : state = StateOf(r)
    OBVIOUS
<1>3. PICK client : client = IF resolver[r].client.made THEN resolver[r].client
                             ELSE [made |-> TRUE, pins |-> Pins(state.servers)]
    OBVIOUS
<1>4. client.pins = Pins(state.servers)
    <2>1. \/ resolver[r].client = NoClient
          \/ /\ resolver[r].state # Unbuilt
             /\ resolver[r].client = [made |-> TRUE, pins |-> Pins(resolver[r].state.servers)]
        BY DEF Inv, ResolverOK
    <2>2. CASE resolver[r].client = NoClient
        <3>1. ~resolver[r].client.made
            BY <2>2 DEF NoClient
        <3> QED
            BY <1>3, <3>1
    <2>3. CASE /\ resolver[r].state # Unbuilt
               /\ resolver[r].client = [made |-> TRUE, pins |-> Pins(resolver[r].state.servers)]
        <3>1. \E c \in Readable(r) : resolver[r].state = StateOn(c)
            BY <2>3 DEF Inv, ResolverOK
        <3>2. resolver[r].state.built
            BY <3>1 DEF StateOn
        <3>3. state = resolver[r].state
            BY <1>2, <3>2 DEF StateOf
        <3>4. client = [made |-> TRUE, pins |-> Pins(state.servers)]
            BY <1>3, <2>3, <3>3
        <3> QED
            BY <3>4
    <2> QED
        BY <2>1, <2>2, <2>3
<1>5. /\ resolver' = [resolver EXCEPT ![r] = [state |-> state, client |-> client]]
      /\ UNCHANGED <<builder, network, since, chosen>>
    BY <1>2, <1>3 DEF QueryHttps
<1>6. /\ BuilderOK' /\ HistoryOK'
      /\ IsList(resolver') /\ Len(resolver') <= MaxResolvers
      /\ \A i \in DOMAIN resolver' : ResolverOK(i)'
      /\ resolver' # <<>>
      /\ resolver'[r].state = state
    BY <1>2, <1>3, <1>5, UseKeeps
<1>7. PICK s, addr :
          /\ s \in Range(state.servers)
          /\ s.protocol = "https"
          /\ event' = [kind |-> "dial", resolver |-> r, server |-> s, addr |-> addr]
          /\ addr = IF s.name = Unnamed THEN s.addr
                    ELSE IF s.name \in DOMAIN client.pins THEN client.pins[s.name]
                    ELSE Resolved
    BY <1>2, <1>3 DEF QueryHttps
<1>8. IsList(state.servers)
    <2>1. /\ builder.explicit \in Seq(ServerSet) /\ builder.fallback \in Seq(ServerSet)
          /\ builder.mode \in FallbackMode
        BY DEF Inv, BuilderOK
    <2>2. config.servers \in Seq(ServerSet)
        BY <1>1, Lists
    <2>3. PICK tiers : tiers = Assembled(config.servers, builder.explicit, builder.fallback, builder.mode)
        OBVIOUS
    <2>4. tiers.servers \in Seq(ServerSet)
        BY <2>1, <2>2, <2>3, TiersOfModes
    <2>5. state.servers = tiers.servers
        BY <1>1, <1>2, <2>3 DEF StateOn
    <2> QED
        BY <2>4, <2>5, SeqOfRange DEF IsList
<1>9. UnsharedNamesDialRight'
    <2>1. event'.kind = "dial" /\ event'.resolver = r /\ event'.server = s /\ event'.addr = addr
        BY <1>7
    <2>2. PICK sharing : sharing = {t \in Range(state.servers) : t.protocol = "https" /\ t.name = s.name}
        OBVIOUS
    <2>3. ASSUME s.name = Unnamed \/ {t.addr : t \in sharing} = {s.addr}
          PROVE  addr = s.addr
        <3>1. CASE s.name = Unnamed
            BY <1>7, <3>1
        <3>2. CASE s.name # Unnamed
            <4>1. {t.addr : t \in sharing} = {s.addr}
                BY <2>3, <3>2
            <4>2. \A t \in Range(state.servers) :
                      t.protocol = "https" /\ t.name = s.name => t.addr = s.addr
                BY <2>2, <4>1
            <4>3. PICK servers : servers = state.servers
                OBVIOUS
            <4>4. s.name \in DOMAIN Pins(servers) /\ Pins(servers)[s.name] = s.addr
                BY <1>7, <1>8, <3>2, <4>2, <4>3, UnsharedIsPinned
            <4> QED
                BY <1>4, <1>7, <3>2, <4>3, <4>4
        <3> QED
            BY <3>1, <3>2
    <2>4. sharing = {t \in Range(resolver'[event'.resolver].state.servers) :
                         t.protocol = "https" /\ t.name = event'.server.name}
        BY <1>6, <2>1, <2>2
    <2> QED
        BY <2>1, <2>3, <2>4 DEF UnsharedNamesDialRight
<1>10. event'.kind = "dial" /\ OverridesPrecedeDns'
    BY <1>7 DEF OverridesPrecedeDns
<1> QED
    BY <1>6, <1>9, <1>10 DEF Inv, EventOK

\* A new resolver, built or from reset, has read nothing.
LEMMA FreshKeeps ==
    ASSUME Inv, Len(resolver) < MaxResolvers,
           resolver' = Append(resolver, Fresh), since' = Append(since, {network}),
           event' = NoEvent, UNCHANGED <<builder, network, chosen>>
    PROVE  Inv'
<1>1. IsList(resolver) /\ IsList(since) /\ Len(since) = Len(resolver) /\ network \in Network
    BY DEF Inv, HistoryOK
<1>2. PICK n \in Nat : n = Len(resolver)
    BY <1>1, ListAppended
<1>3. /\ IsList(resolver') /\ Len(resolver') = n + 1
      /\ DOMAIN resolver = 1..n /\ DOMAIN resolver' = 1..(n + 1)
      /\ \A i \in 1..n : resolver'[i] = resolver[i]
      /\ resolver'[n + 1] = Fresh
    BY <1>1, <1>2, ListAppended
<1>4. /\ IsList(since') /\ Len(since') = n + 1
      /\ DOMAIN since = 1..n /\ DOMAIN since' = 1..(n + 1)
      /\ \A i \in 1..n : since'[i] = since[i]
      /\ since'[n + 1] = {network}
    <2>1. Len(since) = n
        BY <1>1, <1>2
    <2> QED
        BY <1>1, <2>1, ListAppended
<1>5. BuilderOK'
    BY DEF Inv, BuilderOK
<1>6. HistoryOK'
    <2>1. ASSUME NEW i \in 1..(n + 1)
          PROVE  since'[i] \subseteq Network /\ network \in since'[i]
        <3>1. CASE i = n + 1
            BY <1>1, <1>4, <3>1
        <3>2. CASE i # n + 1
            <4>1. i \in 1..n
                BY <3>2
            <4> QED
                BY <1>4, <4>1 DEF Inv, HistoryOK
        <3> QED
            BY <3>1, <3>2
    <2> QED
        BY <1>1, <1>3, <1>4, <2>1 DEF HistoryOK
<1>7. Len(resolver') <= MaxResolvers
    BY <1>2, <1>3, ConfigurationAssumption
<1>8. ASSUME NEW i \in 1..(n + 1)
      PROVE  ResolverOK(i)'
    <2>1. CASE i = n + 1
        <3>1. PICK new : new = Fresh /\ new = [state |-> Unbuilt, client |-> NoClient]
            BY DEF Fresh
        <3>2. resolver'[i] = new
            BY <1>3, <2>1, <3>1
        <3>3. new.state = Unbuilt /\ new.client = NoClient
            BY <3>1
        <3> QED
            BY <3>1, <3>2, <3>3 DEF ResolverOK
    <2>2. CASE i # n + 1
        <3>1. i \in 1..n
            BY <2>2
        <3>2. ResolverOK(i) /\ resolver'[i] = resolver[i] /\ since'[i] = since[i]
            BY <1>3, <1>4, <3>1 DEF Inv
        <3> QED
            BY <3>2 DEF ResolverOK, Readable, StateOn
    <2> QED
        BY <2>1, <2>2
<1>9. EventOK'
    BY DEF EventOK, NoEvent, OverridesPrecedeDns, UnsharedNamesDialRight
<1> QED
    BY <1>3, <1>5, <1>6, <1>7, <1>8, <1>9 DEF Inv

\* Another network is one more that each resolver may have read.
LEMMA NetworkKeeps ==
    ASSUME Inv, NetworkChanges
    PROVE  Inv'
<1>1. /\ IsList(since) /\ Len(since) = Len(resolver) /\ network' \in Network
      /\ since' = [r \in DOMAIN since |-> since[r] \cup {network'}]
      /\ event' = NoEvent /\ UNCHANGED <<builder, resolver, chosen>>
    BY DEF Inv, HistoryOK, NetworkChanges
<1>2. since \in Seq(Range(since))
    BY <1>1 DEF IsList
<1>3. PICK n \in Nat : n = Len(since) /\ DOMAIN since = 1..n
    BY <1>2
<1>4. DOMAIN since' = 1..n /\ \A r \in 1..n : since'[r] = since[r] \cup {network'}
    BY <1>1, <1>3
<1>5. IsList(since') /\ Len(since') = n
    <2>1. PICK next : next = since'
        OBVIOUS
    <2>2. next = [r \in 1..n |-> since[r] \cup {network'}]
        BY <1>1, <1>3, <2>1
    <2>3. PICK T : T = {since[r] \cup {network'} : r \in 1..n}
        OBVIOUS
    <2>4. next \in Seq(T) /\ Len(next) = n
        BY <2>2, <2>3
    <2> QED
        BY <2>1, <2>4, SeqOfRange DEF IsList
<1>6. BuilderOK'
    BY <1>1 DEF Inv, BuilderOK
<1>7. HistoryOK'
    BY <1>1, <1>3, <1>4, <1>5 DEF Inv, HistoryOK
<1>8. ASSUME NEW r \in DOMAIN resolver
      PROVE  ResolverOK(r)'
    <2>1. ResolverOK(r)
        BY DEF Inv
    <2>2. DOMAIN resolver = 1..n
        <3>1. resolver \in Seq(Range(resolver))
            BY DEF Inv, IsList
        <3> QED
            BY <1>1, <1>3, <3>1
    <2>3. Readable(r) \subseteq Readable(r)'
        BY <1>1, <1>4, <2>2 DEF Readable
    <2>4. \A config : StateOn(config)' = StateOn(config)
        BY <1>1 DEF StateOn
    <2> QED
        BY <1>1, <2>1, <2>3, <2>4 DEF ResolverOK
<1>9. EventOK'
    BY <1>1 DEF EventOK, NoEvent, OverridesPrecedeDns, UnsharedNamesDialRight
<1> QED
    BY <1>1, <1>6, <1>7, <1>8, <1>9 DEF Inv

\* While the builder is changed there is no resolver to be disturbed.
LEMMA BuildingKeeps ==
    ASSUME Inv, resolver = <<>>, BuilderOK', UNCHANGED <<resolver, network, event, since>>
    PROVE  Inv'
<1>1. event = NoEvent
    BY DEF Inv, EventOK
<1>2. HistoryOK'
    BY DEF Inv, HistoryOK
<1>3. DOMAIN resolver' = {}
    OBVIOUS
<1>4. EventOK'
    BY <1>1 DEF EventOK, NoEvent, OverridesPrecedeDns, UnsharedNamesDialRight
<1> QED
    BY <1>2, <1>3, <1>4 DEF Inv

\* What a call of a Builder method makes of the builder.
LEMMA CallKeepsBuilder ==
    ASSUME Inv, NEW system \in BOOLEAN, NEW explicit \in Seq(ServerSet),
           NEW fallback \in Seq(ServerSet), NEW mode \in FallbackMode, NEW calls \in 0..MaxCalls,
           builder' = [system |-> system, explicit |-> explicit, fallback |-> fallback,
                       mode |-> mode, calls |-> calls],
           chosen' # <<>> => chosen' \in Providers /\ fallback = DefaultOrder(chosen')
    PROVE  BuilderOK'
<1>1. PICK made : made = builder'
    OBVIOUS
<1>2. made \in [system : BOOLEAN, explicit : Seq(ServerSet), fallback : Seq(ServerSet),
                mode : FallbackMode, calls : 0..MaxCalls]
      /\ made.fallback = fallback
    BY <1>1
<1> QED
    BY <1>1, <1>2 DEF BuilderOK

\* The invariant is inductive.
LEMMA NextKeepsInv ==
    ASSUME Inv, [Next]_vars
    PROVE  Inv'
<1>1. PICK system \in BOOLEAN, explicit \in Seq(ServerSet), fallback \in Seq(ServerSet),
           mode \in FallbackMode, calls \in 0..MaxCalls :
          /\ builder = [system |-> system, explicit |-> explicit, fallback |-> fallback,
                        mode |-> mode, calls |-> calls]
          /\ chosen # <<>> => chosen \in Providers /\ fallback = DefaultOrder(chosen)
    <2>1. /\ builder \in [system : BOOLEAN, explicit : Seq(ServerSet), fallback : Seq(ServerSet),
                          mode : FallbackMode, calls : 0..MaxCalls]
          /\ chosen # <<>> => chosen \in Providers /\ builder.fallback = DefaultOrder(chosen)
        BY DEF Inv, BuilderOK
    <2>2. /\ builder.system \in BOOLEAN /\ builder.explicit \in Seq(ServerSet)
          /\ builder.fallback \in Seq(ServerSet) /\ builder.mode \in FallbackMode
          /\ builder.calls \in 0..MaxCalls
        BY <2>1
    <2>3. builder = [system |-> builder.system, explicit |-> builder.explicit,
                     fallback |-> builder.fallback, mode |-> builder.mode,
                     calls |-> builder.calls]
        BY <2>1
    <2> QED
        BY <2>1, <2>2, <2>3
<1>2. MaxCalls \in Nat
    BY ConfigurationAssumption
<1>3. CASE UseSystemConfig
    <2>1. builder' = [system |-> TRUE, explicit |-> explicit, fallback |-> fallback,
                      mode |-> mode, calls |-> calls]
        BY <1>1, <1>3 DEF UseSystemConfig
    <2>2. BuilderOK'
        BY <1>1, <1>3, <2>1, CallKeepsBuilder DEF UseSystemConfig
    <2> QED
        BY <1>3, <2>2, BuildingKeeps DEF UseSystemConfig
<1>4. ASSUME NEW m \in FallbackMode, SetMode(m)
      PROVE  Inv'
    <2>1. builder' = [system |-> system, explicit |-> explicit, fallback |-> fallback,
                      mode |-> m, calls |-> calls]
        BY <1>1, <1>4 DEF SetMode
    <2>2. BuilderOK'
        BY <1>1, <1>4, <2>1, CallKeepsBuilder DEF SetMode
    <2> QED
        BY <1>4, <2>2, BuildingKeeps DEF SetMode
<1>5. ASSUME Building
      PROVE  resolver = <<>> /\ calls + 1 \in 0..MaxCalls
    BY <1>1, <1>2, <1>5 DEF Building
<1>6. ASSUME NEW list \in Explicit, AddExplicit(list)
      PROVE  Inv'
    <2>1. PICK longer \in Seq(ServerSet) : longer = explicit \o list
        <3>1. list \in Seq(ServerSet)
            BY Lists
        <3> QED
            BY <3>1, ConcatProperties
    <2>2. builder' = [system |-> system, explicit |-> longer, fallback |-> fallback,
                      mode |-> mode, calls |-> calls + 1]
        BY <1>1, <1>6, <2>1 DEF AddExplicit
    <2>3. PICK more \in 0..MaxCalls : more = calls + 1
        BY <1>5, <1>6 DEF AddExplicit
    <2>4. chosen' # <<>> => chosen' \in Providers /\ fallback = DefaultOrder(chosen')
        BY <1>1, <1>6 DEF AddExplicit
    <2>5. BuilderOK'
        BY <2>2, <2>3, <2>4, CallKeepsBuilder
    <2> QED
        BY <1>5, <1>6, <2>5, BuildingKeeps DEF AddExplicit
<1>7. ASSUME NEW lists \in Interleaved, AddInterleaved(lists)
      PROVE  Inv'
    <2>1. PICK longer \in Seq(ServerSet) : longer = fallback \o InterleaveNameservers(lists)
        <3>1. InterleaveNameservers(lists) \in Seq(ServerSet)
            BY Lists
        <3> QED
            BY <3>1, ConcatProperties
    <2>2. builder' = [system |-> system, explicit |-> explicit, fallback |-> longer,
                      mode |-> mode, calls |-> calls + 1]
        BY <1>1, <1>7, <2>1 DEF AddInterleaved
    <2>3. PICK more \in 0..MaxCalls : more = calls + 1
        BY <1>5, <1>7 DEF AddInterleaved
    <2>4. chosen' = <<>>
        BY <1>7 DEF AddInterleaved
    <2>5. BuilderOK'
        BY <2>2, <2>3, <2>4, CallKeepsBuilder
    <2> QED
        BY <1>5, <1>7, <2>5, BuildingKeeps DEF AddInterleaved
<1>8. ASSUME NEW providers \in Providers, AddDefaultOrder(providers)
      PROVE  Inv'
    <2>1. DefaultOrder(providers) \in Seq(ServerSet)
        BY Lists
    <2>2. PICK longer \in Seq(ServerSet) : longer = fallback \o DefaultOrder(providers)
        BY <2>1, ConcatProperties
    <2>3. builder' = [system |-> system, explicit |-> explicit, fallback |-> longer,
                      mode |-> mode, calls |-> calls + 1]
        BY <1>1, <1>8, <2>2 DEF AddDefaultOrder
    <2>4. PICK more \in 0..MaxCalls : more = calls + 1
        BY <1>5, <1>8 DEF AddDefaultOrder
    <2>5. chosen' # <<>> => chosen' \in Providers /\ longer = DefaultOrder(chosen')
        <3>1. chosen' = IF fallback = <<>> THEN providers ELSE <<>>
            BY <1>1, <1>8 DEF AddDefaultOrder
        <3>2. fallback = <<>> => longer = DefaultOrder(providers)
            BY <2>1, <2>2, ConcatEmptySeq
        <3> QED
            BY <3>1, <3>2
    <2>6. BuilderOK'
        BY <2>3, <2>4, <2>5, CallKeepsBuilder
    <2> QED
        BY <1>5, <1>8, <2>6, BuildingKeeps DEF AddDefaultOrder
<1>9. CASE Build
    <2>1. resolver = <<>> /\ event = NoEvent /\ 0 < MaxResolvers
        BY <1>9, ConfigurationAssumption DEF Build, Inv, EventOK
    <2>2. since = <<>>
        <3>1. IsList(since) /\ Len(since) = 0
            BY <2>1 DEF Inv, HistoryOK
        <3> QED
            BY <3>1 DEF IsList
    <2>3. resolver' = Append(resolver, Fresh) /\ since' = Append(since, {network})
        BY <1>9, <2>1, <2>2 DEF Build
    <2> QED
        BY <1>9, <2>1, <2>3, FreshKeeps DEF Build
<1>10. CASE NetworkChanges
    BY <1>10, NetworkKeeps
<1>11. ASSUME NEW r \in DOMAIN resolver, Reset(r)
       PROVE  Inv'
    BY <1>11, FreshKeeps DEF Reset
<1>12. ASSUME NEW r \in DOMAIN resolver, Use(r)
       PROVE  Inv'
    BY <1>12, LookupKeeps, QueryKeeps DEF Use
<1>13. CASE UNCHANGED vars
    <2>1. /\ builder' = builder /\ resolver' = resolver /\ network' = network
          /\ event' = event /\ since' = since /\ chosen' = chosen
        BY <1>13 DEF vars
    <2>2. BuilderOK' /\ HistoryOK' /\ EventOK'
        BY <2>1 DEF Inv, BuilderOK, HistoryOK, EventOK, OverridesPrecedeDns,
                    UnsharedNamesDialRight
    <2>3. ASSUME NEW r \in DOMAIN resolver
          PROVE  ResolverOK(r)'
        <3>1. ResolverOK(r)
            BY DEF Inv
        <3> QED
            BY <2>1, <3>1 DEF ResolverOK, Readable, StateOn
    <2> QED
        BY <2>1, <2>2, <2>3 DEF Inv
<1> QED
    BY <1>3, <1>4, <1>6, <1>7, <1>8, <1>9, <1>10, <1>11, <1>12, <1>13 DEF Next

-----------------------------------------------------------------------------
(* The theorems. *)

\* The invariant holds before the first call.
LEMMA InitHolds == Init => Inv
<1>1. ASSUME Init
      PROVE  Inv
    <2>1. PICK empty \in Seq(ServerSet) : empty = <<>>
        <3>1. <<>> \in Seq(ServerSet)
            OBVIOUS
        <3> QED
            BY <3>1
    <2>2. builder = [system |-> FALSE, explicit |-> empty, fallback |-> empty,
                     mode |-> "deferred", calls |-> 0]
        BY <1>1, <2>1 DEF Init
    <2>3. 0 \in 0..MaxCalls /\ 0 <= MaxResolvers
        BY ConfigurationAssumption
    <2>4. BuilderOK
        <3>1. builder \in [system : BOOLEAN, explicit : Seq(ServerSet),
                           fallback : Seq(ServerSet), mode : FallbackMode, calls : 0..MaxCalls]
            BY <2>1, <2>2, <2>3 DEF FallbackMode
        <3>2. chosen = <<>>
            BY <1>1 DEF Init
        <3> QED
            BY <3>1, <3>2 DEF BuilderOK
    <2>5. resolver = <<>> /\ since = <<>> /\ network \in Network /\ event = NoEvent
        BY <1>1 DEF Init
    <2>6. IsList(<<>>) /\ Len(<<>>) = 0 /\ DOMAIN <<>> = {}
        BY DEF IsList
    <2>7. HistoryOK
        BY <2>5, <2>6 DEF HistoryOK
    <2>8. EventOK
        BY <2>5 DEF EventOK, NoEvent, OverridesPrecedeDns, UnsharedNamesDialRight
    <2> QED
        BY <2>3, <2>4, <2>5, <2>6, <2>7, <2>8 DEF Inv
<1> QED
    BY <1>1

\* Inv holds in every state.
THEOREM ConfigurationInvariant == Spec => []Inv
<1> QED
    BY InitHolds, NextKeepsInv, PTL DEF Spec

\* What a resolver that is in use runs on.
LEMMA BuiltFromWhatItRead ==
    ASSUME Inv, NEW r \in Using
    PROVE  \E config \in Readable(r) :
              /\ config.servers \in Seq(ServerSet)
              /\ resolver[r].state = StateOn(config)
              /\ resolver[r].state.config = config
              /\ LET tiers == Assembled(config.servers, builder.explicit, builder.fallback,
                                        builder.mode)
                 IN /\ resolver[r].state.servers = tiers.servers
                    /\ resolver[r].state.primaryCount = tiers.primaryCount
<1>1. r \in DOMAIN resolver /\ resolver[r].state.built
    BY DEF Using
<1>2. PICK config \in Readable(r) : /\ StateOf(r) = StateOn(config)
                                    /\ config \in Network \cup {NoConfig}
    BY <1>1, StateOfIsRead
<1>3. resolver[r].state = StateOn(config)
    BY <1>1, <1>2 DEF StateOf
<1>4. config.servers \in Seq(ServerSet)
    BY <1>2, Lists
<1>5. PICK tiers : tiers = Assembled(config.servers, builder.explicit, builder.fallback,
                                     builder.mode)
    OBVIOUS
<1>6. resolver[r].state = [built |-> TRUE, config |-> config,
                           servers |-> tiers.servers, primaryCount |-> tiers.primaryCount]
    BY <1>3, <1>5 DEF StateOn
<1>7. /\ resolver[r].state.config = config /\ resolver[r].state.servers = tiers.servers
      /\ resolver[r].state.primaryCount = tiers.primaryCount
    BY <1>6
<1> QED
    BY <1>2, <1>3, <1>4, <1>5, <1>7

\* What a resolver's tiers hold, by the mode.
LEMMA TiersInUse ==
    ASSUME Inv, NEW r \in Using
    PROVE  LET state == resolver[r].state
               own == Range(state.config.servers) \cup Range(builder.explicit)
           IN /\ builder.system => state.config \in since[r]
              /\ state.servers \in Seq(ServerSet)
              /\ state.primaryCount \in 0..Len(state.servers)
              /\ builder.mode = "deferred" =>
                    /\ Primary(state) = own
                    /\ SubSeq(state.servers, state.primaryCount + 1, Len(state.servers))
                           = builder.fallback
              /\ builder.mode # "deferred" =>
                    /\ Second(state) = {}
                    /\ Primary(state) = IF builder.mode = "if_system_empty"
                                           /\ state.config.servers # <<>>
                                        THEN own ELSE own \cup Range(builder.fallback)
<1>1. PICK config \in Readable(r) :
          /\ config.servers \in Seq(ServerSet)
          /\ resolver[r].state = StateOn(config)
          /\ resolver[r].state.config = config
          /\ LET tiers == Assembled(config.servers, builder.explicit, builder.fallback,
                                    builder.mode)
             IN /\ resolver[r].state.servers = tiers.servers
                /\ resolver[r].state.primaryCount = tiers.primaryCount
    BY BuiltFromWhatItRead
<1>2. PICK tiers : tiers = Assembled(config.servers, builder.explicit, builder.fallback,
                                     builder.mode)
    OBVIOUS
<1>3. PICK state : /\ state = resolver[r].state /\ state.config = config
                   /\ state.servers = tiers.servers
                   /\ state.primaryCount = tiers.primaryCount
    BY <1>1, <1>2
<1>4. PICK explicit \in Seq(ServerSet), fallback \in Seq(ServerSet), mode \in FallbackMode :
          explicit = builder.explicit /\ fallback = builder.fallback /\ mode = builder.mode
    BY DEF Inv, BuilderOK
<1>5. PICK own : own = Range(config.servers) \cup Range(builder.explicit)
    OBVIOUS
<1>6. /\ tiers.servers \in Seq(ServerSet)
      /\ tiers.primaryCount \in 0..Len(tiers.servers)
      /\ builder.mode = "deferred" =>
            Range(First(tiers)) = own /\ Rest(tiers) = builder.fallback
      /\ builder.mode # "deferred" =>
            /\ Rest(tiers) = <<>>
            /\ Range(First(tiers)) = IF builder.mode = "if_system_empty" /\ config.servers # <<>>
                                     THEN own ELSE own \cup Range(builder.fallback)
    <2>1. PICK system \in Seq(ServerSet) : system = config.servers
        BY <1>1
    <2>2. tiers = Assembled(system, explicit, fallback, mode)
        BY <1>2, <1>4, <2>1
    <2>3. own = Range(system) \cup Range(explicit)
        BY <1>4, <1>5, <2>1
    <2>4. tiers.servers \in Seq(ServerSet) /\ tiers.primaryCount \in 0..Len(tiers.servers)
        BY <2>2, TiersOfModes
    <2>5. mode = "deferred" => Range(First(tiers)) = own /\ Rest(tiers) = fallback
        BY <2>2, <2>3, TiersOfModes
    <2>6. mode # "deferred" =>
              /\ Rest(tiers) = <<>>
              /\ Range(First(tiers)) = IF mode = "if_system_empty" /\ system # <<>>
                                       THEN own ELSE own \cup Range(fallback)
        BY <2>2, <2>3, TiersOfModes
    <2> QED
        BY <1>4, <2>1, <2>4, <2>5, <2>6
<1>7. Primary(state) = Range(First(tiers)) /\ Second(state) = Range(Rest(tiers))
    BY <1>3 DEF Primary, Second, First, Rest
<1>8. SubSeq(state.servers, state.primaryCount + 1, Len(state.servers)) = Rest(tiers)
    BY <1>3 DEF Rest
<1>9. builder.system => config \in since[r]
    BY <1>1 DEF Readable
<1>10. Range(<<>>) = {}
    BY DEF Range
<1> QED
    BY <1>3, <1>5, <1>6, <1>7, <1>8, <1>9, <1>10

\* Whatever a builder is told and in whatever order, each resolver runs on known
\* nameservers, split into two tiers within bounds.
THEOREM ConfigurationTypes == Spec => []TypeOK
<1>1. ASSUME Inv
      PROVE  TypeOK
    <2>1. /\ builder.system \in BOOLEAN /\ builder.mode \in FallbackMode
          /\ builder.calls \in 0..MaxCalls
          /\ builder.explicit \in Seq(ServerSet) /\ builder.fallback \in Seq(ServerSet)
        BY <1>1 DEF Inv, BuilderOK
    <2>2. Range(builder.explicit) \cup Range(builder.fallback) \subseteq ServerSet
        BY <2>1, RangeOfSeq
    <2>3. /\ IsList(resolver) /\ Len(resolver) <= MaxResolvers /\ network \in Network
          /\ event.kind \in {"none", "address", "dial"}
          /\ IsList(since) /\ Len(since) = Len(resolver)
        BY <1>1 DEF Inv, HistoryOK, EventOK
    <2>4. Len(resolver) \in 0..MaxResolvers /\ DOMAIN since = DOMAIN resolver
        BY <2>3, ConfigurationAssumption, ListAppended
    <2>5. ASSUME NEW r \in DOMAIN resolver, resolver[r].state.built
          PROVE  /\ Range(resolver[r].state.servers) \subseteq ServerSet
                 /\ resolver[r].state.primaryCount \in 0..Len(resolver[r].state.servers)
        <3>1. r \in Using
            BY <2>5 DEF Using
        <3>2. PICK servers : servers = resolver[r].state.servers
            OBVIOUS
        <3>3. servers \in Seq(ServerSet) /\ resolver[r].state.primaryCount \in 0..Len(servers)
            BY <1>1, <3>1, <3>2, TiersInUse
        <3>4. Range(servers) \subseteq ServerSet
            BY <3>3, RangeOfSeq
        <3> QED
            BY <3>2, <3>3, <3>4
    <2>6. ASSUME NEW r \in DOMAIN resolver, resolver[r].client.made
          PROVE  resolver[r].state.built
        <3>1. resolver[r].client # NoClient
            BY <2>6 DEF NoClient
        <3>2. PICK config \in Readable(r) : resolver[r].state = StateOn(config)
            BY <1>1, <3>1 DEF Inv, ResolverOK
        <3> QED
            BY <3>2 DEF StateOn
    <2> QED
        BY <2>1, <2>2, <2>3, <2>4, <2>5, <2>6 DEF TypeOK
<1> QED
    BY <1>1, ConfigurationInvariant, PTL

\* The tiers are what FallbackMode says of a configuration the system had since the
\* resolver was made.
THEOREM TiersAreOfTheMode == Spec => []TiersFollowMode
<1>1. ASSUME Inv
      PROVE  TiersFollowMode
    <2>1. ASSUME NEW r \in Using
          PROVE  LET state == resolver[r].state
                     own == Range(state.config.servers) \cup Range(builder.explicit)
                     fallback == Range(builder.fallback)
                 IN /\ builder.system => state.config \in since[r]
                    /\ own \subseteq Primary(state)
                    /\ builder.mode = "deferred" =>
                          /\ Primary(state) = own
                          /\ Second(state) = fallback
                    /\ builder.mode # "deferred" =>
                          /\ Second(state) = {}
                          /\ Primary(state) = IF builder.mode = "if_system_empty"
                                                 /\ state.config.servers # <<>>
                                              THEN own ELSE own \cup fallback
        <3>1. PICK state : state = resolver[r].state
            OBVIOUS
        <3>2. PICK own : own = Range(state.config.servers) \cup Range(builder.explicit)
            OBVIOUS
        <3>3. /\ builder.system => state.config \in since[r]
              /\ builder.mode = "deferred" =>
                    /\ Primary(state) = own
                    /\ SubSeq(state.servers, state.primaryCount + 1, Len(state.servers))
                           = builder.fallback
              /\ builder.mode # "deferred" =>
                    /\ Second(state) = {}
                    /\ Primary(state) = IF builder.mode = "if_system_empty"
                                           /\ state.config.servers # <<>>
                                        THEN own ELSE own \cup Range(builder.fallback)
            BY <1>1, <3>1, <3>2, TiersInUse
        <3>4. builder.mode = "deferred" => Second(state) = Range(builder.fallback)
            BY <3>3 DEF Second
        <3>5. own \subseteq Primary(state)
            BY <3>3
        <3> QED
            BY <3>1, <3>2, <3>3, <3>4, <3>5
    <2> QED
        BY <2>1 DEF TiersFollowMode
<1> QED
    BY <1>1, ConfigurationInvariant, PTL

\* Behind two attempts of plain DNS the default fallback has DNS over HTTPS in its first
\* wave, whichever providers were selected.
THEOREM FirstWaveHasHttps == Spec => []HttpsInFirstWave
<1>1. ASSUME Inv
      PROVE  HttpsInFirstWave
    <2>1. ASSUME NEW r \in Using, builder.mode = "deferred", chosen # <<>>
          PROVE  LET state == resolver[r].state
                     tier == SubSeq(state.servers, state.primaryCount + 1, Len(state.servers))
                 IN /\ \E i \in 1..Wave : tier[i].protocol = "https"
                    /\ tier[1].protocol = "udp" /\ tier[1].addr[1] = chosen[1]
                    /\ tier[2].protocol = "udp"
                    /\ Len(chosen) > 1 => tier[2].addr[1] = chosen[2]
        <3>1. chosen \in Providers /\ builder.fallback = DefaultOrder(chosen)
            BY <1>1, <2>1 DEF Inv, BuilderOK
        <3>2. IsList(chosen)
            BY <3>1, ConfigurationAssumption
        <3>3. PICK tier : tier = SubSeq(resolver[r].state.servers,
                                        resolver[r].state.primaryCount + 1,
                                        Len(resolver[r].state.servers))
            OBVIOUS
        <3>4. tier = DefaultOrder(chosen)
            BY <1>1, <2>1, <3>1, <3>3, TiersInUse
        <3>5. /\ tier[1].protocol = "udp" /\ tier[1].addr[1] = chosen[1]
              /\ tier[2].protocol = "udp" /\ tier[3].protocol = "https"
              /\ Len(chosen) > 1 => tier[2].addr[1] = chosen[2]
            BY <2>1, <3>2, <3>4, DefaultOrderBegins
        <3>6. PICK i \in 1..Wave : i = 3
            BY ConfigurationAssumption
        <3> QED
            BY <3>3, <3>5, <3>6
    <2> QED
        BY <2>1 DEF HttpsInFirstWave
<1> QED
    BY <1>1, ConfigurationInvariant, PTL

\* An address lookup goes to a nameserver only if it may, and what it takes from a hosts
\* file is of the host's names.
THEOREM DnsComesLast == Spec => []OverridesPrecedeDns
<1>1. Inv => OverridesPrecedeDns
    BY DEF Inv, EventOK
<1> QED
    BY <1>1, ConfigurationInvariant, PTL

\* A nameserver whose TLS server name no other address shares is connected to at its own.
THEOREM PinsLeadRight == Spec => []UnsharedNamesDialRight
<1>1. Inv => UnsharedNamesDialRight
    BY DEF Inv, EventOK
<1> QED
    BY <1>1, ConfigurationInvariant, PTL

=============================================================================
