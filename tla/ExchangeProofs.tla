--------------------------- MODULE ExchangeProofs ---------------------------
(***************************************************************************)
(* Proofs about Exchange, for any name, zones, depth, TTLs and bounds:     *)
(* what the walk along an answer finds, what of the messages that reach    *)
(* the resolver it can take for an answer, and, from an inductive          *)
(* invariant, that a verdict is the nameserver's own.                      *)
(***************************************************************************)
EXTENDS Exchange, FiniteSetTheorems, SequenceTheorems, WellFoundedInduction, TLAPS

-----------------------------------------------------------------------------
(* Walks along an answer. *)

\* Some member of a set of naturals is the least.
LEMMA LeastMember ==
    ASSUME NEW S \in SUBSET Nat, S # {}
    PROVE  \E m \in S : \A j \in S : m <= j
<1>1. PICK rel : rel = OpToRel(<, Nat)
    OBVIOUS
<1>2. IsWellFoundedOn(rel, Nat)
    BY <1>1, NatLessThanWellFounded
<1>3. ASSUME NEW i \in Nat, NEW j \in Nat, i < j
      PROVE  <<i, j>> \in rel
    BY <1>1, <1>3 DEF OpToRel
<1>4. PICK m \in S : \A j \in S : ~(<<j, m>> \in rel)
    BY <1>2, WFMin
<1>5. ASSUME NEW j \in S
      PROVE  m <= j
    <2>1. m \in Nat /\ j \in Nat
        OBVIOUS
    <2>2. ~(j < m)
        BY <1>3, <1>4, <2>1
    <2> QED
        BY <2>1, <2>2
<1> QED
    BY <1>5

\* What holds of 0, and of the next whenever of one, holds of every natural.
LEMMA AllNaturals ==
    ASSUME NEW S \in SUBSET Nat, 0 \in S, \A i \in S : i + 1 \in S
    PROVE  S = Nat
<1>1. PICK missed \in SUBSET Nat : missed = Nat \ S
    OBVIOUS
<1>2. SUFFICES ASSUME missed # {}
               PROVE  FALSE
    BY <1>1
<1>3. PICK m \in missed : \A j \in missed : m <= j
    BY <1>2, LeastMember
<1>4. m \in Nat /\ m \notin S /\ m # 0
    BY <1>1
<1>5. PICK j \in Nat : m = j + 1
    <2>1. m - 1 \in Nat /\ m = (m - 1) + 1
        BY <1>4
    <2> QED
        BY <2>1
<1>6. j \notin missed
    BY <1>3, <1>5
<1> QED
    BY <1>1, <1>4, <1>5, <1>6

\* f comes from b by the first n of the steps.
IsFold(f, n, b, step) == f[0] = b /\ \A i \in 1..n : f[i] = step[i][f[i - 1]]

\* Steps that lead from members of a set to members of it can be taken one after another.
LEMMA FoldsExist ==
    ASSUME NEW S, NEW b \in S, NEW n \in Nat, NEW step \in [1..n -> [S -> S]]
    PROVE  \E f \in [0..n -> S] : IsFold(f, n, b, step)
<1>1. PICK K \in SUBSET Nat :
          K = {k \in Nat : k <= n => \E f \in [0..k -> S] : IsFold(f, k, b, step)}
    OBVIOUS
<1>2. 0 \in K
    <2>1. PICK f : f = [i \in 0..0 |-> b]
        OBVIOUS
    <2>2. f \in [0..0 -> S] /\ IsFold(f, 0, b, step)
        BY <2>1 DEF IsFold
    <2> QED
        BY <1>1, <2>2
<1>3. ASSUME NEW k \in K
      PROVE  k + 1 \in K
    <2>1. k \in Nat /\ k + 1 \in Nat
        BY <1>1
    <2>2. SUFFICES ASSUME k + 1 <= n
                   PROVE  \E f \in [0..(k + 1) -> S] : IsFold(f, k + 1, b, step)
        BY <1>1, <2>1
    <2>3. PICK f \in [0..k -> S] : IsFold(f, k, b, step)
        BY <1>1, <2>1, <2>2
    <2>4. PICK last \in S : last = step[k + 1][f[k]]
        <3>1. k + 1 \in 1..n /\ k \in 0..k
            BY <2>1, <2>2
        <3>2. step[k + 1] \in [S -> S] /\ f[k] \in S
            BY <2>3, <3>1
        <3> QED
            BY <3>2
    <2>5. PICK g : g = [i \in 0..(k + 1) |-> IF i = k + 1 THEN last ELSE f[i]]
        OBVIOUS
    <2>6. ASSUME NEW i \in 0..k
          PROVE  g[i] = f[i]
        BY <2>1, <2>5
    <2>7. g[k + 1] = step[k + 1][g[k]]
        BY <2>1, <2>4, <2>5, <2>6
    <2>8. ASSUME NEW i \in 1..(k + 1)
          PROVE  g[i] = step[i][g[i - 1]]
        <3>1. CASE i = k + 1
            BY <2>1, <2>7, <3>1
        <3>2. CASE i # k + 1
            <4>1. i \in 1..k /\ i \in 0..k /\ i - 1 \in 0..k
                BY <2>1, <3>2
            <4> QED
                BY <2>3, <2>6, <4>1 DEF IsFold
        <3> QED
            BY <3>1, <3>2
    <2>9. g[0] = b
        BY <2>1, <2>3, <2>6 DEF IsFold
    <2>10. g \in [0..(k + 1) -> S]
        BY <2>1, <2>3, <2>4, <2>5
    <2> QED
        BY <2>8, <2>9, <2>10 DEF IsFold
<1>4. K = Nat
    BY <1>2, <1>3, AllNaturals
<1>5. n \in K
    BY <1>4
<1> QED
    BY <1>1, <1>5

\* One hop from n.
Hop(answers, n) ==
    LET alias == AliasUnder(answers, n)
    IN IF alias = {} THEN n ELSE (CHOOSE rr \in alias : TRUE).data

\* f is the first n hops from start.
Hops(answers, start, n, f) ==
    f = [i \in 0..n |-> IF i = 0 THEN start ELSE Hop(answers, f[i - 1])]

\* A walk can be made to any length: one that could not, but one shorter could, is made
\* by a hop more.
LEMMA WalksExist ==
    ASSUME NEW answers, NEW start, NEW n \in Nat
    PROVE  \E f : Hops(answers, start, n, f)
<1>1. PICK S \in SUBSET Nat : S = {k \in Nat : ~\E f : Hops(answers, start, k, f)}
    OBVIOUS
<1>2. SUFFICES S = {}
    BY <1>1
<1>3. SUFFICES ASSUME S # {}
               PROVE  FALSE
    OBVIOUS
<1>4. PICK k \in S : \A j \in S : k <= j
    BY <1>3, LeastMember
<1>5. k \in Nat /\ ~\E f : Hops(answers, start, k, f)
    BY <1>1
<1>6. CASE k = 0
    <2>1. PICK f : f = [i \in 0..0 |-> start]
        OBVIOUS
    <2>2. f = [i \in 0..0 |-> IF i = 0 THEN start ELSE Hop(answers, f[i - 1])]
        BY <2>1
    <2> QED
        BY <1>5, <1>6, <2>2 DEF Hops
<1>7. CASE k # 0
    <2>1. PICK m \in Nat : k = m + 1
        <3>1. k - 1 \in Nat /\ k = (k - 1) + 1
            BY <1>5, <1>7
        <3> QED
            BY <3>1
    <2>2. m \notin S
        BY <1>4, <2>1
    <2>3. PICK f : Hops(answers, start, m, f)
        BY <1>1, <2>2
    <2>4. PICK g : g = [i \in 0..k |-> IF i = 0 THEN start ELSE Hop(answers, f[i - 1])]
        OBVIOUS
    <2>5. ASSUME NEW i \in 0..m
          PROVE  g[i] = f[i]
        BY <2>1, <2>3, <2>4 DEF Hops
    <2>6. ASSUME NEW i \in 0..k
          PROVE  g[i] = IF i = 0 THEN start ELSE Hop(answers, g[i - 1])
        <3>1. CASE i = 0
            BY <2>4, <3>1
        <3>2. CASE i # 0
            <4>1. i - 1 \in 0..m
                BY <2>1, <3>2
            <4>2. g[i - 1] = f[i - 1]
                BY <2>5, <4>1
            <4> QED
                BY <2>4, <3>2, <4>2
        <3> QED
            BY <3>1, <3>2
    <2>7. g = [i \in 0..k |-> IF i = 0 THEN start ELSE Hop(answers, g[i - 1])]
        BY <2>4, <2>6
    <2> QED
        BY <1>5, <2>7 DEF Hops
<1> QED
    BY <1>6, <1>7

\* The chain is such a walk.
LEMMA ChainHops ==
    ASSUME NEW answers, NEW start
    PROVE  /\ DOMAIN Chain(answers, start) = 0..Depth /\ Depth \in Nat
           /\ Chain(answers, start)[0] = start
           /\ \A i \in 1..Depth :
                 Chain(answers, start)[i] = Hop(answers, Chain(answers, start)[i - 1])
<1>1. Depth \in Nat \ {0}
    BY AnswersAssumption
<1>2. PICK f : Hops(answers, start, Depth, f)
    BY <1>1, WalksExist
<1>3. PICK c : c = Chain(answers, start)
    OBVIOUS
<1>4. c = [i \in 0..Depth |-> IF i = 0 THEN start ELSE Hop(answers, c[i - 1])]
    <2>1. c = CHOOSE g : g = [i \in 0..Depth |-> IF i = 0 THEN start ELSE Hop(answers, g[i - 1])]
        BY <1>3 DEF Chain, Hop
    <2>2. f = [i \in 0..Depth |-> IF i = 0 THEN start ELSE Hop(answers, f[i - 1])]
        BY <1>2 DEF Hops
    <2> QED
        BY <2>1, <2>2
<1>5. c[0] = start
    BY <1>1, <1>4
<1>6. ASSUME NEW i \in 1..Depth
      PROVE  c[i] = Hop(answers, c[i - 1])
    BY <1>1, <1>4
<1>7. DOMAIN c = 0..Depth
    BY <1>4
<1> QED
    BY <1>1, <1>3, <1>5, <1>6, <1>7

\* Every name on it but the start is what some alias of class IN stands for.
LEMMA ChainFollowsAliases ==
    ASSUME NEW answers, NEW start, NEW i \in 0..Depth
    PROVE  \/ Chain(answers, start)[i] = start
           \/ \E j \in DOMAIN answers : /\ answers[j].class = "IN" /\ IsCname(answers[j])
                                        /\ answers[j].data = Chain(answers, start)[i]
<1>1. PICK c : c = Chain(answers, start)
    OBVIOUS
<1>2. /\ Depth \in Nat /\ c[0] = start
      /\ \A k \in 1..Depth : c[k] = Hop(answers, c[k - 1])
    BY <1>1, ChainHops
<1> DEFINE From(m) == \/ m = start
                      \/ \E j \in DOMAIN answers : /\ answers[j].class = "IN" /\ IsCname(answers[j])
                                                   /\ answers[j].data = m
<1>3. PICK S \in SUBSET Nat : S = {k \in 0..Depth : ~From(c[k])}
    <2> HIDE DEF From
    <2>1. PICK R : R = {k \in 0..Depth : ~From(c[k])}
        OBVIOUS
    <2>2. R \in SUBSET Nat
        BY <1>2, <2>1
    <2> QED
        BY <2>1, <2>2
<1>4. SUFFICES ASSUME S # {}
               PROVE  FALSE
    BY <1>1, <1>3
<1>5. PICK k \in S : \A j \in S : k <= j
    BY <1>4, LeastMember
<1>6. k \in 0..Depth /\ ~From(c[k])
    BY <1>3
<1>7. k # 0
    BY <1>2, <1>6
<1>8. k \in 1..Depth /\ k - 1 \in 0..Depth /\ ~(k <= k - 1)
    BY <1>2, <1>6, <1>7
<1>9. From(c[k - 1])
    BY <1>3, <1>5, <1>8
<1>10. c[k] = Hop(answers, c[k - 1])
    BY <1>2, <1>8
<1>11. CASE AliasUnder(answers, c[k - 1]) = {}
    BY <1>6, <1>9, <1>10, <1>11 DEF Hop
<1>12. CASE AliasUnder(answers, c[k - 1]) # {}
    <2>1. PICK rr \in AliasUnder(answers, c[k - 1]) : c[k] = rr.data
        BY <1>10, <1>12 DEF Hop
    <2>2. PICK j \in DOMAIN answers : rr = answers[j] /\ IsUnder(rr, c[k - 1]) /\ IsCname(rr)
        BY <2>1 DEF AliasUnder
    <2>3. From(c[k])
        BY <2>1, <2>2 DEF IsUnder
    <2> QED
        BY <1>6, <2>3
<1> QED
    BY <1>11, <1>12

-----------------------------------------------------------------------------
(* What is picked of a sequence. *)

\* The k-th of a finite set of places has k - 1 ahead of it: no two have as many, so
\* the counts are all there are.
LEMMA PlacesAreRanked ==
    ASSUME NEW n \in Nat, NEW I \in SUBSET (1..n)
    PROVE  /\ Cardinality(I) \in Nat
           /\ \A k \in 1..Cardinality(I) : \E i \in I : Cardinality({j \in I : j < i}) = k - 1
           /\ I = {} <=> Cardinality(I) = 0
<1>1. IsFiniteSet(1..n)
    BY FS_Interval
<1>2. IsFiniteSet(I)
    BY <1>1, FS_Subset
<1>3. PICK m \in Nat : m = Cardinality(I)
    BY <1>2, FS_CardinalityType
<1>4. PICK ahead : ahead = [i \in I |-> {j \in I : j < i}]
    OBVIOUS
<1>5. ASSUME NEW i \in I
      PROVE  /\ ahead[i] \in SUBSET I /\ IsFiniteSet(ahead[i]) /\ Cardinality(ahead[i]) \in Nat
             /\ Cardinality(ahead[i]) < m
    <2>1. ahead[i] \in SUBSET I /\ i \notin ahead[i]
        BY <1>4
    <2>2. IsFiniteSet(ahead[i])
        BY <1>2, <2>1, FS_Subset
    <2>3. Cardinality(ahead[i]) \in Nat
        BY <2>2, FS_CardinalityType
    <2>4. Cardinality(ahead[i]) <= m /\ Cardinality(ahead[i]) # m
        BY <1>2, <1>3, <2>1, FS_Subset
    <2> QED
        BY <1>3, <2>1, <2>2, <2>3, <2>4
<1>6. ASSUME NEW i \in I, NEW j \in I, i < j
      PROVE  Cardinality(ahead[i]) < Cardinality(ahead[j])
    <2>1. i \in ahead[j] /\ i \notin ahead[i]
        BY <1>4, <1>6
    <2>2. ahead[i] \in SUBSET ahead[j]
        <3>1. ASSUME NEW x \in I, x < i
              PROVE  x < j
            BY <1>6, <3>1
        <3> QED
            BY <1>4, <3>1
    <2>3. Cardinality(ahead[i]) <= Cardinality(ahead[j])
          /\ Cardinality(ahead[i]) # Cardinality(ahead[j])
        BY <1>5, <2>1, <2>2, FS_Subset
    <2> QED
        BY <1>5, <2>3
<1>7. PICK rank : rank = [i \in I |-> Cardinality(ahead[i]) + 1]
    OBVIOUS
<1>8. ASSUME NEW i \in I
      PROVE  rank[i] \in 1..m
    BY <1>3, <1>5, <1>7
<1>9. ASSUME NEW i \in I, NEW j \in I, rank[i] = rank[j]
      PROVE  i = j
    <2>1. Cardinality(ahead[i]) = Cardinality(ahead[j])
        BY <1>5, <1>7, <1>9
    <2>2. ~(i < j) /\ ~(j < i)
        BY <1>5, <1>6, <2>1
    <2> QED
        BY <2>2
<1>10. rank \in Injection(I, 1..m)
    BY <1>7, <1>8, <1>9 DEF Injection, IsInjective
<1>11. IsFiniteSet(1..m) /\ Cardinality(1..m) = m
    BY FS_Interval
<1>12. rank \in Surjection(I, 1..m)
    BY <1>3, <1>10, <1>11, FS_Injection
<1>13. ASSUME NEW k \in 1..m
       PROVE  \E i \in I : Cardinality({j \in I : j < i}) = k - 1
    <2>1. PICK i \in I : rank[i] = k
        BY <1>12 DEF Surjection
    <2>2. Cardinality(ahead[i]) = k - 1
        BY <1>5, <1>7, <2>1
    <2> QED
        BY <1>4, <2>2
<1>14. I = {} <=> Cardinality(I) = 0
    BY <1>2, FS_EmptySet
<1> QED
    BY <1>3, <1>13, <1>14

\* What is picked are the members at the places.
LEMMA PickedMembers ==
    ASSUME NEW n \in Nat, NEW s, DOMAIN s = 1..n, NEW I \in SUBSET (1..n)
    PROVE  /\ DOMAIN Picked(s, I) = 1..Cardinality(I)
           /\ Cardinality(I) \in Nat
           /\ Picked(s, I) = <<>> <=> I = {}
           /\ \A k \in 1..Cardinality(I) : \E i \in I : Picked(s, I)[k] = s[i]
<1>1. PICK m \in Nat : m = Cardinality(I)
    BY PlacesAreRanked
<1>2. PICK p : p = Picked(s, I)
    OBVIOUS
<1>3. p = [k \in 1..m |-> s[CHOOSE i \in I : Cardinality({j \in I : j < i}) = k - 1]]
    BY <1>1, <1>2 DEF Picked
<1>4. ASSUME NEW k \in 1..m
      PROVE  \E i \in I : p[k] = s[i]
    <2>1. \E i \in I : Cardinality({j \in I : j < i}) = k - 1
        BY <1>1, PlacesAreRanked
    <2>2. PICK i \in I : i = CHOOSE x \in I : Cardinality({j \in I : j < x}) = k - 1
        BY <2>1
    <2>3. p[k] = s[i]
        BY <1>3, <2>2
    <2> QED
        BY <2>3
<1>5. m = 0 <=> I = {}
    BY <1>1, PlacesAreRanked
<1>6. p = <<>> <=> m = 0
    <2>1. p = <<>> => DOMAIN p = {}
        OBVIOUS
    <2>2. m = 0 => p = <<>>
        BY <1>3
    <2> QED
        BY <1>3, <2>1, <2>2
<1> QED
    BY <1>1, <1>2, <1>3, <1>4, <1>5, <1>6

\* Whoever picks every place has the sequence.
LEMMA PickedAll ==
    ASSUME NEW n \in Nat, NEW s, s = [k \in 1..n |-> s[k]]
    PROVE  Picked(s, 1..n) = s
<1>1. ASSUME NEW m \in Nat
      PROVE  Cardinality(1..m) = m
    BY FS_Interval
<1>2. ASSUME NEW k \in 1..n
      PROVE  k = CHOOSE i \in 1..n : Cardinality({j \in 1..n : j < i}) = k - 1
    <2>1. ASSUME NEW i \in 1..n
          PROVE  Cardinality({j \in 1..n : j < i}) = i - 1
        <3>1. {j \in 1..n : j < i} = 1..(i - 1)
            OBVIOUS
        <3>2. PICK m \in Nat : m = i - 1
            OBVIOUS
        <3> QED
            BY <1>1, <3>1, <3>2
    <2>2. \A i \in 1..n : Cardinality({j \in 1..n : j < i}) = k - 1 <=> i = k
        BY <2>1
    <2> QED
        BY <2>2
<1>3. Picked(s, 1..n) =
          [k \in 1..n |-> s[CHOOSE i \in 1..n : Cardinality({j \in 1..n : j < i}) = k - 1]]
    BY <1>1 DEF Picked
<1> QED
    BY <1>2, <1>3

-----------------------------------------------------------------------------
(* What is read of an answer section: a sequence of records with TTLs. *)

IsAnswers(answers) == /\ Len(answers) \in Nat /\ DOMAIN answers = 1..Len(answers)
                      /\ \A rr \in Range(answers) : rr.ttl \in 0..U32Max

\* The wanted records are records of the section of the type, each of which bounds the
\* TTL. None are picked only if there are none, and an alias is followed only if it is
\* in the section.
LEMMA WantedFacts ==
    ASSUME NEW answers, IsAnswers(answers), NEW start, NEW type
    PROVE  LET wanted == Wanted(answers, start, type)
           IN /\ \E n \in Nat : DOMAIN wanted = 1..n
              /\ wanted = <<>> <=> WantedAt(answers, start, type) = {}
              /\ \A k \in DOMAIN wanted : \E i \in WantedAt(answers, start, type) :
                    wanted[k] = answers[i] /\ answers[i].type = type
<1>1. PICK n \in Nat : DOMAIN answers = 1..n
    BY DEF IsAnswers
<1>2. PICK I \in SUBSET (1..n) : I = WantedAt(answers, start, type)
    BY <1>1 DEF WantedAt, OnChain
<1>3. PICK w : w = Wanted(answers, start, type)
    OBVIOUS
<1>4. w = Picked(answers, I)
    BY <1>2, <1>3 DEF Wanted
<1>5. /\ DOMAIN w = 1..Cardinality(I) /\ Cardinality(I) \in Nat
      /\ w = <<>> <=> I = {}
      /\ \A k \in 1..Cardinality(I) : \E i \in I : w[k] = answers[i]
    BY <1>1, <1>4, PickedMembers
<1>6. \A i \in I : answers[i].type = type
    BY <1>2 DEF WantedAt
<1> QED
    BY <1>2, <1>3, <1>5, <1>6

\* The TTL of a response is no longer than that of any wanted record in it.
LEMMA LeastTtlBounds ==
    ASSUME NEW answers, IsAnswers(answers), NEW start, NEW type
    PROVE  /\ LeastTtl(answers, start, type) \in Nat
           /\ \A i \in WantedAt(answers, start, type) :
                 LeastTtl(answers, start, type) <= answers[i].ttl
           /\ \A i \in OnChain(answers, start) :
                 IsCname(answers[i]) => LeastTtl(answers, start, type) <= answers[i].ttl
<1>1. U32Max \in Nat
    BY AnswersAssumption
<1>2. OnChain(answers, start) \subseteq DOMAIN answers
    BY DEF OnChain
<1>3. PICK read : read = {i \in OnChain(answers, start) : IsCname(answers[i]) \/ answers[i].type = type}
    OBVIOUS
<1>4. PICK ttls : ttls = {U32Max} \cup {answers[i].ttl : i \in read}
    OBVIOUS
<1>5. ASSUME NEW i \in OnChain(answers, start)
      PROVE  /\ answers[i].ttl \in 0..U32Max
             /\ IsCname(answers[i]) \/ answers[i].type = type => answers[i].ttl \in ttls
    <2>1. answers[i] \in Range(answers)
        BY <1>2 DEF Range
    <2> QED
        BY <1>3, <1>4, <2>1 DEF IsAnswers
<1>6. ttls \in SUBSET Nat
    <2>1. ASSUME NEW i \in read
          PROVE  answers[i].ttl \in Nat
        BY <1>1, <1>3, <1>5
    <2> QED
        BY <1>1, <1>4, <2>1
<1>7. \E t \in ttls : \A other \in ttls : t <= other
    BY <1>4, <1>6, LeastMember
<1>8. PICK least \in ttls : /\ least = CHOOSE t \in ttls : \A other \in ttls : t <= other
                            /\ \A other \in ttls : least <= other
    BY <1>7
<1>9. LeastTtl(answers, start, type) = IF least = U32Max THEN 0 ELSE least
    BY <1>3, <1>4, <1>8 DEF LeastTtl
<1>10. LeastTtl(answers, start, type) \in Nat /\ LeastTtl(answers, start, type) <= least
    BY <1>1, <1>6, <1>9
<1>11. ASSUME NEW i \in OnChain(answers, start), IsCname(answers[i]) \/ answers[i].type = type
       PROVE  LeastTtl(answers, start, type) <= answers[i].ttl
    <2>1. answers[i].ttl \in ttls /\ answers[i].ttl \in Nat
        BY <1>5, <1>6, <1>11
    <2>2. least <= answers[i].ttl /\ least \in Nat
        BY <1>6, <1>8, <2>1
    <2> QED
        BY <1>10, <2>1, <2>2
<1>12. \A i \in WantedAt(answers, start, type) : i \in OnChain(answers, start) /\ answers[i].type = type
    BY DEF WantedAt
<1> QED
    BY <1>10, <1>11, <1>12

\* A followed alias is one of the section, and nothing wanted is on the chain.
LEMMA UnresolvedIsAliased ==
    ASSUME NEW answers, NEW start, NEW type, NEW n \in Unresolved(answers, start, type)
    PROVE  /\ WantedAt(answers, start, type) = {}
           /\ \E i \in DOMAIN answers : IsCname(answers[i]) /\ answers[i].data = n
<1>1. /\ n = Chain(answers, start)[Depth] /\ WantedAt(answers, start, type) = {}
      /\ ~NamesEqual(n, start)
    BY DEF Unresolved
<1>2. n # start
    BY <1>1 DEF NamesEqual
<1>3. Depth \in 0..Depth
    BY AnswersAssumption
<1>4. PICK j \in DOMAIN answers : IsCname(answers[j]) /\ answers[j].data = n
    BY <1>1, <1>2, <1>3, ChainFollowsAliases
<1> QED
    BY <1>1, <1>4

\* A string that is split at its first separator and put together again is the same.
LEMMA StringIsJoined ==
    ASSUME NEW C, NEW string \in Seq(C)
    PROVE  LET parts == Split(string)
           IN (IF Len(parts) = 1 THEN parts[1] ELSE parts[1] \o <<"=">> \o parts[2]) = string
<1>1. PICK n \in Nat : n = Len(string) /\ DOMAIN string = 1..n
    OBVIOUS
<1>2. PICK at \in SUBSET (1..n) : at = {i \in DOMAIN string : string[i] = "="}
    BY <1>1
<1>3. CASE at = {}
    BY <1>2, <1>3 DEF Split
<1>4. CASE at # {}
    <2>1. \E i \in at : \A j \in at : i <= j
        <3>1. at \in SUBSET Nat
            BY <1>2
        <3> QED
            BY <1>4, <3>1, LeastMember
    <2>2. PICK first \in at : first = CHOOSE i \in at : \A j \in at : i <= j
        BY <2>1
    <2>3. first \in 1..n /\ string[first] = "="
        BY <1>2
    <2>4. PICK a : a = SubSeq(string, 1, first - 1)
        OBVIOUS
    <2>5. PICK b : b = SubSeq(string, first + 1, Len(string))
        OBVIOUS
    <2>6. Split(string) = <<a, b>>
        BY <1>2, <1>4, <2>2, <2>4, <2>5 DEF Split
    <2>7. SubSeq(string, first, n) = <<"=">> \o b
        BY <1>1, <2>3, <2>5, SubSeqRecursiveFirst
    <2>8. a \o SubSeq(string, first, n) = string
        <3>1. 1 \in 1..(Len(string) + 1) /\ first - 1 \in 0..Len(string) /\ n \in (first - 1)..Len(string)
              /\ (first - 1) + 1 = first
            BY <1>1, <2>3
        <3>2. SubSeq(string, 1, first - 1) \o SubSeq(string, (first - 1) + 1, n) = SubSeq(string, 1, n)
            BY <3>1, ConcatAdjacentSubSeq
        <3>3. SubSeq(string, 1, n) = string
            BY <1>1, SubSeqFull
        <3> QED
            BY <2>4, <3>1, <3>2, <3>3
    <2>9. (a \o <<"=">>) \o b = a \o (<<"=">> \o b)
        <3>1. \A i \in 1..n : string[i] \in C
            BY <1>1
        <3>2. PICK k \in Int : k = first - 1
            BY <2>3
        <3>3. \A i \in 1..k : string[i] \in C
            BY <2>3, <3>1, <3>2
        <3>4. a \in Seq(C)
            BY <2>4, <3>2, <3>3, SubSeqProperties
        <3>5. PICK m \in Int : m = first + 1
            BY <2>3
        <3>6. \A i \in m..n : string[i] \in C
            BY <2>3, <3>1, <3>5
        <3>7. b \in Seq(C)
            BY <1>1, <2>5, <3>5, <3>6, SubSeqProperties
        <3>8. <<"=">> \in Seq(C)
            <4>1. "=" \in C
                BY <2>3, <3>1
            <4> QED
                BY <4>1
        <3> QED
            BY <3>4, <3>7, <3>8, ConcatAssociative
    <2>10. PICK parts : parts = Split(string)
        OBVIOUS
    <2>11. Len(parts) # 1 /\ parts[1] = a /\ parts[2] = b
        BY <2>6, <2>10
    <2> QED
        BY <2>7, <2>8, <2>9, <2>10, <2>11
<1> QED
    BY <1>3, <1>4

\* The strings of a TXT record are read as they are, separators or not.
LEMMA TxtReadsBack ==
    ASSUME NEW C, NEW data \in Seq(Seq(C))
    PROVE  TxtStrings(data) = data
<1>1. PICK n \in Nat : DOMAIN data = 1..n /\ data = [i \in 1..n |-> data[i]]
    OBVIOUS
<1>2. ASSUME NEW i \in 1..n
      PROVE  LET parts == Split(data[i])
             IN (IF Len(parts) = 1 THEN parts[1] ELSE parts[1] \o <<"=">> \o parts[2]) = data[i]
    <2>1. data[i] \in Seq(C)
        BY <1>1
    <2>2. PICK string \in Seq(C) : string = data[i]
        BY <2>1
    <2> QED
        BY <2>2, StringIsJoined
<1> QED
    BY <1>1, <1>2 DEF TxtStrings

-----------------------------------------------------------------------------
(* What is read of a service binding. *)

\* The members of two sequences put together are those of either.
LEMMA RangeOfConcat ==
    ASSUME NEW S, NEW s \in Seq(S), NEW t \in Seq(S)
    PROVE  s \o t \in Seq(S) /\ Range(s \o t) = Range(s) \cup Range(t)
<1>1. PICK m \in Nat : m = Len(s) /\ DOMAIN s = 1..m
    OBVIOUS
<1>2. PICK n \in Nat : n = Len(t) /\ DOMAIN t = 1..n
    OBVIOUS
<1>3. PICK u \in Seq(S) : u = s \o t
    BY ConcatProperties
<1>4. DOMAIN u = 1..(m + n)
    BY <1>1, <1>2, <1>3
<1>5. ASSUME NEW i \in 1..(m + n)
      PROVE  u[i] = IF i <= m THEN s[i] ELSE t[i - m]
    BY <1>1, <1>2, <1>3
<1>6. ASSUME NEW i \in DOMAIN u
      PROVE  u[i] \in Range(s) \cup Range(t)
    <2>1. CASE i <= m
        BY <1>1, <1>4, <1>5, <2>1 DEF Range
    <2>2. CASE ~(i <= m)
        <3>1. i - m \in 1..n /\ u[i] = t[i - m]
            BY <1>4, <1>5, <2>2
        <3> QED
            BY <1>2, <3>1 DEF Range
    <2> QED
        BY <2>1, <2>2
<1>7. ASSUME NEW i \in DOMAIN s
      PROVE  s[i] \in Range(u)
    <2>1. i \in DOMAIN u /\ u[i] = s[i]
        BY <1>1, <1>4, <1>5
    <2> QED
        BY <2>1 DEF Range
<1>8. ASSUME NEW i \in DOMAIN t
      PROVE  t[i] \in Range(u)
    <2>1. m + i \in DOMAIN u /\ ~(m + i <= m) /\ (m + i) - m = i
        BY <1>2, <1>4
    <2>2. u[m + i] = t[i]
        BY <1>4, <1>5, <2>1
    <2> QED
        BY <2>1, <2>2 DEF Range
<1>9. Range(u) = Range(s) \cup Range(t)
    BY <1>6, <1>7, <1>8 DEF Range
<1> QED
    BY <1>3, <1>9

\* The values of one key, in all parameters up to the i-th.
Listed(params, key, i) ==
    UNION {Range(params[j].value) : j \in {j \in 1..i : params[j].key = key}}

\* AllParams puts together the values of every parameter of a key, and nothing else.
LEMMA AllParamsAreListed ==
    ASSUME NEW r, NEW key, NEW P, NEW n \in Nat, n = Len(r.data.params),
           \A j \in 1..n : r.data.params[j].key = key => r.data.params[j].value \in Seq(P)
    PROVE  /\ AllParams(r, key) \in Seq(P)
           /\ Range(AllParams(r, key)) = Listed(r.data.params, key, n)
<1>1. PICK params : params = r.data.params
    OBVIOUS
<1>2. PICK S : S = Seq(P)
    OBVIOUS
<1>3. <<>> \in S
    BY <1>2
<1>4. ASSUME NEW i \in 1..n, NEW s \in S
      PROVE  (IF params[i].key = key THEN s \o params[i].value ELSE s) \in S
    <2>1. CASE params[i].key = key
        <3>1. params[i].value \in Seq(P) /\ s \in Seq(P)
            BY <1>1, <1>2, <2>1
        <3>2. s \o params[i].value \in Seq(P)
            BY <3>1, ConcatProperties
        <3> QED
            BY <1>2, <2>1, <3>2
    <2>2. CASE params[i].key # key
        BY <2>2
    <2> QED
        BY <2>1, <2>2
<1>5. PICK step : step = [i \in 1..n |->
          [s \in S |-> IF params[i].key = key THEN s \o params[i].value ELSE s]]
    OBVIOUS
<1>6. step \in [1..n -> [S -> S]]
    BY <1>4, <1>5
<1>7. PICK f \in [0..n -> S] : IsFold(f, n, <<>>, step)
    BY <1>3, <1>6, FoldsExist
<1>8. f = [i \in 0..n |-> IF i = 0 THEN <<>>
                          ELSE IF params[i].key = key THEN f[i - 1] \o params[i].value
                          ELSE f[i - 1]]
    <2>1. f[0] = <<>>
        BY <1>7 DEF IsFold
    <2>2. ASSUME NEW i \in 0..n, i # 0
          PROVE  f[i] = IF params[i].key = key THEN f[i - 1] \o params[i].value ELSE f[i - 1]
        <3>1. i \in 1..n /\ i - 1 \in 0..n
            BY <2>2
        <3>2. f[i - 1] \in S /\ f[i] = step[i][f[i - 1]]
            BY <1>7, <3>1 DEF IsFold
        <3> QED
            BY <1>5, <3>1, <3>2
    <2> QED
        BY <1>7, <2>1, <2>2
<1>9. PICK u : u = CHOOSE g : g = [i \in 0..n |->
                      IF i = 0 THEN <<>>
                      ELSE IF params[i].key = key THEN g[i - 1] \o params[i].value
                      ELSE g[i - 1]]
    OBVIOUS
<1>10. u = [i \in 0..n |-> IF i = 0 THEN <<>>
                           ELSE IF params[i].key = key THEN u[i - 1] \o params[i].value
                           ELSE u[i - 1]]
    BY <1>8, <1>9
<1>11. AllParams(r, key) = u[n]
    BY <1>1, <1>9 DEF AllParams
<1>12. PICK K \in SUBSET Nat :
           K = {k \in Nat : k <= n => u[k] \in S /\ Range(u[k]) = Listed(params, key, k)}
    OBVIOUS
<1>13. 0 \in K
    <2>1. u[0] = <<>>
        BY <1>10
    <2>2. Range(<<>>) = {}
        BY DEF Range
    <2>3. Listed(params, key, 0) = {}
        BY DEF Listed
    <2> QED
        BY <1>3, <1>12, <2>1, <2>2, <2>3
<1>14. ASSUME NEW k \in K
       PROVE  k + 1 \in K
    <2>1. k \in Nat /\ k + 1 \in Nat
        BY <1>12
    <2>2. SUFFICES ASSUME k + 1 <= n
                   PROVE  u[k + 1] \in S /\ Range(u[k + 1]) = Listed(params, key, k + 1)
        BY <1>12, <2>1
    <2>3. k + 1 \in 1..n /\ k + 1 \in 0..n /\ (k + 1) - 1 = k /\ k + 1 # 0
        BY <2>1, <2>2
    <2>4. u[k] \in S /\ Range(u[k]) = Listed(params, key, k)
        BY <1>12, <2>1, <2>2
    <2>5. u[k + 1] = IF params[k + 1].key = key THEN u[k] \o params[k + 1].value ELSE u[k]
        BY <1>10, <2>3
    <2>6. u[k + 1] \in S
        BY <1>4, <2>3, <2>4, <2>5
    <2>7. CASE params[k + 1].key = key
        <3>1. params[k + 1].value \in Seq(P) /\ u[k] \in Seq(P)
            BY <1>1, <1>2, <2>3, <2>4, <2>7
        <3>2. Range(u[k] \o params[k + 1].value) = Range(u[k]) \cup Range(params[k + 1].value)
            BY <3>1, RangeOfConcat
        <3>3. {j \in 1..(k + 1) : params[j].key = key}
                  = {j \in 1..k : params[j].key = key} \cup {k + 1}
            BY <2>1, <2>7
        <3>4. Listed(params, key, k + 1) = Listed(params, key, k) \cup Range(params[k + 1].value)
            BY <3>3 DEF Listed
        <3> QED
            BY <2>4, <2>5, <2>6, <2>7, <3>2, <3>4
    <2>8. CASE params[k + 1].key # key
        <3>1. {j \in 1..(k + 1) : params[j].key = key} = {j \in 1..k : params[j].key = key}
            BY <2>1, <2>8
        <3> QED
            BY <2>4, <2>5, <2>8, <3>1 DEF Listed
    <2> QED
        BY <2>7, <2>8
<1>15. K = Nat
    BY <1>13, <1>14, AllNaturals
<1> QED
    BY <1>1, <1>2, <1>11, <1>12, <1>15

\* FirstParam is of a parameter of the key, and there if there is one.
LEMMA FirstParamIsGiven ==
    ASSUME NEW r, NEW key, NEW n \in Nat, DOMAIN r.data.params = 1..n
    PROVE  LET of == {p \in Range(r.data.params) : p.key = key}
           IN /\ FirstParam(r, key) \subseteq {p.value : p \in of}
              /\ FirstParam(r, key) = {} <=> of = {}
<1>1. PICK params : params = r.data.params
    OBVIOUS
<1>2. PICK places \in SUBSET (1..n) : places = {i \in 1..n : params[i].key = key}
    OBVIOUS
<1>3. FirstParam(r, key) = {params[i].value :
          i \in {i \in 1..n : params[i].key = key /\ \A j \in 1..(i - 1) : params[j].key # key}}
    BY <1>1 DEF FirstParam
<1>4. {p \in Range(params) : p.key = key} = {params[i] : i \in places}
    BY <1>1, <1>2 DEF Range
<1>5. ASSUME NEW i \in 1..n, params[i].key = key
      PROVE  FirstParam(r, key) # {}
    <2>1. PICK least \in places : \A j \in places : least <= j
        <3>1. i \in places
            BY <1>2, <1>5
        <3> QED
            BY <3>1, LeastMember
    <2>2. least \in 1..n /\ params[least].key = key
        BY <1>2
    <2>3. \A j \in 1..(least - 1) : params[j].key # key
        BY <1>2, <2>1, <2>2
    <2> QED
        BY <1>3, <2>2, <2>3
<1>6. FirstParam(r, key) \subseteq {p.value : p \in {p \in Range(params) : p.key = key}}
    BY <1>2, <1>3, <1>4
<1>7. places = {} => FirstParam(r, key) = {}
    BY <1>2, <1>3
<1>8. places # {} => FirstParam(r, key) # {}
    BY <1>2, <1>5
<1>9. places = {} <=> {p \in Range(params) : p.key = key} = {}
    BY <1>4
<1> QED
    BY <1>1, <1>6, <1>7, <1>8, <1>9

\* What EndpointsReadBack says of a binding r that was read from a held record.
ReadsBack(r, held) ==
    LET data == held.data
        params(key) == {p \in Range(data.params) : p.key = key}
        listed == UNION {Range(p.value) : p \in params("alpn")}
        protocols == EffectiveAlpn(r)
    IN /\ EffectiveTarget(r) = IF data.target = Root THEN held.name ELSE data.target
       /\ Range(protocols) = IF data.priority = 0 THEN {}
                             ELSE IF params("no-default-alpn") # {} THEN listed
                             ELSE listed \cup {"http/1.1"}
       /\ "http/1.1" \notin listed =>
              \A k, l \in DOMAIN protocols :
                  protocols[k] = "http/1.1" /\ protocols[l] = "http/1.1" => k = l
       /\ \A p \in {"h2", "h3"} : Supports(r, p) <=> data.priority # 0 /\ p \in listed
       /\ Port(r) = {} <=> params("port") = {}
       /\ Port(r) \subseteq {p.value : p \in params("port")}

\* A binding reads as the record it was extracted from means it.
LEMMA BindingReadsBack ==
    ASSUME NEW held, IsBinding(held.data)
    PROVE  ReadsBack(Extract("Https", held), held)
<1>1. PICK data : data = held.data
    OBVIOUS
<1>2. PICK r : r = Extract("Https", held)
    OBVIOUS
<1>3. r.data = data /\ r.owner = held.name
    BY <1>1, <1>2 DEF Extract
<1>4. PICK n \in Nat : n = Len(data.params) /\ DOMAIN data.params = 1..n
    BY <1>1 DEF IsBinding
<1>5. PICK listed : listed =
          UNION {Range(p.value) : p \in {p \in Range(data.params) : p.key = "alpn"}}
    OBVIOUS
<1>6. PICK alpn \in Seq(STRING) : alpn = Alpn(r) /\ Range(alpn) = listed
    <2>1. \A j \in 1..n : data.params[j].key = "alpn" => data.params[j].value \in Seq(STRING)
        BY <1>1, <1>4 DEF IsBinding
    <2>2. /\ AllParams(r, "alpn") \in Seq(STRING)
          /\ Range(AllParams(r, "alpn")) = Listed(data.params, "alpn", n)
        BY <1>3, <1>4, <2>1, AllParamsAreListed
    <2>3. Listed(data.params, "alpn", n) = listed
        <3>1. {p \in Range(data.params) : p.key = "alpn"}
                  = {data.params[j] : j \in {j \in 1..n : data.params[j].key = "alpn"}}
            BY <1>4 DEF Range
        <3> QED
            BY <1>5, <3>1 DEF Listed
    <2> QED
        BY <2>2, <2>3 DEF Alpn
<1>7. PICK optout : optout = {p \in Range(data.params) : p.key = "no-default-alpn"}
    OBVIOUS
<1>8. NoDefaultAlpn(r) <=> optout # {}
    BY <1>3, <1>4, <1>7, FirstParamIsGiven DEF NoDefaultAlpn
<1>9. /\ Port(r) = {} <=> {p \in Range(data.params) : p.key = "port"} = {}
      /\ Port(r) \subseteq {p.value : p \in {p \in Range(data.params) : p.key = "port"}}
    BY <1>3, <1>4, FirstParamIsGiven DEF Port
<1>10. EffectiveTarget(r) = IF data.target = Root THEN held.name ELSE data.target
    BY <1>3 DEF EffectiveTarget
<1>11. \A p \in {"h2", "h3"} : Supports(r, p) <=> data.priority # 0 /\ p \in listed
    BY <1>3, <1>6 DEF Supports, IsAlias
<1>12. PICK protocols : protocols = EffectiveAlpn(r)
    OBVIOUS
<1>13. protocols = IF data.priority = 0 THEN <<>>
                   ELSE IF optout # {} \/ "http/1.1" \in listed THEN alpn
                   ELSE Append(alpn, "http/1.1")
    BY <1>3, <1>6, <1>8, <1>12 DEF EffectiveAlpn, IsAlias
<1>14. PICK P : P = STRING \cup {"http/1.1"}
    OBVIOUS
<1>15. PICK longer \in Seq(P) : longer = Append(alpn, "http/1.1")
    <2>1. alpn \in Seq(P) /\ "http/1.1" \in P
        BY <1>14
    <2>2. Append(alpn, "http/1.1") \in Seq(P)
        BY <2>1
    <2> QED
        BY <2>2
<1>16. PICK m \in Nat : m = Len(alpn) /\ DOMAIN alpn = 1..m
    OBVIOUS
<1>17. /\ DOMAIN longer = 1..(m + 1) /\ longer[m + 1] = "http/1.1"
       /\ \A k \in 1..m : longer[k] = alpn[k]
    BY <1>15, <1>16
<1>18. Range(longer) = listed \cup {"http/1.1"}
    <2>1. \A k \in 1..m : longer[k] \in listed
        BY <1>6, <1>16, <1>17 DEF Range
    <2>2. \A x \in listed : \E k \in 1..m : longer[k] = x
        BY <1>6, <1>16, <1>17 DEF Range
    <2>3. Range(longer) = {longer[k] : k \in 1..(m + 1)}
        BY <1>17 DEF Range
    <2>4. 1..(m + 1) = (1..m) \cup {m + 1}
        OBVIOUS
    <2> QED
        BY <1>17, <2>1, <2>2, <2>3, <2>4
<1>19. Range(protocols) = IF data.priority = 0 THEN {}
                          ELSE IF optout # {} THEN listed
                          ELSE listed \cup {"http/1.1"}
    <2>1. data.priority = 0 => Range(protocols) = {}
        BY <1>13 DEF Range
    <2>2. data.priority # 0 /\ optout # {} => Range(protocols) = listed
        BY <1>6, <1>13
    <2>3. data.priority # 0 /\ optout = {} => Range(protocols) = listed \cup {"http/1.1"}
        BY <1>6, <1>13, <1>15, <1>18
    <2> QED
        BY <2>1, <2>2, <2>3
<1>20. ASSUME "http/1.1" \notin listed, NEW k \in DOMAIN protocols, NEW l \in DOMAIN protocols,
              protocols[k] = "http/1.1", protocols[l] = "http/1.1"
       PROVE  k = l
    <2>1. \A i \in 1..m : alpn[i] # "http/1.1"
        BY <1>6, <1>16, <1>20 DEF Range
    <2>2. protocols # alpn \/ m = 0
        BY <1>16, <1>20, <2>1
    <2>3. protocols = longer
        BY <1>13, <1>15, <1>16, <1>20, <2>1
    <2>4. k = m + 1 /\ l = m + 1
        BY <1>17, <1>20, <2>1, <2>3
    <2> QED
        BY <2>4
<1>21. optout = {p \in Range(held.data.params) : p.key = "no-default-alpn"}
    BY <1>1, <1>7
<1> QED
    BY <1>1, <1>2, <1>5, <1>9, <1>10, <1>11, <1>12, <1>19, <1>20, <1>21 DEF ReadsBack

-----------------------------------------------------------------------------
(* Verdicts. *)

Queries == [id : {"ours"}, question : {Question(Host, TypeOf)}, edns : BOOLEAN]

\* The answer that holds what the nameserver does, and what VerdictIsOwn says of a verdict.
Own == Whole("ours", Question(Host, TypeOf), zone)

Honest(v) ==
    /\ v.kind = "records" =>
           /\ zone.rcode = "NoError"
           /\ Len(v.records) = Len(Held)
           /\ DOMAIN v.records = DOMAIN Held
           /\ \A i \in DOMAIN Held : /\ v.records[i] = Extract(zone.kind, Held[i])
                                   /\ v.records[i].kind = zone.kind
                                   /\ v.records[i].data = Held[i].data
                                   /\ v.ttl <= Held[i].ttl
    /\ v.kind = "nodata" =>
           /\ zone.rcode = "NoError" /\ Held = <<>>
           /\ \A soa \in zone.soa : v.ttl <= soa.ttl /\ v.ttl <= soa.minimum
    /\ v.kind = "nxdomain" => zone.rcode = "NameError"
    /\ v.kind = "follow" =>
           /\ Held = <<>>
           /\ \E i \in DOMAIN zone.answers : /\ IsCname(zone.answers[i])
                                            /\ zone.answers[i].data = v.target

\* What a nameserver says in the place of its answer is an error.
LEMMA RefusalsAreErrors ==
    ASSUME query \in Queries, NEW q \in Queries, NEW resp \in Rejections(q) \cup Faults(q)
    PROVE  Verdict(resp).kind = "error"
<1>1. q.id = "ours" /\ q.question = Question(Host, TypeOf)
    BY DEF Queries
<1>2. query.id = "ours" /\ query.question = Question(Host, TypeOf)
    BY DEF Queries
<1>3. CASE resp \in Rejections(q)
    <2>1. resp.form = "whole" /\ resp.rcode = "FormatError"
        BY <1>3 DEF Rejections, Whole
    <2>2. IsRetryable(resp)
        BY <2>1 DEF IsRetryable, HasHeader
    <2> QED
        BY <2>2 DEF Verdict, ErrorOf
<1>4. CASE resp \in Faults(q)
    <2>1. CASE \E rcode \in {"ServerFailure", "NotImplemented", "NotAuth"} :
                   resp = Whole(q.id, q.question, [Empty EXCEPT !.rcode = rcode])
        <3>1. PICK rcode \in {"ServerFailure", "NotImplemented", "NotAuth"} :
                  resp = Whole(q.id, q.question, [Empty EXCEPT !.rcode = rcode])
            BY <2>1
        <3>2. resp.rcode = rcode /\ resp.form = "whole"
            BY <3>1 DEF Whole, Empty
        <3>3. CheckResponse(resp, query) \in {"Unexpected", "ServerFailure"}
            BY <3>1, <3>2 DEF CheckResponse
        <3> QED
            BY <3>2, <3>3 DEF Verdict, ErrorOf, Parses
    <2>2. CASE \E form \in {"short", "garbled"} :
                   resp = [Whole(q.id, q.question, Empty) EXCEPT !.form = form]
        <3>1. resp.form \in {"short", "garbled"}
            BY <2>2 DEF Whole
        <3>2. ~Parses(resp)
            BY <3>1 DEF Parses
        <3> QED
            BY <3>2 DEF Verdict, ErrorOf
    <2>3. CASE resp = Whole(q.id, Question(Stranger, q.question.type), zone)
        <3>1. /\ resp.questions = <<Question(Stranger, q.question.type)>>
              /\ resp.form = "whole"
            BY <2>3 DEF Whole
        <3>2. Head(resp.questions) = Question(Stranger, q.question.type)
            BY <3>1
        <3>3. ~SameQuestion(Head(resp.questions), query.question)
            BY <1>2, <3>2, ExchangeAssumption DEF SameQuestion, Question, NamesEqual
        <3>4. CheckResponse(resp, query) = "Unexpected"
            BY <3>3 DEF CheckResponse
        <3> QED
            BY <3>4 DEF Verdict, ErrorOf
    <2> QED
        BY <1>4, <2>1, <2>2, <2>3 DEF Faults
<1> QED
    BY <1>3, <1>4

\* What ExchangeAssumption says of the zone.
LEMMA ZoneFacts ==
    ASSUME zone \in Zones
    PROVE  /\ zone.kind \in RecordKind /\ zone.rcode \in {"NoError", "NameError"}
           /\ IsAnswers(zone.answers)
           /\ \A rr \in Range(zone.answers) : rr.type = "TXT" => rr.data \in Seq(Seq(STRING))
           /\ \A rr \in Range(zone.answers) : rr.type = "HTTPS" => IsBinding(rr.data)
           /\ \A soa \in zone.soa : soa.ttl \in Nat /\ soa.minimum \in Nat
           /\ \A soa, other \in zone.soa : soa = other
<1>1. /\ Len(zone.answers) \in Nat /\ DOMAIN zone.answers = 1..Len(zone.answers)
      /\ \A i \in 1..Len(zone.answers) :
            /\ zone.answers[i].ttl \in 0..U32Max
            /\ zone.answers[i].type = "TXT" => zone.answers[i].data \in Seq(Seq(STRING))
            /\ zone.answers[i].type = "HTTPS" => IsBinding(zone.answers[i].data)
    BY ExchangeAssumption
<1>2. \A rr \in Range(zone.answers) :
          /\ rr.ttl \in 0..U32Max /\ (rr.type = "TXT" => rr.data \in Seq(Seq(STRING)))
          /\ rr.type = "HTTPS" => IsBinding(rr.data)
    BY <1>1 DEF Range
<1> QED
    BY <1>1, <1>2, ExchangeAssumption DEF IsAnswers

\* An absence is cached no longer than the SOA beside it says.
LEMMA AbsenceIsBounded ==
    ASSUME zone \in Zones, NEW soa \in zone.soa
    PROVE  /\ NegativeCacheTtl(NegativeTtl(Own)) <= soa.ttl
           /\ NegativeCacheTtl(NegativeTtl(Own)) <= soa.minimum
<1>1. /\ soa.ttl \in Nat /\ soa.minimum \in Nat
      /\ \A other \in zone.soa : other = soa
    BY ZoneFacts
<1>2. NegativeMax \in Nat
    BY MessageAssumption
<1>3. PICK least \in Nat : least = IF soa.ttl < soa.minimum THEN soa.ttl ELSE soa.minimum
    BY <1>1
<1>4. Own.soa = zone.soa
    BY DEF Own, Whole
<1>5. NegativeTtl(Own) = {least}
    BY <1>1, <1>3, <1>4 DEF NegativeTtl
<1>6. NegativeCacheTtl({least}) = IF least < NegativeMax THEN least ELSE NegativeMax
    BY DEF NegativeCacheTtl
<1> QED
    BY <1>1, <1>2, <1>3, <1>5, <1>6

\* The records of a response are what it holds that is wanted, each as it is.
LEMMA RecordsAreHeld ==
    ASSUME zone \in Zones
    PROVE  LET parsed == ParseRecords(zone.kind, zone.answers, Host)
               typed == TypedLookup(zone.kind, parsed.records)
           IN /\ parsed.records = <<>> <=> Held = <<>>
              /\ Len(typed) = Len(Held) /\ DOMAIN typed = DOMAIN Held
              /\ \A i \in DOMAIN Held : /\ typed[i] = Extract(zone.kind, Held[i])
                                      /\ typed[i].kind = zone.kind
                                      /\ typed[i].data = Held[i].data
                                      /\ parsed.ttl <= Held[i].ttl
<1>1. PICK held : held = Held
    OBVIOUS
<1>2. PICK parsed : parsed = ParseRecords(zone.kind, zone.answers, Host)
    OBVIOUS
<1>3. PICK records : records = parsed.records
    OBVIOUS
<1>4. IsAnswers(zone.answers) /\ TypeOf = DnsType[zone.kind] /\ held = Wanted(zone.answers, Host, TypeOf)
    BY <1>1, ZoneFacts DEF TypeOf, Held
<1>5. /\ records = [i \in DOMAIN held |-> Extract(zone.kind, held[i])]
      /\ parsed.ttl = LeastTtl(zone.answers, Host, TypeOf)
    BY <1>2, <1>3, <1>4 DEF ParseRecords
<1>6. /\ \E n \in Nat : DOMAIN held = 1..n
      /\ \A k \in DOMAIN held : \E i \in WantedAt(zone.answers, Host, TypeOf) :
            held[k] = zone.answers[i] /\ zone.answers[i].type = TypeOf
    BY <1>4, WantedFacts
<1>7. PICK n \in Nat : DOMAIN held = 1..n
    BY <1>6
<1>8. ASSUME NEW k \in 1..n
      PROVE  /\ records[k] = Extract(zone.kind, held[k])
             /\ records[k].kind = zone.kind /\ records[k].data = held[k].data
             /\ parsed.ttl <= held[k].ttl
    <2>1. PICK i \in WantedAt(zone.answers, Host, TypeOf) :
              held[k] = zone.answers[i] /\ zone.answers[i].type = TypeOf
        BY <1>6, <1>7
    <2>2. i \in DOMAIN zone.answers
        BY DEF WantedAt, OnChain
    <2>3. held[k] \in Range(zone.answers) /\ held[k].type = TypeOf
        BY <2>1, <2>2 DEF Range
    <2>4. parsed.ttl <= held[k].ttl
        BY <1>4, <1>5, <2>1, LeastTtlBounds
    <2>5. records[k] = Extract(zone.kind, held[k])
        BY <1>5, <1>7
    <2>6. zone.kind = "Txt" => TxtStrings(held[k].data) = held[k].data
        <3>1. SUFFICES ASSUME zone.kind = "Txt"
                       PROVE  TxtStrings(held[k].data) = held[k].data
            OBVIOUS
        <3>2. held[k].type = "TXT"
            BY <1>4, <2>3, <3>1 DEF DnsType
        <3>3. held[k].data \in Seq(Seq(STRING))
            BY <2>3, <3>2, ZoneFacts
        <3> QED
            BY <3>3, TxtReadsBack
    <2>7. records[k].kind = zone.kind /\ records[k].data = held[k].data
        BY <2>5, <2>6 DEF Extract
    <2> QED
        BY <2>4, <2>5, <2>7
<1>9. /\ DOMAIN records = 1..n /\ records = [k \in 1..n |-> records[k]]
      /\ Len(held) = n /\ Len(records) = n
    BY <1>5, <1>7
<1>10. {i \in DOMAIN records : records[i].kind = zone.kind} = 1..n
    BY <1>8, <1>9
<1>11. TypedLookup(zone.kind, records) = records
    <2>1. Picked(records, 1..n) = records
        BY <1>9, PickedAll
    <2> QED
        BY <1>10, <2>1 DEF TypedLookup
<1>12. records = <<>> <=> held = <<>>
    <2>1. held = <<>> => n = 0
        BY <1>9
    <2>2. n = 0 => records = <<>> /\ \A k \in 1..n : FALSE
        BY <1>5, <1>7
    <2>3. records = <<>> => n = 0
        BY <1>9
    <2>4. n = 0 => held = <<>>
        <3>1. held = <<>> <=> WantedAt(zone.answers, Host, TypeOf) = {}
            BY <1>4, WantedFacts
        <3>2. PICK m \in Nat : DOMAIN zone.answers = 1..m
            BY <1>4 DEF IsAnswers
        <3>3. PICK I \in SUBSET (1..m) : I = WantedAt(zone.answers, Host, TypeOf)
            BY <3>2 DEF WantedAt, OnChain
        <3>4. /\ DOMAIN held = 1..Cardinality(I) /\ Cardinality(I) \in Nat
              /\ held = <<>> <=> I = {}
            BY <1>4, <3>2, <3>3, PickedMembers DEF Wanted
        <3>5. I = {} <=> Cardinality(I) = 0
            BY <3>2, PlacesAreRanked
        <3>6. n = 0 => Cardinality(I) = 0
            BY <1>7, <3>4
        <3> QED
            BY <3>4, <3>5, <3>6
    <2> QED
        BY <2>1, <2>2, <2>3, <2>4
<1> QED
    BY <1>1, <1>2, <1>3, <1>7, <1>8, <1>9, <1>11, <1>12

\* The verdict on a nameserver's own answer is honest, and no error.
LEMMA OwnVerdict ==
    ASSUME zone \in Zones, query \in Queries
    PROVE  /\ Honest(Verdict(Own))
           /\ Verdict(Own).kind \in {"records", "nodata", "nxdomain", "follow"}
<1>1. query.id = "ours" /\ query.question = Question(Host, TypeOf)
    BY DEF Queries
<1>2. /\ Own.form = "whole" /\ Own.rcode = zone.rcode /\ Own.qr /\ Own.id = "ours"
      /\ Own.questions = <<Question(Host, TypeOf)>> /\ Own.answers = zone.answers
    BY DEF Own, Whole
<1>3. Parses(Own)
    BY <1>2 DEF Parses
<1>4. zone.rcode \in {"NoError", "NameError"} /\ IsAnswers(zone.answers)
    BY ZoneFacts
<1>5. ~IsRetryable(Own)
    BY <1>2, <1>4 DEF IsRetryable
<1>6. Len(Own.questions) = 1 /\ SameQuestion(Head(Own.questions), query.question)
    BY <1>1, <1>2 DEF SameQuestion, Question, NamesEqual
<1>7. CheckResponse(Own, query) = IF zone.rcode = "NoError" THEN "ok" ELSE "NxDomain"
    BY <1>1, <1>2, <1>4, <1>6 DEF CheckResponse
<1>8. PICK parsed : parsed = ParseRecords(zone.kind, zone.answers, Host)
    OBVIOUS
<1>9. PICK open : open = Unresolved(zone.answers, Host, DnsType[zone.kind])
    OBVIOUS
<1>10. PICK v : v = Verdict(Own)
    OBVIOUS
<1>11. v = IF zone.rcode # "NoError" THEN [kind |-> "nxdomain", ttl |-> NegativeCacheTtl({})]
           ELSE IF open # {} THEN [kind |-> "follow", target |-> CHOOSE n \in open : TRUE]
           ELSE IF parsed.records = <<>>
                THEN [kind |-> "nodata", ttl |-> NegativeCacheTtl(NegativeTtl(Own))]
           ELSE [kind |-> "records", records |-> TypedLookup(zone.kind, parsed.records),
                 ttl |-> parsed.ttl]
    BY <1>2, <1>3, <1>5, <1>7, <1>8, <1>9, <1>10 DEF Verdict
<1>12. CASE zone.rcode # "NoError"
    <2>1. v.kind = "nxdomain" /\ zone.rcode = "NameError"
        BY <1>4, <1>11, <1>12
    <2> QED
        BY <1>10, <2>1 DEF Honest
<1>13. CASE zone.rcode = "NoError" /\ open # {}
    <2>1. PICK n \in open : v = [kind |-> "follow", target |-> n]
        BY <1>11, <1>13
    <2>2. /\ WantedAt(zone.answers, Host, TypeOf) = {}
          /\ \E i \in DOMAIN zone.answers : IsCname(zone.answers[i]) /\ zone.answers[i].data = n
        BY <1>9, <2>1, UnresolvedIsAliased DEF TypeOf
    <2>3. Held = <<>>
        BY <1>4, <2>2, WantedFacts DEF Held
    <2>4. v.kind = "follow" /\ v.target = n
        BY <2>1
    <2> QED
        BY <1>10, <2>2, <2>3, <2>4 DEF Honest
<1>14. CASE zone.rcode = "NoError" /\ open = {} /\ parsed.records = <<>>
    <2>1. v.kind = "nodata" /\ v.ttl = NegativeCacheTtl(NegativeTtl(Own))
        BY <1>11, <1>14
    <2>2. Held = <<>>
        BY <1>8, <1>14, RecordsAreHeld
    <2>3. \A soa \in zone.soa : v.ttl <= soa.ttl /\ v.ttl <= soa.minimum
        BY <2>1, AbsenceIsBounded
    <2> QED
        BY <1>10, <1>14, <2>1, <2>2, <2>3 DEF Honest
<1>15. CASE zone.rcode = "NoError" /\ open = {} /\ parsed.records # <<>>
    <2>1. /\ v.kind = "records" /\ v.ttl = parsed.ttl
          /\ v.records = TypedLookup(zone.kind, parsed.records)
        BY <1>11, <1>15
    <2>2. /\ Len(v.records) = Len(Held) /\ DOMAIN v.records = DOMAIN Held
          /\ \A i \in DOMAIN Held : /\ v.records[i] = Extract(zone.kind, Held[i])
                                  /\ v.records[i].kind = zone.kind
                                  /\ v.records[i].data = Held[i].data
                                  /\ v.ttl <= Held[i].ttl
        BY <1>8, <2>1, RecordsAreHeld
    <2> QED
        BY <1>10, <1>15, <2>1, <2>2 DEF Honest
<1> QED
    BY <1>12, <1>13, <1>14, <1>15


-----------------------------------------------------------------------------
(* Messages. *)

\* A query and its retry differ in nothing that an answer is compared with.
LEMMA RetriesAskTheSame ==
    ASSUME query \in Queries, NEW q \in Queries
    PROVE  /\ OtherAnswers(q) = OtherAnswers(query)
           /\ \A resp : AnswersQuery(resp, q) <=> AnswersQuery(resp, query)
<1>1. q.id = query.id /\ q.question = query.question
    BY DEF Queries
<1> QED
    BY <1>1 DEF OtherAnswers, AnswersQuery

\* No answer to another query is taken for one to this query, and no query is.
LEMMA OthersAreRefused ==
    ASSUME zone \in Zones, query \in Queries
    PROVE  /\ \A resp \in OtherAnswers(query) : ~AnswersQuery(resp, query)
           /\ ~AnswersQuery([Whole(query.id, query.question, Empty) EXCEPT !.qr = FALSE], query)
<1>1. query.id = "ours" /\ query.question = Question(Host, TypeOf)
    BY DEF Queries
<1>2. TypeOf # "SOA"
    BY ZoneFacts DEF TypeOf, DnsType, RecordKind
<1>3. ASSUME NEW resp, NEW n, NEW type, resp = Whole(query.id, Question(n, type), Empty),
             ~NamesEqual(n, Host) \/ type # TypeOf
      PROVE  ~AnswersQuery(resp, query)
    <2>1. resp.form = "whole" /\ resp.questions = <<Question(n, type)>>
        BY <1>3 DEF Whole
    <2>2. Head(resp.questions) = Question(n, type) /\ resp.questions # <<>>
        BY <2>1
    <2>3. ~SameQuestion(Head(resp.questions), query.question)
        BY <1>1, <1>3, <2>2 DEF SameQuestion, Question
    <2> QED
        BY <2>1, <2>2, <2>3 DEF AnswersQuery, Parses
<1>4. ~AnswersQuery(Whole("other", query.question, Empty), query)
    BY <1>1 DEF AnswersQuery, Whole
<1>5. ~NamesEqual(Stranger, Host)
    BY ExchangeAssumption DEF NamesEqual
<1>6. ~AnswersQuery(Whole(query.id, Question(Stranger, query.question.type), Empty), query)
    BY <1>3, <1>5
<1>7. ~AnswersQuery(Whole(query.id, Question(Host, "SOA"), Empty), query)
    BY <1>2, <1>3
<1>8. ~AnswersQuery([Whole(query.id, query.question, Empty) EXCEPT !.qr = FALSE], query)
    BY DEF AnswersQuery, Whole
<1> QED
    BY <1>4, <1>6, <1>7, <1>8 DEF OtherAnswers

\* A reply is what the nameserver holds, or is refused; a nameserver that is not
\* faulty refuses only the query with EDNS, and then by a FORMERR.
LEMMA RepliesAreOwn ==
    ASSUME NEW q \in Queries, NEW resp \in Replies(q)
    PROVE  /\ resp = Own \/ resp \in Rejections(q) \cup Faults(q)
           /\ server # "faulty" => resp = Own \/ (IsFormatError(resp) /\ q.edns)
           /\ resp.answers = <<>> \/ \E question : resp = Whole(q.id, question, zone)
<1>1. q.id = "ours" /\ q.question = Question(Host, TypeOf)
    BY DEF Queries
<1>2. CASE resp = Whole(q.id, q.question, zone)
    <2>1. resp = Own
        BY <1>1, <1>2 DEF Own
    <2> QED
        BY <1>2, <2>1
<1>3. CASE resp \in Rejections(q) /\ q.edns
    <2>1. PICK reject : reject = Whole(q.id, q.question, [Empty EXCEPT !.rcode = "FormatError"])
        OBVIOUS
    <2>2. resp = reject \/ resp = [reject EXCEPT !.questions = <<>>]
        BY <1>3, <2>1 DEF Rejections
    <2>3. resp.form = "whole" /\ resp.rcode = "FormatError" /\ resp.answers = <<>>
        BY <2>1, <2>2 DEF Whole, Empty
    <2>4. IsFormatError(resp)
        BY <2>3 DEF IsFormatError, HasHeader
    <2> QED
        BY <1>3, <2>3, <2>4
<1>4. CASE resp \in Faults(q) /\ server = "faulty"
    <2>1. resp.answers = <<>> \/ resp = Whole(q.id, Question(Stranger, q.question.type), zone)
        BY <1>4 DEF Faults, Whole, Empty
    <2> QED
        BY <1>4, <2>1
<1> QED
    BY <1>2, <1>3, <1>4 DEF Replies

\* A datagram from the nameserver that is neither cut by the socket nor marked as
\* truncated is a whole reply.
LEMMA DatagramsAreReplies ==
    ASSUME query \in Queries, NEW d \in Datagrams(query), ~d.full, ~IsTruncated(d.resp)
    PROVE  d.resp \in Replies(query)
<1>1. PICK resp \in Replies(query) :
          d \in IF zone.large /\ resp.answers # <<>>
               THEN {Datagram("server", FALSE, [Cut(resp) EXCEPT !.tc = TRUE]),
                     Datagram("server", FALSE, [resp EXCEPT !.tc = TRUE, !.form = "garbled"]),
                     Datagram("server", TRUE, [resp EXCEPT !.form = "garbled"])}
               ELSE {Datagram("server", FALSE, resp)}
    BY DEF Datagrams
<1>2. CASE resp.answers # <<>> /\ d # Datagram("server", FALSE, resp)
    <2>1. PICK question : resp = Whole(query.id, question, zone)
        BY <1>2, RepliesAreOwn
    <2> DEFINE short == [Cut(resp) EXCEPT !.tc = TRUE]
               garbled == [resp EXCEPT !.form = "garbled"]
               marked == [resp EXCEPT !.tc = TRUE, !.form = "garbled"]
    <2> HIDE DEF short, garbled, marked
    <2>2. d \in {Datagram("server", FALSE, short), Datagram("server", FALSE, marked),
                 Datagram("server", TRUE, garbled)}
        BY <1>1, <1>2 DEF short, garbled, marked
    <2>3. \/ d.resp = short
          \/ d.resp = marked
          \/ d.full
        BY <2>2 DEF Datagram
    <2>4. d.full \/ (d.resp.tc /\ d.resp.form # "short")
        BY <2>1, <2>3 DEF Whole, Cut, short, marked
    <2> QED
        BY <2>4 DEF IsTruncated, HasHeader
<1>3. CASE d = Datagram("server", FALSE, resp)
    BY <1>1, <1>3 DEF Datagram
<1> QED
    BY <1>1, <1>2, <1>3


-----------------------------------------------------------------------------
(* The invariant. *)

\* What a nameserver sends to the query and to its retry, and whatever waits on a
\* connection.
Theirs == UNION {Replies(q) : q \in Queries}
Frames == OtherAnswers(query) \cup Theirs

GivenInv == /\ zone \in Zones /\ query \in Queries
            /\ protocol \in {"udp", "stream", "https"}
            /\ server \in {"healthy", "picky", "faulty"}

CountInv == /\ sockets \in 0..Sockets
            /\ sockets > 0 => protocol = "udp"
            /\ due \in BOOLEAN
            /\ strays \in 0..MaxStrays
            /\ repeats \in 0..MaxRepeats

\* Where nothing is sent twice, what answers the query on a connection is the last
\* frame, and was sent for this query.
ConnInv ==
    /\ conn \in [state : {"closed", "idle", "pooled", "fresh"}, frames : Seq(Frames),
                 answered : BOOLEAN]
    /\ conn.state = "closed" => conn.frames = <<>>
    /\ conn.answered => InUse
    /\ InUse => protocol # "https"
    /\ repeats = 0 => \A i \in 1..Len(conn.frames) :
                          AnswersQuery(conn.frames[i], query) =>
                              /\ conn.answered /\ i = Len(conn.frames)
                              /\ conn.frames[i] \in Replies(query)

\* A datagram the resolver takes is the nameserver's, for this query.
InboxInv ==
    /\ inbox # {} => protocol = "udp"
    /\ \A d \in inbox :
          d.from = "server" /\ AnswersQuery(d.resp, query) /\ ~d.full /\ ~IsTruncated(d.resp)
              => d.resp \in Replies(query)

\* The attempt's response, after which its sockets and connection are gone.
ResponseInv ==
    /\ \/ response = {}
       \/ \E resp \in Theirs : /\ response = {resp}
                               /\ repeats = 0 => resp \in Replies(query)
    /\ response # {} => inbox = {} /\ ~InUse

ResultInv ==
    /\ result.kind \in {"pending", "error", "records", "nodata", "nxdomain", "follow"}
    /\ Honest(result)
    /\ HealthyIsHeard

Inv == GivenInv /\ CountInv /\ ConnInv /\ InboxInv /\ ResponseInv /\ ResultInv

\* What a reply is judged to be.
LEMMA VerdictsOnReplies ==
    ASSUME zone \in Zones, query \in Queries, NEW resp \in Theirs
    PROVE  /\ Verdict(resp).kind \in {"error", "records", "nodata", "nxdomain", "follow"}
           /\ Honest(Verdict(resp))
           /\ server # "faulty" /\ resp \in Replies(query) /\ Verdict(resp).kind = "error"
                  => IsFormatError(resp) /\ query.edns
<1>1. PICK v : v = Verdict(resp)
    OBVIOUS
<1>2. PICK q \in Queries : resp \in Replies(q)
    BY DEF Theirs
<1>3. CASE resp = Own
    BY <1>3, OwnVerdict
<1>4. CASE resp \in Rejections(q) \cup Faults(q)
    <2>1. v.kind = "error"
        BY <1>1, <1>4, RefusalsAreErrors
    <2>2. Honest(v)
        BY <2>1 DEF Honest
    <2>3. server # "faulty" /\ resp \in Replies(query)
              => resp = Own \/ (IsFormatError(resp) /\ query.edns)
        BY RepliesAreOwn
    <2> QED
        BY <1>1, <1>3, <2>1, <2>2, <2>3
<1> QED
    BY <1>2, <1>3, <1>4, RepliesAreOwn

\* A step that leaves the query alone leaves what can be sent to it.
LEMMA GivenStays ==
    ASSUME Inv, UNCHANGED given
    PROVE  /\ Queries' = Queries /\ Theirs' = Theirs
           /\ query' = query => /\ GivenInv' /\ Frames' = Frames
                                /\ Replies(query)' = Replies(query)
           /\ query' = query /\ UNCHANGED <<conn, repeats>> => ConnInv'
           /\ query' = query /\ inbox' \subseteq inbox => InboxInv'
           /\ response' = {} => ResponseInv'
           /\ result' = result /\ repeats' \in Nat /\ repeats' >= repeats => ResultInv'
           /\ (\/ result'.kind = "pending"
               \/ result'.kind = "error" /\ result'.error \in {"Timeout", "Transport"})
                  => ResultInv'
<1>1. protocol' = protocol /\ server' = server /\ zone' = zone
    BY DEF given
<1>2. Queries' = Queries
    BY <1>1 DEF Queries, TypeOf
<1>3. ASSUME NEW q
      PROVE  Replies(q)' = Replies(q)
    BY <1>1 DEF Replies, Faults
<1>4. Theirs' = Theirs
    BY <1>1, <1>2, <1>3 DEF Theirs, Replies, Faults
<1>5. ASSUME query' = query
      PROVE  /\ GivenInv' /\ Frames' = Frames
             /\ Replies(query)' = Replies(query)
    BY <1>1, <1>2, <1>3, <1>4, <1>5 DEF GivenInv, Frames, Inv, Replies, Faults
<1>6. ASSUME query' = query, UNCHANGED <<conn, repeats>>
      PROVE  ConnInv'
    BY <1>1, <1>5, <1>6 DEF ConnInv, Inv, InUse
<1>7. ASSUME query' = query, inbox' \subseteq inbox
      PROVE  InboxInv'
    BY <1>1, <1>5, <1>7 DEF InboxInv, Inv
<1>8. ASSUME response' = {}
      PROVE  ResponseInv'
    BY <1>8 DEF ResponseInv
<1>9. ASSUME result' = result, repeats' \in Nat, repeats' >= repeats
      PROVE  ResultInv'
    <2>1. repeats \in Nat
        BY ExchangeAssumption DEF Inv, CountInv
    <2>2. Honest(result)'
        BY <1>1, <1>9 DEF Inv, ResultInv, Honest, Held, TypeOf
    <2> QED
        BY <1>1, <1>9, <2>1, <2>2 DEF Inv, ResultInv, HealthyIsHeard
<1>10. ASSUME \/ result'.kind = "pending"
              \/ result'.kind = "error" /\ result'.error \in {"Timeout", "Transport"}
       PROVE  ResultInv'
    BY <1>10 DEF ResultInv, Honest, HealthyIsHeard
<1> QED
    BY <1>2, <1>4, <1>5, <1>6, <1>7, <1>8, <1>9, <1>10


\* No frame waits on a new connection, or on one that is closed.
LEMMA NothingWaits ==
    ASSUME NEW F
    PROVE  <<>> \in Seq(F) /\ 1..Len(<<>>) = {}
    OBVIOUS

\* What becomes of the connection when it is dropped, or made anew.
LEMMA ConnStarts ==
    ASSUME NEW s, s \in {"closed", "fresh"}, protocol' # "https" \/ s = "closed",
           conn' = [state |-> s, frames |-> <<>>, answered |-> FALSE]
    PROVE  ConnInv' /\ (s = "closed" => ~InUse')
<1>1. PICK frames \in Seq(Frames') : frames = <<>>
    BY NothingWaits
<1>2. conn' = [state |-> s, frames |-> frames, answered |-> FALSE]
    BY <1>1
<1>3. conn' \in [state : {"closed", "idle", "pooled", "fresh"}, frames : Seq(Frames'),
                 answered : BOOLEAN]
    BY <1>1, <1>2
<1>4. conn'.frames = <<>> /\ conn'.answered = FALSE /\ conn'.state = s
    BY <1>1, <1>2
<1> QED
    BY <1>3, <1>4, NothingWaits DEF ConnInv, InUse

\* Nothing has been sent yet, but for a leftover on a pooled connection.
LEMMA InitInv ==
    ASSUME Init
    PROVE  Inv
<1>1. query.id = "ours" /\ query \in Queries
    BY DEF Init, BuildQuery, Queries, TypeOf
<1>2. GivenInv
    BY <1>1 DEF Init, GivenInv
<1>3. CountInv
    BY ExchangeAssumption DEF Init, CountInv
<1>4. PICK frames \in Seq(Frames) :
          /\ (conn = Conn("closed", <<>>) /\ frames = <<>>) \/ conn = Conn("idle", frames)
          /\ \A i \in 1..Len(frames) : ~AnswersQuery(frames[i], query)
    <2>1. CASE conn = Closed \/ conn = Conn("idle", <<>>)
        BY <2>1, NothingWaits DEF Closed
    <2>2. CASE \E resp \in OtherAnswers(query) : conn = Conn("idle", <<resp>>)
        <3>1. PICK resp \in OtherAnswers(query) : conn = Conn("idle", <<resp>>)
            BY <2>2
        <3>2. <<resp>> \in Seq(Frames) /\ \A i \in 1..Len(<<resp>>) : <<resp>>[i] = resp
            BY DEF Frames
        <3>3. ~AnswersQuery(resp, query)
            BY <1>2, OthersAreRefused DEF GivenInv
        <3> QED
            BY <3>1, <3>2, <3>3
    <2> QED
        BY <2>1, <2>2 DEF Init
<1>5. ConnInv
    <2>1. PICK state \in {"closed", "idle"} :
              conn = Conn(state, frames) /\ (state = "closed" => frames = <<>>)
        BY <1>4
    <2>2. conn = [state |-> state, frames |-> frames, answered |-> FALSE]
        BY <2>1 DEF Conn
    <2>3. /\ conn.frames = frames /\ conn.state = state /\ conn.answered = FALSE
          /\ conn \in [state : {"closed", "idle", "pooled", "fresh"}, frames : Seq(Frames),
                       answered : BOOLEAN]
        BY <2>2
    <2> QED
        BY <1>4, <2>1, <2>3 DEF ConnInv, InUse
<1>6. InboxInv /\ ResponseInv
    BY DEF Init, InboxInv, ResponseInv
<1>7. ResultInv
    BY DEF Init, ResultInv, Honest, HealthyIsHeard, Pending
<1> QED
    BY <1>2, <1>3, <1>5, <1>6, <1>7 DEF Inv

\* A datagram from the nameserver may be a truncated reply.
LEMMA ServerDatagramInv ==
    ASSUME Inv, ServerDatagram
    PROVE  Inv'
<1>1. /\ UNCHANGED <<given, query, sockets, conn, due, strays, repeats, response, result>>
      /\ response' = {} /\ protocol = "udp" /\ protocol' = protocol
      /\ \E d \in Datagrams(query) : inbox' = inbox \cup {d}
    BY DEF ServerDatagram, Asking, given
<1>2. CountInv'
    BY <1>1 DEF CountInv, Inv
<1>3. repeats \in Nat
    BY ExchangeAssumption DEF Inv, CountInv
<1>4. GivenInv' /\ ConnInv' /\ ResponseInv' /\ ResultInv' /\ Replies(query)' = Replies(query)
    BY <1>1, <1>3, GivenStays
<1>5. InboxInv'
    BY <1>1, <1>4, DatagramsAreReplies DEF InboxInv, Inv, GivenInv
<1> QED
    BY <1>2, <1>4, <1>5 DEF Inv

\* A stray one is not taken: it comes from elsewhere, or answers something else.
LEMMA StrayDatagramInv ==
    ASSUME Inv, StrayDatagram
    PROVE  Inv'
<1>1. /\ UNCHANGED <<given, query, sockets, conn, due, repeats, response, result>>
      /\ response' = {} /\ protocol = "udp" /\ protocol' = protocol
      /\ strays < MaxStrays /\ strays' = strays + 1
      /\ \E d \in StrayDatagrams(query) : inbox' = inbox \cup {d}
    BY DEF StrayDatagram, Asking, given
<1>2. CountInv'
    BY <1>1, ExchangeAssumption DEF CountInv, Inv
<1>3. repeats \in Nat
    BY ExchangeAssumption DEF Inv, CountInv
<1>4. GivenInv' /\ ConnInv' /\ ResponseInv' /\ ResultInv' /\ Replies(query)' = Replies(query)
    BY <1>1, <1>3, GivenStays
<1>5. ASSUME NEW d \in StrayDatagrams(query)
      PROVE  d.from # "server" \/ ~AnswersQuery(d.resp, query)
    <2> DEFINE back == [Whole(query.id, query.question, Empty) EXCEPT !.qr = FALSE]
    <2> HIDE DEF back
    <2>1. \/ d.from = "elsewhere"
          \/ d.resp \in OtherAnswers(query) \cup {back}
        BY DEF StrayDatagrams, Datagram, back
    <2>2. ~AnswersQuery(back, query)
        BY OthersAreRefused DEF Inv, GivenInv, back
    <2> QED
        BY <2>1, <2>2, OthersAreRefused DEF Inv, GivenInv
<1>6. InboxInv'
    BY <1>1, <1>4, <1>5 DEF InboxInv, Inv
<1> QED
    BY <1>2, <1>4, <1>6 DEF Inv

\* The frame that answers the query is the last one, unless it is sent again.
LEMMA ServerFrameInv ==
    ASSUME Inv, ServerFrame
    PROVE  Inv'
<1>1. /\ UNCHANGED <<given, query, sockets, inbox, due, strays, response, result>>
      /\ response' = {} /\ protocol' = protocol /\ InUse
      /\ conn.answered => repeats < MaxRepeats
      /\ repeats' = IF conn.answered THEN repeats + 1 ELSE repeats
    BY DEF ServerFrame, Asking, given
<1>2. PICK resp \in Replies(query) :
          conn' = [conn EXCEPT !.frames = Append(@, resp), !.answered = TRUE]
    BY DEF ServerFrame
<1>3. repeats \in Nat /\ repeats' \in 0..MaxRepeats /\ repeats' >= repeats
    BY <1>1, ExchangeAssumption DEF Inv, CountInv
<1>4. CountInv'
    BY <1>1, <1>3 DEF CountInv, Inv
<1>5. /\ GivenInv' /\ InboxInv' /\ ResponseInv' /\ ResultInv'
      /\ Replies(query)' = Replies(query) /\ Frames' = Frames
    BY <1>1, <1>3, GivenStays
<1>6. resp \in Frames
    BY <1>2 DEF Inv, GivenInv, Frames, Theirs
<1>7. /\ conn \in [state : {"closed", "idle", "pooled", "fresh"}, frames : Seq(Frames),
                   answered : BOOLEAN]
      /\ conn.state \in {"pooled", "fresh"} /\ protocol # "https"
    BY <1>1 DEF Inv, ConnInv, InUse
<1>8. PICK frames : frames = Append(conn.frames, resp)
    OBVIOUS
<1>9. /\ frames \in Seq(Frames) /\ Len(frames) = Len(conn.frames) + 1
      /\ frames[Len(frames)] = resp /\ Len(conn.frames) \in Nat
      /\ \A i \in 1..Len(conn.frames) : frames[i] = conn.frames[i]
    BY <1>6, <1>7, <1>8
<1>10. conn' = [state |-> conn.state, frames |-> frames, answered |-> TRUE]
    BY <1>2, <1>7, <1>8
<1>11. ASSUME repeats' = 0, NEW i \in 1..Len(frames), AnswersQuery(frames[i], query)
       PROVE  i = Len(frames) /\ frames[i] \in Replies(query)
    <2>1. repeats = 0 /\ ~conn.answered
        BY <1>1, <1>3, <1>11
    <2>2. i \notin 1..Len(conn.frames)
        BY <1>9, <1>11, <2>1 DEF Inv, ConnInv
    <2>3. i = Len(frames)
        BY <1>9, <2>2
    <2> QED
        BY <1>2, <1>9, <2>3
<1>12. ConnInv'
    BY <1>1, <1>5, <1>7, <1>9, <1>10, <1>11 DEF ConnInv, InUse
<1> QED
    BY <1>4, <1>5, <1>12 DEF Inv

\* A failure ends the attempt with an error, or leaves it to what is still out.
LEMMA ConnectionLostInv ==
    ASSUME Inv, Asking, InUse, ConnectionLost
    PROVE  Inv'
<1>1. /\ UNCHANGED <<given, query, sockets, inbox, due, strays, repeats, response>>
      /\ response' = {} /\ protocol' = protocol /\ protocol # "https"
      /\ conn' = Conn("fresh", <<>>) \/ conn' = Closed
      /\ result' = Transport \/ result' = Pending
    BY DEF ConnectionLost, Asking, given, Inv, ConnInv
<1>2. CountInv'
    BY <1>1 DEF CountInv, Inv
<1>3. \/ result'.kind = "pending"
      \/ result'.kind = "error" /\ result'.error \in {"Timeout", "Transport"}
    BY <1>1 DEF Transport, Pending
<1>4. GivenInv' /\ InboxInv' /\ ResponseInv' /\ ResultInv'
    BY <1>1, <1>3, GivenStays
<1>5. ConnInv'
    BY <1>1, ConnStarts DEF Closed, Conn
<1> QED
    BY <1>2, <1>4, <1>5 DEF Inv


\* Only a whole reply ends the attempt, and with it the sockets and the connection.
LEMMA ReceiveInv ==
    ASSUME Inv, NEW d \in inbox, Receive(d)
    PROVE  Inv'
<1>1. /\ UNCHANGED <<given, query, strays, repeats, result>> /\ protocol' = protocol
      /\ response = {} /\ d \in inbox /\ sockets > 0
    BY DEF Receive, Asking, given
<1>2. /\ repeats \in Nat /\ sockets \in Nat /\ strays \in 0..MaxStrays /\ repeats \in 0..MaxRepeats
      /\ Sockets \in Nat /\ sockets <= Sockets /\ due \in BOOLEAN /\ protocol = "udp"
    BY <1>1, ExchangeAssumption DEF Inv, CountInv
<1>3. /\ GivenInv' /\ ResultInv' /\ Replies(query)' = Replies(query)
      /\ Theirs' = Theirs /\ Frames' = Frames
    BY <1>1, <1>2, GivenStays
<1>4. CASE /\ d.from = "server" /\ AnswersQuery(d.resp, query)
           /\ ~(d.full \/ IsTruncated(d.resp))
           /\ response' = {d.resp} /\ CloseSockets /\ UNCHANGED due
           /\ conn' = IF InUse THEN Closed ELSE conn
    <2>1. d.resp \in Replies(query)
        BY <1>1, <1>4 DEF Inv, InboxInv
    <2>2. d.resp \in Theirs
        BY <2>1 DEF Theirs, Inv, GivenInv
    <2>3. inbox' = {} /\ sockets' = 0
        BY <1>4 DEF CloseSockets
    <2>4. CountInv'
        BY <1>1, <1>2, <1>4, <2>3 DEF CountInv
    <2>5. InboxInv'
        BY <2>3 DEF InboxInv
    <2>6. ConnInv' /\ ~InUse'
        <3>1. CASE InUse
            BY <1>4, <3>1, ConnStarts DEF Closed, Conn
        <3>2. CASE ~InUse
            <4>1. UNCHANGED <<conn, repeats>> /\ query' = query
                BY <1>1, <1>4, <3>2
            <4> QED
                BY <1>1, <3>2, <4>1, GivenStays DEF InUse
        <3> QED
            BY <3>1, <3>2
    <2>7. ResponseInv'
        BY <1>1, <1>3, <1>4, <2>1, <2>2, <2>3, <2>6 DEF ResponseInv
    <2> QED
        BY <1>3, <2>4, <2>5, <2>6, <2>7 DEF Inv
<1>5. CASE /\ inbox' = inbox \ {d} /\ UNCHANGED <<conn, response>>
           /\ sockets' = sockets \/ sockets' = sockets - 1
           /\ due' \in BOOLEAN
    <2>1. CountInv'
        BY <1>1, <1>2, <1>5 DEF CountInv
    <2>2. InboxInv' /\ ConnInv' /\ ResponseInv'
        BY <1>1, <1>5, GivenStays
    <2> QED
        BY <1>3, <2>1, <2>2 DEF Inv
<1> QED
    BY <1>2, <1>4, <1>5 DEF Receive

\* What was left on a pooled connection does not answer this query, if nothing was
\* sent twice.
LEMMA ConnectInv ==
    ASSUME Inv, Connect
    PROVE  Inv'
<1>1. /\ UNCHANGED <<given, query, sockets, inbox, strays, repeats, response, result>>
      /\ response' = {} /\ due' = FALSE /\ protocol' = protocol /\ protocol # "https"
      /\ conn' = IF conn.state = "idle" THEN Conn("pooled", conn.frames) ELSE Conn("fresh", <<>>)
    BY DEF Connect, Asking, given
<1>2. CountInv'
    BY <1>1 DEF CountInv, Inv
<1>3. repeats \in Nat
    BY ExchangeAssumption DEF Inv, CountInv
<1>4. /\ GivenInv' /\ InboxInv' /\ ResponseInv' /\ ResultInv' /\ Frames' = Frames
      /\ Replies(query)' = Replies(query)
    BY <1>1, <1>3, GivenStays
<1>5. CASE conn.state = "idle"
    <2>1. conn.frames \in Seq(Frames) /\ ~conn.answered
        BY <1>5 DEF Inv, ConnInv, InUse
    <2>2. conn' = [state |-> "pooled", frames |-> conn.frames, answered |-> FALSE]
        BY <1>1, <1>5 DEF Conn
    <2>3. repeats' = 0 => \A i \in 1..Len(conn.frames) : ~AnswersQuery(conn.frames[i], query)
        BY <1>1, <2>1 DEF Inv, ConnInv
    <2>4. /\ conn' \in [state : {"closed", "idle", "pooled", "fresh"}, frames : Seq(Frames'),
                        answered : BOOLEAN]
          /\ conn'.frames = conn.frames /\ conn'.answered = FALSE /\ conn'.state = "pooled"
        BY <1>4, <2>1, <2>2
    <2>5. ConnInv'
        BY <1>1, <2>3, <2>4 DEF ConnInv
    <2> QED
        BY <1>2, <1>4, <2>5 DEF Inv
<1>6. CASE conn.state # "idle"
    <2>1. ConnInv'
        BY <1>1, <1>6, ConnStarts DEF Conn
    <2> QED
        BY <1>2, <1>4, <2>1 DEF Inv
<1> QED
    BY <1>5, <1>6

\* The frame that is taken was sent on this connection, and nothing is left behind it.
LEMMA ReadFrameInv ==
    ASSUME Inv, ReadFrame
    PROVE  Inv'
<1>1. Asking /\ InUse /\ conn.frames # <<>>
    BY DEF ReadFrame
<1>2. CASE ~AnswersQuery(Head(conn.frames), query)
    BY <1>1, <1>2, ConnectionLostInv DEF ReadFrame
<1>3. CASE AnswersQuery(Head(conn.frames), query)
    <2>1. /\ response' = {Head(conn.frames)} /\ conn' = Conn("idle", Tail(conn.frames))
          /\ sockets' = 0 /\ inbox' = {}
          /\ UNCHANGED <<given, query, due, strays, repeats, result>> /\ protocol' = protocol
        BY <1>1, <1>3 DEF ReadFrame, CloseSockets, given
    <2>2. CountInv'
        BY <2>1, ExchangeAssumption DEF CountInv, Inv
    <2>3. repeats \in Nat
        BY ExchangeAssumption DEF Inv, CountInv
    <2>4. /\ GivenInv' /\ InboxInv' /\ ResultInv' /\ Replies(query)' = Replies(query)
          /\ Theirs' = Theirs /\ Frames' = Frames
        BY <2>1, <2>3, GivenStays
    <2>5. PICK frames \in Seq(Frames) : frames = conn.frames /\ frames # <<>>
        BY <1>1 DEF Inv, ConnInv
    <2>6. PICK rest \in Seq(Frames) : rest = Tail(frames) /\ Len(rest) = Len(frames) - 1
        BY <2>5, HeadTailProperties
    <2>7. /\ Head(frames) = frames[1] /\ 1 \in 1..Len(frames) /\ Len(frames) \in Nat
          /\ Len(rest) \in Nat /\ frames[1] \in Frames
        BY <2>5, <2>6
    <2>8. frames[1] \in Theirs
        BY <1>3, <2>5, <2>7, OthersAreRefused DEF Frames, Inv, GivenInv
    <2>9. repeats = 0 => frames[1] \in Replies(query) /\ 1 = Len(frames)
        BY <1>3, <2>5, <2>7 DEF Inv, ConnInv
    <2>10. conn' = [state |-> "idle", frames |-> rest, answered |-> FALSE]
        BY <2>1, <2>5, <2>6 DEF Conn
    <2>11. repeats' = 0 => 1..Len(rest) = {}
        BY <2>1, <2>6, <2>7, <2>9
    <2>12. conn' \in [state : {"closed", "idle", "pooled", "fresh"}, frames : Seq(Frames'),
                      answered : BOOLEAN]
        BY <2>4, <2>10
    <2>13. ConnInv' /\ ~InUse'
        BY <2>10, <2>11, <2>12 DEF ConnInv, InUse
    <2>14. ResponseInv'
        BY <2>1, <2>4, <2>5, <2>7, <2>8, <2>9, <2>13 DEF ResponseInv
    <2> QED
        BY <2>2, <2>4, <2>13, <2>14 DEF Inv
<1> QED
    BY <1>2, <1>3

\* The body of an HTTPS response is taken as it is.
LEMMA HttpsAnswersInv ==
    ASSUME Inv, HttpsAnswers
    PROVE  Inv'
<1>1. /\ UNCHANGED <<given, query, sockets, inbox, conn, due, strays, repeats, result>>
      /\ protocol = "https" /\ protocol' = protocol
    BY DEF HttpsAnswers, given
<1>2. PICK resp \in Replies(query) : response' = {resp}
    BY DEF HttpsAnswers
<1>3. CountInv'
    BY <1>1 DEF CountInv, Inv
<1>4. repeats \in Nat
    BY ExchangeAssumption DEF Inv, CountInv
<1>5. /\ GivenInv' /\ ConnInv' /\ InboxInv' /\ ResultInv'
      /\ Replies(query)' = Replies(query) /\ Theirs' = Theirs
    BY <1>1, <1>4, GivenStays
<1>6. resp \in Theirs
    BY <1>2 DEF Theirs, Inv, GivenInv
<1>7. inbox = {} /\ ~InUse
    BY <1>1 DEF Inv, InboxInv, ConnInv
<1>8. inbox' = {} /\ ~InUse'
    BY <1>1, <1>7 DEF InUse
<1>9. ResponseInv'
    BY <1>2, <1>5, <1>6, <1>8 DEF ResponseInv
<1> QED
    BY <1>3, <1>5, <1>9 DEF Inv

\* The attempt fails by its transport or its timeout.
LEMMA FailuresInv ==
    ASSUME Inv, HttpsFails \/ TimesOut
    PROVE  Inv'
<1>1. /\ UNCHANGED <<given, query, due, strays, repeats, response>> /\ protocol' = protocol
      /\ response' = {} /\ result' \in {Transport, Timeout}
      /\ UNCHANGED <<sockets, inbox>> \/ (sockets' = 0 /\ inbox' = {})
      /\ conn' = conn \/ conn' = Closed
    BY DEF HttpsFails, TimesOut, Asking, given, CloseSockets
<1>2. CountInv'
    BY <1>1, ExchangeAssumption DEF CountInv, Inv
<1>3. result'.kind = "error" /\ result'.error \in {"Timeout", "Transport"}
    BY <1>1 DEF Transport, Timeout
<1>4. inbox' \subseteq inbox
    BY <1>1
<1>6. GivenInv' /\ InboxInv' /\ ResponseInv' /\ ResultInv'
    BY <1>1, <1>3, <1>4, GivenStays
<1>5. ConnInv'
    <2>1. CASE conn' = Closed
        BY <2>1, ConnStarts DEF Closed, Conn
    <2>2. CASE conn' = conn
        BY <1>1, <2>2, GivenStays
    <2> QED
        BY <1>1, <2>1, <2>2
<1> QED
    BY <1>2, <1>5, <1>6 DEF Inv


\* The retry keeps what answers are compared with, and nothing to the query before it
\* is still on its way.
LEMMA RetryInv ==
    ASSUME Inv, Retry
    PROVE  Inv'
<1>1. /\ UNCHANGED <<given, inbox, conn, strays, repeats, result>>
      /\ response # {} /\ response' = {} /\ due' = TRUE
      /\ sockets' = IF protocol = "udp" THEN Sockets ELSE 0
      /\ query' = [query EXCEPT !.edns = FALSE]
      /\ protocol' = protocol /\ server' = server /\ zone' = zone
    BY DEF Retry, StripEdns, given
<1>2. query \in Queries /\ query' \in Queries
    BY <1>1 DEF Inv, GivenInv, Queries
<1>3. /\ \A resp : AnswersQuery(resp, query') <=> AnswersQuery(resp, query)
      /\ OtherAnswers(query') = OtherAnswers(query)
    BY <1>2, RetriesAskTheSame
<1>4. repeats \in Nat
    BY ExchangeAssumption DEF Inv, CountInv
<1>5. Queries' = Queries /\ Theirs' = Theirs /\ ResponseInv' /\ ResultInv'
    BY <1>1, <1>4, GivenStays
<1>6. GivenInv'
    BY <1>1, <1>2, <1>5 DEF Inv, GivenInv
<1>7. CountInv'
    BY <1>1, ExchangeAssumption DEF Inv, CountInv
<1>8. inbox = {} /\ ~InUse
    BY <1>1 DEF Inv, ResponseInv
<1>9. InboxInv'
    BY <1>1, <1>8 DEF InboxInv
<1>10. Frames' = Frames
    BY <1>3, <1>5 DEF Frames, OtherAnswers
<1>11. ~conn.answered
    BY <1>8 DEF Inv, ConnInv
<1>12. repeats = 0 => \A i \in 1..Len(conn.frames) : ~AnswersQuery(conn.frames[i], query')
    BY <1>3, <1>11 DEF Inv, ConnInv
<1>13. ConnInv'
    BY <1>1, <1>8, <1>10, <1>11, <1>12 DEF Inv, ConnInv, InUse
<1> QED
    BY <1>5, <1>6, <1>7, <1>9, <1>13 DEF Inv

\* The verdict is on the response of this nameserver, and not on a FORMERR that a retry
\* would answer.
LEMMA ConcludeInv ==
    ASSUME Inv, Conclude
    PROVE  Inv'
<1>1. /\ UNCHANGED <<given, query, sockets, inbox, conn, due, strays, repeats, response>>
      /\ protocol' = protocol /\ server' = server /\ zone' = zone
    BY DEF Conclude, given
<1>2. PICK resp \in response : ~(IsFormatError(resp) /\ query.edns) /\ result' = Verdict(resp)
    BY DEF Conclude
<1>3. resp \in Theirs /\ (repeats = 0 => resp \in Replies(query)) /\ response = {resp}
    BY <1>2 DEF Inv, ResponseInv
<1>4. CountInv'
    BY <1>1 DEF Inv, CountInv
<1>5. /\ GivenInv' /\ ConnInv' /\ InboxInv' /\ Replies(query)' = Replies(query) /\ Theirs' = Theirs
    BY <1>1, GivenStays
<1>6. ResponseInv'
    <2>1. ~InUse /\ inbox = {}
        BY <1>3 DEF Inv, ResponseInv
    <2>2. ~InUse' /\ inbox' = {}
        BY <1>1, <2>1 DEF InUse
    <2> QED
        BY <1>1, <1>3, <1>5, <2>2 DEF ResponseInv
<1>7. PICK v : v = Verdict(resp)
    OBVIOUS
<1>8. /\ v.kind \in {"error", "records", "nodata", "nxdomain", "follow"} /\ Honest(v)
      /\ server # "faulty" /\ repeats = 0 => v.kind # "error"
    BY <1>2, <1>3, <1>7, VerdictsOnReplies DEF Inv, GivenInv
<1>9. result' = v
    BY <1>2, <1>7
<1>10. Honest(result)'
    BY <1>1, <1>8, <1>9 DEF Honest, Held, TypeOf
<1>11. HealthyIsHeard'
    BY <1>1, <1>8, <1>9 DEF HealthyIsHeard
<1>12. ResultInv'
    BY <1>8, <1>9, <1>10, <1>11 DEF ResultInv
<1> QED
    BY <1>4, <1>5, <1>6, <1>12 DEF Inv

\* In every reachable state what the resolver holds, or has been sent and can take,
\* comes from this nameserver in answer to this query.
THEOREM ExchangeInvariant == Spec => []Inv
<1>1. Init => Inv
    BY InitInv
<1>2. Inv /\ [Next]_vars => Inv'
    <2> SUFFICES ASSUME Inv, [Next]_vars
                 PROVE  Inv'
        OBVIOUS
    <2>1. CASE Next
        BY <2>1, ServerDatagramInv, StrayDatagramInv, ServerFrameInv, ReceiveInv, ConnectInv,
           ConnectionLostInv, ReadFrameInv, HttpsAnswersInv, FailuresInv, RetryInv, ConcludeInv
           DEF Next, StreamFails
    <2>2. CASE UNCHANGED vars
        <3>1. UNCHANGED <<given, query, sockets, inbox, conn, due, strays, repeats, response, result>>
            BY <2>2 DEF vars, given
        <3>2. protocol' = protocol /\ repeats \in Nat
            BY <3>1, ExchangeAssumption DEF given, Inv, CountInv
        <3>3. /\ GivenInv' /\ ConnInv' /\ InboxInv' /\ ResultInv'
              /\ Replies(query)' = Replies(query) /\ Theirs' = Theirs
            BY <3>1, <3>2, GivenStays
        <3>4. CountInv' /\ ResponseInv'
            BY <3>1, <3>2, <3>3 DEF Inv, CountInv, ResponseInv, InUse
        <3> QED
            BY <3>3, <3>4 DEF Inv
    <2> QED
        BY <2>1, <2>2
<1> QED
    BY <1>1, <1>2, PTL DEF Spec

\* Every variable keeps its type: a query keeps its id and its question through the
\* retry, and an attempt has at most one response.
THEOREM ExchangeTypes == Spec => []TypeOK
<1>1. Inv => TypeOK
    <2> SUFFICES ASSUME Inv
                 PROVE  TypeOK
        OBVIOUS
    <2>1. Cardinality(response) <= 1
        <3>1. CASE response = {}
            BY <3>1, FS_EmptySet
        <3>2. CASE \E resp : response = {resp}
            <4>1. PICK resp : response = {resp}
                BY <3>2
            <4>2. Cardinality({resp}) = 1
                BY FS_Singleton
            <4> QED
                BY <4>1, <4>2
        <3> QED
            BY <3>1, <3>2 DEF Inv, ResponseInv
    <2>2. query \in [id : {"ours"}, question : {Question(Host, TypeOf)}, edns : BOOLEAN]
        BY DEF Inv, GivenInv, Queries
    <2> QED
        BY <2>1, <2>2 DEF Inv, CountInv, ConnInv, ResultInv, TypeOK
<1> QED
    BY <1>1, ExchangeInvariant, PTL

\* A verdict is what the nameserver holds, whatever is lost, repeated, reordered,
\* truncated or sent by others, over every transport.
THEOREM VerdictsAreOwn == Spec => []VerdictIsOwn
<1>1. Inv => VerdictIsOwn
    BY DEF Inv, ResultInv, Honest, VerdictIsOwn
<1> QED
    BY <1>1, ExchangeInvariant, PTL

\* A nameserver that answers queries is never reported as failed for what was sent.
THEOREM HealthyNameserverIsHeard == Spec => []HealthyIsHeard
<1>1. Inv => HealthyIsHeard
    BY DEF Inv, ResultInv
<1> QED
    BY <1>1, ExchangeInvariant, PTL

\* The wanted records of an HTTPS lookup are bindings.
LEMMA HeldAreBindings ==
    ASSUME zone \in Zones, zone.kind = "Https", NEW i \in DOMAIN Held
    PROVE  IsBinding(Held[i].data)
<1>1. TypeOf = "HTTPS"
    BY DEF TypeOf, DnsType
<1>2. IsAnswers(zone.answers)
    BY ZoneFacts
<1>3. PICK j \in WantedAt(zone.answers, Host, TypeOf) :
          Held[i] = zone.answers[j] /\ zone.answers[j].type = TypeOf
    BY <1>2, WantedFacts DEF Held
<1>4. j \in DOMAIN zone.answers
    BY DEF WantedAt, OnChain
<1>5. Held[i] \in Range(zone.answers) /\ Held[i].type = "HTTPS"
    BY <1>1, <1>3, <1>4 DEF Range
<1> QED
    BY <1>5, ZoneFacts

\* The accessors of an HTTPS record say what its zone means by it, whatever parameters it
\* has, in whatever order.
THEOREM EndpointsAreRead == Spec => []EndpointsReadBack
<1>1. Inv => EndpointsReadBack
    <2> SUFFICES ASSUME Inv, result.kind = "records", zone.kind = "Https",
                        NEW i \in DOMAIN result.records
                 PROVE  ReadsBack(result.records[i], Held[i])
        BY DEF EndpointsReadBack, ReadsBack
    <2>1. zone \in Zones
        BY DEF Inv, GivenInv
    <2>2. i \in DOMAIN Held /\ result.records[i] = Extract("Https", Held[i])
        BY DEF Inv, ResultInv, Honest
    <2>3. IsBinding(Held[i].data)
        BY <2>1, <2>2, HeldAreBindings
    <2> QED
        BY <2>2, <2>3, BindingReadsBack
<1> QED
    BY <1>1, ExchangeInvariant, PTL

=============================================================================
