---------------------------- MODULE CnameProofs ----------------------------
(***************************************************************************)
(* Proofs about Cname, for any names, zones, TTLs, depth and number of     *)
(* changes: what a walk along aliases comes to, what of a zone a response  *)
(* gives away, and, from an inductive invariant, that a query's answer is  *)
(* on its host's chain, is the chain's end while nothing changes, and is   *)
(* kept no longer than the aliases to it.                                  *)
(***************************************************************************)
EXTENDS Cname, FiniteSetTheorems, SequenceTheorems, WellFoundedInduction, TLAPS

-----------------------------------------------------------------------------
(* Walks: a map of names to names, applied again and again. *)

\* Some member of a set of naturals is the least.
LEMMA LeastMember ==
    ASSUME NEW S \in SUBSET Nat, S # {}
    PROVE  \E m \in S : \A j \in S : m <= j
<1>1. PICK rel : rel = OpToRel(<, Nat)
    OBVIOUS
<1>2. IsWellFoundedOn(rel, Nat)
    BY <1>1, NatLessThanWellFounded
<1>3. ASSUME NEW i \in Nat, NEW j \in Nat, i < j
      PROVE  <<i, j>> \in rel
    BY <1>1, <1>3 DEF OpToRel
<1>4. PICK m \in S : \A j \in S : ~(<<j, m>> \in rel)
    BY <1>2, WFMin
<1>5. ASSUME NEW j \in S
      PROVE  m <= j
    <2>1. m \in Nat /\ j \in Nat
        OBVIOUS
    <2>2. ~(j < m)
        BY <1>3, <1>4, <2>1
    <2> QED
        BY <2>1, <2>2
<1> QED
    BY <1>5

\* A set of naturals that holds 0 and, with a number, the next holds all of them.
LEMMA AllNaturals ==
    ASSUME NEW S \in SUBSET Nat, 0 \in S, \A i \in S : i + 1 \in S
    PROVE  S = Nat
<1>1. PICK missed \in SUBSET Nat : missed = Nat \ S
    OBVIOUS
<1>2. SUFFICES ASSUME missed # {}
               PROVE  FALSE
    BY <1>1
<1>3. PICK m \in missed : \A j \in missed : m <= j
    BY <1>2, LeastMember
<1>4. m \in Nat /\ m \notin S /\ m # 0
    BY <1>1
<1>5. PICK j \in Nat : m = j + 1
    <2>1. m - 1 \in Nat /\ m = (m - 1) + 1
        BY <1>4
    <2> QED
        BY <2>1
<1>6. j \notin missed
    BY <1>3, <1>5
<1> QED
    BY <1>1, <1>4, <1>5, <1>6

\* f is a walk of k steps from n.
IsWalk(h, n, k, f) == f[0] = n /\ \A i \in 1..k : f[i] = h[f[i - 1]]

\* Where a walk is after k steps.
Iterated(h, n, k) == (CHOOSE f \in [0..k -> Name] : IsWalk(h, n, k, f))[k]

\* There is a walk of any length.
LEMMA WalksExist ==
    ASSUME NEW h \in [Name -> Name], NEW n \in Name, NEW k \in Nat
    PROVE  \E f \in [0..k -> Name] : IsWalk(h, n, k, f)
<1>1. PICK S \in SUBSET Nat : S = {i \in Nat : \E f \in [0..i -> Name] : IsWalk(h, n, i, f)}
    OBVIOUS
<1>2. 0 \in S
    <2>1. PICK f : f = [i \in 0..0 |-> n]
        OBVIOUS
    <2>2. f \in [0..0 -> Name] /\ IsWalk(h, n, 0, f)
        BY <2>1 DEF IsWalk
    <2> QED
        BY <1>1, <2>2
<1>3. ASSUME NEW i \in S
      PROVE  i + 1 \in S
    <2>1. i \in Nat
        OBVIOUS
    <2>2. PICK f \in [0..i -> Name] : IsWalk(h, n, i, f)
        BY <1>1
    <2>3. PICK g : g = [j \in 0..(i + 1) |-> IF j = i + 1 THEN h[f[i]] ELSE f[j]]
        OBVIOUS
    <2>4. f[i] \in Name
        BY <2>1, <2>2
    <2>5. ASSUME NEW j \in 0..(i + 1)
          PROVE  g[j] \in Name
        <3>1. CASE j = i + 1
            BY <2>3, <2>4, <3>1
        <3>2. CASE j # i + 1
            <4>1. j \in 0..i
                BY <2>1, <3>2
            <4> QED
                BY <2>2, <2>3, <3>2, <4>1
        <3> QED
            BY <3>1, <3>2
    <2>6. g[0] = n
        BY <2>1, <2>2, <2>3 DEF IsWalk
    <2>7. ASSUME NEW j \in 1..(i + 1)
          PROVE  g[j] = h[g[j - 1]]
        <3>1. j - 1 \in 0..i /\ g[j - 1] = f[j - 1]
            BY <2>1, <2>3
        <3>2. CASE j = i + 1
            BY <2>1, <2>3, <3>1, <3>2
        <3>3. CASE j # i + 1
            <4>1. j \in 1..i
                BY <2>1, <3>3
            <4>2. g[j] = f[j]
                BY <2>3, <3>3, <4>1
            <4> QED
                BY <2>2, <3>1, <4>1, <4>2 DEF IsWalk
        <3> QED
            BY <3>2, <3>3
    <2>8. IsWalk(h, n, i + 1, g)
        BY <2>6, <2>7 DEF IsWalk
    <2>9. g \in [0..(i + 1) -> Name]
        BY <2>3, <2>5
    <2> QED
        BY <1>1, <2>1, <2>8, <2>9
<1>4. S = Nat
    BY <1>2, <1>3, AllNaturals
<1> QED
    BY <1>1, <1>4

\* Walks agree as far as they go.
LEMMA WalksAgree ==
    ASSUME NEW h, NEW n, NEW k \in Nat, NEW f, NEW g, IsWalk(h, n, k, f), IsWalk(h, n, k, g)
    PROVE  \A i \in 0..k : f[i] = g[i]
<1>1. PICK S \in SUBSET Nat : S = {i \in Nat : i <= k => f[i] = g[i]}
    OBVIOUS
<1>2. 0 \in S
    BY <1>1 DEF IsWalk
<1>3. ASSUME NEW i \in S
      PROVE  i + 1 \in S
    <2>1. SUFFICES ASSUME i + 1 <= k
                   PROVE  f[i + 1] = g[i + 1]
        BY <1>1
    <2>2. i + 1 \in 1..k /\ (i + 1) - 1 = i /\ i <= k
        BY <2>1
    <2>3. f[i] = g[i]
        BY <1>1, <2>2
    <2> QED
        BY <2>2, <2>3 DEF IsWalk
<1>4. S = Nat
    BY <1>2, <1>3, AllNaturals
<1> QED
    BY <1>1, <1>4

\* A part of a walk is one.
LEMMA WalkIsIterated ==
    ASSUME NEW h \in [Name -> Name], NEW n \in Name, NEW k \in Nat, NEW f, IsWalk(h, n, k, f),
           NEW i \in 0..k
    PROVE  f[i] = Iterated(h, n, i)
<1>1. i \in Nat
    OBVIOUS
<1>2. \E g \in [0..i -> Name] : IsWalk(h, n, i, g)
    BY <1>1, WalksExist
<1>3. PICK g : g = CHOOSE walk \in [0..i -> Name] : IsWalk(h, n, i, walk)
    OBVIOUS
<1>4. IsWalk(h, n, i, g) /\ Iterated(h, n, i) = g[i]
    BY <1>2, <1>3 DEF Iterated
<1>5. IsWalk(h, n, i, f)
    BY DEF IsWalk
<1>6. f[i] = g[i]
    BY <1>1, <1>4, <1>5, WalksAgree
<1> QED
    BY <1>4, <1>6

\* How a walk goes on.
LEMMA IteratedSteps ==
    ASSUME NEW h \in [Name -> Name], NEW n \in Name
    PROVE  /\ Iterated(h, n, 0) = n
           /\ \A i \in Nat : /\ Iterated(h, n, i) \in Name
                             /\ Iterated(h, n, i + 1) = h[Iterated(h, n, i)]
<1>1. ASSUME NEW i \in Nat
      PROVE  /\ Iterated(h, n, i) \in Name
             /\ Iterated(h, n, i + 1) = h[Iterated(h, n, i)]
             /\ Iterated(h, n, 0) = n
    <2>1. PICK k \in Nat : k = i + 1
        OBVIOUS
    <2>2. PICK f \in [0..k -> Name] : IsWalk(h, n, k, f)
        BY WalksExist
    <2>3. 0 \in 0..k /\ i \in 0..k /\ k \in 0..k /\ k \in 1..k /\ k - 1 = i
        BY <2>1
    <2>4. f[0] = Iterated(h, n, 0) /\ f[i] = Iterated(h, n, i) /\ f[k] = Iterated(h, n, k)
        BY <2>2, <2>3, WalkIsIterated
    <2>5. f[0] = n /\ f[k] = h[f[i]]
        BY <2>2, <2>3 DEF IsWalk
    <2>6. f[i] \in Name
        BY <2>2, <2>3
    <2> QED
        BY <2>1, <2>4, <2>5, <2>6
<1> QED
    BY <1>1
\* A walk may be taken in two parts.
LEMMA IteratedTwice ==
    ASSUME NEW h \in [Name -> Name], NEW n \in Name, NEW i \in Nat, NEW j \in Nat
    PROVE  Iterated(h, Iterated(h, n, i), j) = Iterated(h, n, i + j)
<1>1. PICK m \in Name : m = Iterated(h, n, i)
    BY IteratedSteps
<1>2. PICK S \in SUBSET Nat : S = {k \in Nat : Iterated(h, m, k) = Iterated(h, n, i + k)}
    OBVIOUS
<1>3. 0 \in S
    <2>1. Iterated(h, m, 0) = m /\ i + 0 = i
        BY IteratedSteps
    <2> QED
        BY <1>1, <1>2, <2>1
<1>4. ASSUME NEW k \in S
      PROVE  k + 1 \in S
    <2>1. k \in Nat /\ Iterated(h, m, k) = Iterated(h, n, i + k)
        BY <1>2
    <2>2. Iterated(h, m, k + 1) = h[Iterated(h, m, k)]
        BY <2>1, IteratedSteps
    <2>3. PICK l \in Nat : l = i + k
        BY <2>1
    <2>4. Iterated(h, n, l + 1) = h[Iterated(h, n, l)]
        BY IteratedSteps
    <2>5. l + 1 = i + (k + 1)
        BY <2>1, <2>3
    <2> QED
        BY <1>2, <2>1, <2>2, <2>3, <2>4, <2>5
<1>5. S = Nat
    BY <1>3, <1>4, AllNaturals
<1> QED
    BY <1>1, <1>2, <1>5

\* It stays where h does.
LEMMA IteratedStays ==
    ASSUME NEW h \in [Name -> Name], NEW n \in Name, NEW i \in Nat, NEW j \in Nat, i <= j,
           h[Iterated(h, n, i)] = Iterated(h, n, i)
    PROVE  Iterated(h, n, j) = Iterated(h, n, i)
<1>1. PICK S \in SUBSET Nat : S = {k \in Nat : Iterated(h, n, i + k) = Iterated(h, n, i)}
    OBVIOUS
<1>2. 0 \in S
    <2>1. i + 0 = i
        OBVIOUS
    <2> QED
        BY <1>1, <2>1
<1>3. ASSUME NEW k \in S
      PROVE  k + 1 \in S
    <2>1. PICK l \in Nat : l = i + k
        OBVIOUS
    <2>2. Iterated(h, n, l + 1) = h[Iterated(h, n, l)]
        BY IteratedSteps
    <2>3. l + 1 = i + (k + 1) /\ Iterated(h, n, l) = Iterated(h, n, i)
        BY <1>1, <2>1
    <2> QED
        BY <1>1, <2>2, <2>3
<1>4. S = Nat
    BY <1>2, <1>3, AllNaturals
<1>5. j - i \in Nat /\ i + (j - i) = j
    OBVIOUS
<1> QED
    BY <1>1, <1>4, <1>5

\* g is h where that is given, and stays elsewhere.
IsPart(g, h, given) == \A m \in Name : g[m] = IF m \in given THEN h[m] ELSE m

\* After j steps a walk by g has taken the k steps by h that are given, and has stopped
\* if that is fewer.
GoesAlong(g, h, n, given, j, k) ==
    /\ \A i \in 0..k : Iterated(g, n, i) = Iterated(h, n, i)
    /\ \A i \in 0..(k - 1) : Iterated(h, n, i) \in given
    /\ Iterated(g, n, j) = Iterated(h, n, k)
    /\ k < j => Iterated(h, n, k) \notin given

\* A walk by part of a map is one by all of it, until it meets the part that is missing,
\* where it stays.
LEMMA PartialWalk ==
    ASSUME NEW h \in [Name -> Name], NEW g \in [Name -> Name], NEW n \in Name, NEW given,
           IsPart(g, h, given), NEW j \in Nat
    PROVE  \E k \in 0..j : GoesAlong(g, h, n, given, j, k)
<1> DEFINE AsFarAs(l, k) == GoesAlong(g, h, n, given, l, k)
<1>1. PICK S \in SUBSET Nat : S = {l \in Nat : \E k \in 0..l : AsFarAs(l, k)}
    OBVIOUS
<1>2. 0 \in S
    <2>1. Iterated(g, n, 0) = n /\ Iterated(h, n, 0) = n
        BY IteratedSteps
    <2>2. AsFarAs(0, 0)
        BY <2>1 DEF GoesAlong
    <2> QED
        BY <1>1, <2>2
<1>3. ASSUME NEW l \in S
      PROVE  l + 1 \in S
    <2>1. l \in Nat
        OBVIOUS
    <2>2. PICK k \in 0..l : AsFarAs(l, k)
        BY <1>1
    <2>3. k \in Nat /\ k \in 0..(l + 1) /\ k + 1 \in Nat
        BY <2>1
    <2>4. PICK m \in Name : m = Iterated(h, n, k)
        BY <2>3, IteratedSteps
    <2>5. Iterated(g, n, l) = m /\ Iterated(g, n, l + 1) = g[m]
        BY <2>1, <2>2, <2>4, IteratedSteps DEF GoesAlong
    <2>6. CASE m \notin given
        <3>1. Iterated(g, n, l + 1) = m
            BY <2>4, <2>5, <2>6 DEF IsPart
        <3>2. AsFarAs(l + 1, k)
            BY <2>2, <2>4, <2>6, <3>1 DEF GoesAlong
        <3> QED
            BY <1>1, <2>1, <2>3, <3>2
    <2>7. CASE m \in given
        <3>1. k = l
            BY <2>1, <2>2, <2>3, <2>4, <2>7 DEF GoesAlong
        <3>2. Iterated(g, n, k + 1) = Iterated(h, n, k + 1)
            <4>1. g[m] = h[m]
                BY <2>7 DEF IsPart
            <4>2. Iterated(h, n, k + 1) = h[m]
                BY <2>3, <2>4, IteratedSteps
            <4> QED
                BY <2>5, <3>1, <4>1, <4>2
        <3>3. ASSUME NEW i \in 0..(k + 1)
              PROVE  Iterated(g, n, i) = Iterated(h, n, i)
            <4>1. CASE i = k + 1
                BY <3>2, <4>1
            <4>2. CASE i # k + 1
                <5>1. i \in 0..k
                    BY <2>3, <4>2
                <5> QED
                    BY <2>2, <5>1 DEF GoesAlong
            <4> QED
                BY <4>1, <4>2
        <3>4. ASSUME NEW i \in 0..((k + 1) - 1)
              PROVE  Iterated(h, n, i) \in given
            <4>1. i \in 0..(k - 1) \/ i = k
                BY <2>3
            <4> QED
                BY <2>2, <2>4, <2>7, <4>1 DEF GoesAlong
        <3>5. AsFarAs(l + 1, k + 1)
            BY <3>1, <3>2, <3>3, <3>4 DEF GoesAlong
        <3> QED
            BY <1>1, <2>1, <3>1, <3>5
    <2> QED
        BY <2>6, <2>7
<1>4. S = Nat
    BY <1>2, <1>3, AllNaturals
<1> QED
    BY <1>1, <1>4

-----------------------------------------------------------------------------
(* The walk along the aliases of a zone. *)

\* The alias of each name, or the name.
Following(held) == [n \in Name |-> IF held[n] \in Name THEN held[n] ELSE n]

\* Where following aliases from n for i hops ends, in some zone.
At(held, n, i) == Iterated(Following(held), n, i)

Zones == [Name -> Name \cup Rest]

\* It is where After says.
LEMMA AfterIsAt ==
    ASSUME zone \in Zones, NEW n \in Name, NEW i \in Nat
    PROVE  After(n, i) = At(zone, n, i)
<1>1. PICK h \in [Name -> Name] : h = Following(zone)
    BY DEF Following
<1> DEFINE Leads(f) == f = [k \in 0..i |-> IF k = 0 THEN n
                                           ELSE IF zone[f[k - 1]] \in Name THEN zone[f[k - 1]]
                                           ELSE f[k - 1]]
<1>2. PICK f \in [0..i -> Name] : IsWalk(h, n, i, f)
    BY WalksExist
<1>3. ASSUME NEW k \in 0..i
      PROVE  f[k] = IF k = 0 THEN n
                    ELSE IF zone[f[k - 1]] \in Name THEN zone[f[k - 1]]
                    ELSE f[k - 1]
    <2>1. CASE k = 0
        BY <1>2, <2>1 DEF IsWalk
    <2>2. CASE k # 0
        <3>1. k \in 1..i /\ k - 1 \in 0..i
            BY <2>2
        <3>2. f[k] = h[f[k - 1]] /\ f[k - 1] \in Name
            BY <1>2, <3>1 DEF IsWalk
        <3> QED
            BY <1>1, <2>2, <3>2 DEF Following
    <2> QED
        BY <2>1, <2>2
<1>4. Leads(f)
    BY <1>2, <1>3
<1>5. PICK w : w = CHOOSE g : Leads(g)
    OBVIOUS
<1>6. Leads(w)
    BY <1>4, <1>5
<1>7. After(n, i) = w[i]
    BY <1>5 DEF After
<1>8. i \in 0..i
    OBVIOUS
<1>9. \A k \in 0..i : w[k] \in Name
    <2>1. PICK S \in SUBSET Nat : S = {k \in Nat : k <= i => w[k] \in Name}
        OBVIOUS
    <2>2. w[0] = n
        BY <1>6
    <2>3. 0 \in S
        BY <2>1, <2>2
    <2>4. ASSUME NEW k \in S
          PROVE  k + 1 \in S
        <3>1. SUFFICES ASSUME k + 1 <= i
                       PROVE  w[k + 1] \in Name
            BY <2>1
        <3>2. k + 1 \in 0..i /\ k + 1 # 0 /\ (k + 1) - 1 = k /\ k <= i
            BY <3>1
        <3>3. w[k] \in Name
            BY <2>1, <3>2
        <3>4. w[k + 1] = IF zone[w[k]] \in Name THEN zone[w[k]] ELSE w[k]
            BY <1>6, <3>2
        <3> QED
            BY <3>3, <3>4
    <2>5. S = Nat
        BY <2>3, <2>4, AllNaturals
    <2> QED
        BY <2>1, <2>5
<1>10. IsWalk(h, n, i, w)
    <2>1. w[0] = n
        BY <1>6
    <2>2. ASSUME NEW k \in 1..i
          PROVE  w[k] = h[w[k - 1]]
        <3>1. k \in 0..i /\ k # 0 /\ k - 1 \in 0..i
            OBVIOUS
        <3>2. w[k] = IF zone[w[k - 1]] \in Name THEN zone[w[k - 1]] ELSE w[k - 1]
            BY <1>6, <3>1
        <3>3. w[k - 1] \in Name
            BY <1>9, <3>1
        <3> QED
            BY <1>1, <3>2, <3>3 DEF Following
    <2> QED
        BY <2>1, <2>2 DEF IsWalk
<1> QED
    BY <1>1, <1>7, <1>8, <1>10, WalkIsIterated DEF At

-----------------------------------------------------------------------------
(* The walk along the aliases that an answer section gives. *)

AnswerRecord == [name : Name, class : {"IN", "CH"}, type : {"CNAME", "wanted"}, data : Name,
                 ttl : 0..U32Max]

\* One hop by a section from each name.
Given(answers) ==
    [n \in Name |-> LET alias == AliasUnder(answers, n)
                    IN IF alias = {} THEN n ELSE (CHOOSE rr \in alias : TRUE).data]

\* It is a map of names to names.
LEMMA GivenIsMap ==
    ASSUME NEW answers \in Seq(AnswerRecord)
    PROVE  Given(answers) \in [Name -> Name]
<1>1. ASSUME NEW n \in Name
      PROVE  Given(answers)[n] \in Name
    <2>1. PICK alias : alias = AliasUnder(answers, n)
        OBVIOUS
    <2>2. Given(answers)[n] = IF alias = {} THEN n ELSE (CHOOSE rr \in alias : TRUE).data
        BY <2>1 DEF Given
    <2>3. CASE alias = {}
        BY <2>2, <2>3
    <2>4. CASE alias # {}
        <3>1. PICK rr \in alias : Given(answers)[n] = rr.data
            BY <2>2, <2>4
        <3>2. PICK i \in DOMAIN answers : rr = answers[i]
            BY <2>1, <3>1 DEF AliasUnder
        <3>3. answers[i] \in AnswerRecord
            OBVIOUS
        <3> QED
            BY <3>1, <3>2, <3>3 DEF AnswerRecord
    <2> QED
        BY <2>3, <2>4
<1> QED
    BY <1>1 DEF Given

\* cname_chain walks by it.
LEMMA ChainIsWalk ==
    ASSUME NEW answers \in Seq(AnswerRecord), NEW start \in Name
    PROVE  /\ DOMAIN Chain(answers, start) = 0..Depth
           /\ \A i \in 0..Depth : Chain(answers, start)[i] = Iterated(Given(answers), start, i)
<1>1. Depth \in Nat
    BY AnswersAssumption
<1>2. PICK h \in [Name -> Name] : h = Given(answers)
    BY GivenIsMap
<1> DEFINE Hop(n) == LET alias == AliasUnder(answers, n)
                     IN IF alias = {} THEN n ELSE (CHOOSE rr \in alias : TRUE).data
           Walked(f) == f = [i \in 0..Depth |-> IF i = 0 THEN start ELSE Hop(f[i - 1])]
<1>3. ASSUME NEW n \in Name
      PROVE  h[n] = Hop(n)
    BY <1>2 DEF Given
<1>4. PICK c : c = CHOOSE f : Walked(f)
    OBVIOUS
<1>5. Chain(answers, start) = c
    BY <1>4 DEF Chain
<1> HIDE DEF Hop
<1>6. PICK f \in [0..Depth -> Name] : IsWalk(h, start, Depth, f)
    BY <1>1, WalksExist
<1>7. ASSUME NEW i \in 0..Depth
      PROVE  f[i] = IF i = 0 THEN start ELSE Hop(f[i - 1])
    <2>1. CASE i = 0
        BY <1>6, <2>1 DEF IsWalk
    <2>2. CASE i # 0
        <3>1. i \in 1..Depth /\ i - 1 \in 0..Depth
            BY <1>1, <2>2
        <3> QED
            BY <1>3, <1>6, <2>2, <3>1 DEF IsWalk
    <2> QED
        BY <2>1, <2>2
<1>8. Walked(f)
    BY <1>6, <1>7
<1>9. Walked(c)
    BY <1>4, <1>8
<1>10. /\ DOMAIN c = 0..Depth /\ c[0] = start
       /\ \A i \in 1..Depth : c[i] = Hop(c[i - 1])
    BY <1>1, <1>9
<1>11. PICK S \in SUBSET Nat : S = {i \in Nat : i <= Depth => c[i] \in Name}
    OBVIOUS
<1>12. 0 \in S
    BY <1>10, <1>11
<1>13. ASSUME NEW i \in S
       PROVE  i + 1 \in S
    <2>1. SUFFICES ASSUME i + 1 <= Depth
                   PROVE  c[i + 1] \in Name
        BY <1>11
    <2>2. i + 1 \in 1..Depth /\ (i + 1) - 1 = i /\ i <= Depth
        BY <1>1, <2>1
    <2>3. c[i] \in Name
        BY <1>11, <2>2
    <2>4. c[i + 1] = h[c[i]]
        BY <1>3, <1>10, <2>2, <2>3
    <2> QED
        BY <2>3, <2>4
<1>14. S = Nat
    BY <1>12, <1>13, AllNaturals
<1>15. ASSUME NEW i \in 1..Depth
       PROVE  c[i] = h[c[i - 1]]
    <2>1. i - 1 \in Nat /\ i - 1 <= Depth
        BY <1>1
    <2>2. c[i - 1] \in Name
        BY <1>11, <1>14, <2>1
    <2> QED
        BY <1>3, <1>10, <2>2
<1>16. IsWalk(h, start, Depth, c)
    BY <1>10, <1>15 DEF IsWalk
<1>17. ASSUME NEW i \in 0..Depth
       PROVE  c[i] = Iterated(h, start, i)
    BY <1>1, <1>16, WalkIsIterated
<1> QED
    BY <1>2, <1>5, <1>10, <1>17

\* What a section gives away of a zone: some names' aliases, and nothing else of class IN
\* but records that names hold.
Reveals(held, given, answers) ==
    /\ \A m \in given : held[m] \in Name /\ Alias(m, "IN", held[m]) \in Range(answers)
    /\ \A rr \in Range(answers) :
          rr.class = "IN" => \/ \E m \in given : rr = Alias(m, "IN", held[m])
                             \/ \E m \in Name : held[m] = "records" /\ rr = Held(m, "IN")

\* A hop by such a section is one by the zone, where it gives the alias.
LEMMA HopsAreRevealed ==
    ASSUME NEW held \in Zones, NEW given \in SUBSET Name, NEW answers \in Seq(AnswerRecord),
           Reveals(held, given, answers), NEW m \in Name
    PROVE  /\ m \in given => Given(answers)[m] = Following(held)[m]
           /\ m \notin given => Given(answers)[m] = m
<1>1. \A n \in Name : NamesEqual(n, m) <=> n = m
    BY CnameAssumption DEF NamesEqual
<1>2. PICK len \in Nat : DOMAIN answers = 1..len
    OBVIOUS
<1>3. PICK at \in SUBSET (1..len) : at = {i \in DOMAIN answers : IsUnder(answers[i], m)}
    BY <1>2
<1>4. ASSUME NEW i \in at
      PROVE  \/ m \in given /\ answers[i] = Alias(m, "IN", held[m])
             \/ held[m] = "records" /\ answers[i] = Held(m, "IN")
    <2>1. answers[i] \in Range(answers) /\ IsUnder(answers[i], m)
        BY <1>3 DEF Range
    <2>2. answers[i].class = "IN" /\ NamesEqual(answers[i].name, m)
        BY <2>1 DEF IsUnder
    <2>3. CASE \E n \in given : answers[i] = Alias(n, "IN", held[n])
        <3>1. PICK n \in given : answers[i] = Alias(n, "IN", held[n])
            BY <2>3
        <3>2. answers[i].name = n
            BY <3>1 DEF Alias, Record
        <3>3. n = m
            BY <1>1, <2>2, <3>2
        <3> QED
            BY <3>1, <3>3
    <2>4. CASE \E n \in Name : held[n] = "records" /\ answers[i] = Held(n, "IN")
        <3>1. PICK n \in Name : held[n] = "records" /\ answers[i] = Held(n, "IN")
            BY <2>4
        <3>2. answers[i].name = n
            BY <3>1 DEF Held, Record
        <3>3. n = m
            BY <1>1, <2>2, <3>2
        <3> QED
            BY <3>1, <3>3
    <2> QED
        BY <2>1, <2>2, <2>3, <2>4 DEF Reveals
<1>5. Given(answers)[m] = LET alias == AliasUnder(answers, m)
                          IN IF alias = {} THEN m ELSE (CHOOSE rr \in alias : TRUE).data
    BY DEF Given
<1>6. CASE m \in given
    <2>1. held[m] \in Name /\ held[m] # "records" /\ Following(held)[m] = held[m]
        BY <1>6, CnameAssumption DEF Reveals, Rest, Following
    <2>2. PICK i \in DOMAIN answers : answers[i] = Alias(m, "IN", held[m])
        BY <1>6 DEF Reveals, Range
    <2>3. i \in at
        BY <1>1, <1>3, <2>2 DEF IsUnder, Alias, Record
    <2>4. PICK first \in at : \A j \in at : first <= j
        <3>1. at \in SUBSET Nat
            BY <1>3
        <3> QED
            BY <2>3, <3>1, LeastMember
    <2>5. answers[first] = Alias(m, "IN", held[m])
        BY <1>4, <2>1
    <2>6. ASSUME NEW j \in 1..(first - 1)
          PROVE  ~IsUnder(answers[j], m)
        <3>1. first \in 1..len /\ j \in DOMAIN answers /\ ~(first <= j)
            BY <1>2, <1>3
        <3> QED
            BY <1>3, <2>4, <3>1
    <2>7. answers[first] \in AliasUnder(answers, m)
        <3>1. IsCname(answers[first]) /\ IsUnder(answers[first], m) /\ first \in DOMAIN answers
            BY <1>3, <2>5 DEF IsCname, Alias, Record
        <3> QED
            BY <2>6, <3>1 DEF AliasUnder
    <2>8. ASSUME NEW rr \in AliasUnder(answers, m)
          PROVE  rr.data = held[m]
        <3>1. PICK j \in DOMAIN answers : rr = answers[j] /\ IsUnder(answers[j], m)
            BY DEF AliasUnder
        <3>2. rr = Alias(m, "IN", held[m])
            BY <1>3, <1>4, <2>1, <3>1
        <3> QED
            BY <3>2 DEF Alias, Record
    <2>9. PICK rr \in AliasUnder(answers, m) : Given(answers)[m] = rr.data
        BY <1>5, <2>7
    <2> QED
        BY <1>6, <2>1, <2>8, <2>9
<1>7. CASE m \notin given
    <2>1. ASSUME NEW rr \in AliasUnder(answers, m)
          PROVE  FALSE
        <3>1. PICK j \in DOMAIN answers : rr = answers[j] /\ IsUnder(answers[j], m) /\ IsCname(rr)
            BY DEF AliasUnder
        <3>2. rr = Held(m, "IN")
            BY <1>3, <1>4, <1>7, <3>1
        <3> QED
            BY <3>1, <3>2 DEF Held, Record, IsCname
    <2> QED
        BY <1>5, <1>7, <2>1
<1> QED
    BY <1>6, <1>7

-----------------------------------------------------------------------------
(* The inductive invariant. *)

\* What a nameserver's response to a query for n says of a zone: the first k aliases
\* from n and, if it is whole, what the name there holds.
Tells(held, n, r, k, whole) ==
    LET end == At(held, n, k)
    IN /\ k = 0 => whole
       /\ whole => held[end] \notin Name
       /\ r.rcode = IF whole /\ held[end] = "nxdomain" THEN "nxdomain" ELSE "noerror"
       /\ whole /\ held[end] = "records" => Held(end, "IN") \in Range(r.answers)
       /\ Reveals(held, {At(held, n, i) : i \in 0..(k - 1)}, r.answers)

Replies(held, n, r) ==
    \E k \in 0..Cardinality(Name), whole \in BOOLEAN : Tells(held, n, r, k, whole)

\* n is what i aliases lead to.
AliasedBy(held, n, i) == /\ n = At(held, Host, i)
                         /\ \A j \in 0..(i - 1) : held[At(held, Host, j)] \in Name

Verdicts == {NoData, NxDomain, InvalidResponse, Failed}

TypesOK ==
    /\ zone \in Zones /\ changes \in Nat /\ current \in Name /\ queries \in 0..Depth
    /\ result = Pending => queries < Depth
    /\ response.rcode \in {"none", "noerror", "nxdomain"}
    /\ response.answers \in Seq(AnswerRecord)
    /\ response.rcode = "none" => response = None
    /\ \/ result = Pending
       \/ result \in Verdicts
       \/ \E owners \in (SUBSET Name) \ {{}}, ttl \in 0..U32Max : result = Positive(owners, ttl)

\* What is known of names was theirs once.
HistoryOK ==
    /\ seen \in [Name -> SUBSET (Name \cup Rest)]
    /\ \A n \in Name : zone[n] \in seen[n]
    /\ current \in EverReached(Host)
    /\ \A rr \in Range(response.answers) :
          rr.class = "IN" => IF IsCname(rr) THEN rr.data \in seen[rr.name]
                                            ELSE "records" \in seen[rr.name]

\* While nothing has changed, a query has followed as many aliases as it has passes, at
\* least, and what it looks at is the zone's.
UnderwayOK ==
    changes = 0 /\ result = Pending =>
        /\ queries = 0 => current = Host
        /\ \E i \in Nat : queries <= i /\ AliasedBy(zone, current, i)
        /\ response # None => Replies(zone, current, response)

\* And once it is over, its result is what the zone has at the end.
EndOK ==
    changes = 0 =>
        /\ result = InvalidResponse => \E i \in Nat : Depth <= i /\ AliasedBy(zone, current, i)
        /\ result = NxDomain => \E i \in Nat : zone[At(zone, Host, i)] = "nxdomain"
        /\ result = NoData => \/ \E i \in Nat : zone[At(zone, Host, i)] = "nodata"
                              \/ \A i \in Nat : zone[At(zone, Host, i)] \in Name
        /\ result.kind = "positive" =>
              \E i \in Nat : /\ zone[At(zone, Host, i)] = "records"
                             /\ result.owners = {At(zone, Host, i)}

\* The aliases it has followed bound the TTL of an answer to a single query.
TtlOK ==
    changes = 0 /\ queries = 0 /\ result.kind = "positive" =>
        \A i \in Nat : result.ttl <= Ttl[At(zone, Host, i)]

Inv == TypesOK /\ HistoryOK /\ AnswersOnChain /\ UnderwayOK /\ EndOK /\ TtlOK

-----------------------------------------------------------------------------
(* What a nameserver's response says. *)

\* The members of sequences put together are those of either.
LEMMA RangeOfConcat ==
    ASSUME NEW S, NEW s \in Seq(S), NEW t \in Seq(S)
    PROVE  s \o t \in Seq(S) /\ Range(s \o t) = Range(s) \cup Range(t)
<1>1. PICK m \in Nat : m = Len(s) /\ DOMAIN s = 1..m
    OBVIOUS
<1>2. PICK n \in Nat : n = Len(t) /\ DOMAIN t = 1..n
    OBVIOUS
<1>3. PICK u \in Seq(S) : u = s \o t
    BY ConcatProperties
<1>4. DOMAIN u = 1..(m + n)
    BY <1>1, <1>2, <1>3
<1>5. ASSUME NEW i \in 1..(m + n)
      PROVE  u[i] = IF i <= m THEN s[i] ELSE t[i - m]
    BY <1>1, <1>2, <1>3
<1>6. ASSUME NEW i \in DOMAIN u
      PROVE  u[i] \in Range(s) \cup Range(t)
    <2>1. CASE i <= m
        BY <1>1, <1>4, <1>5, <2>1 DEF Range
    <2>2. CASE ~(i <= m)
        <3>1. i - m \in 1..n /\ u[i] = t[i - m]
            BY <1>4, <1>5, <2>2
        <3> QED
            BY <1>2, <3>1 DEF Range
    <2> QED
        BY <2>1, <2>2
<1>7. ASSUME NEW i \in DOMAIN s
      PROVE  s[i] \in Range(u)
    <2>1. i \in DOMAIN u /\ u[i] = s[i]
        BY <1>1, <1>4, <1>5
    <2> QED
        BY <2>1 DEF Range
<1>8. ASSUME NEW i \in DOMAIN t
      PROVE  t[i] \in Range(u)
    <2>1. m + i \in DOMAIN u /\ ~(m + i <= m) /\ (m + i) - m = i
        BY <1>2, <1>4
    <2>2. u[m + i] = t[i]
        BY <1>4, <1>5, <2>1
    <2> QED
        BY <2>1, <2>2 DEF Range
<1>9. Range(u) = Range(s) \cup Range(t)
    BY <1>6, <1>7, <1>8 DEF Range
<1> QED
    BY <1>3, <1>9

\* As are those of a reversed one.
LEMMA RangeOfReverse ==
    ASSUME NEW S, NEW s \in Seq(S)
    PROVE  Reverse(s) \in Seq(S) /\ Range(Reverse(s)) = Range(s)
<1>1. PICK n \in Nat : n = Len(s) /\ DOMAIN s = 1..n
    OBVIOUS
<1>2. PICK r : r = Reverse(s)
    OBVIOUS
<1>3. r = [i \in 1..n |-> s[(n - i) + 1]]
    BY <1>1, <1>2 DEF Reverse
<1>4. ASSUME NEW i \in 1..n
      PROVE  (n - i) + 1 \in 1..n /\ (n - ((n - i) + 1)) + 1 = i
    OBVIOUS
<1>5. ASSUME NEW i \in 1..n
      PROVE  r[i] \in S /\ r[i] \in Range(s)
    <2>1. r[i] = s[(n - i) + 1] /\ (n - i) + 1 \in DOMAIN s
        BY <1>1, <1>3, <1>4
    <2> QED
        BY <2>1 DEF Range
<1>6. ASSUME NEW i \in DOMAIN s
      PROVE  s[i] \in Range(r)
    <2>1. PICK j \in 1..n : j = (n - i) + 1 /\ (n - j) + 1 = i
        BY <1>1, <1>4
    <2>2. r[j] = s[i] /\ j \in DOMAIN r
        BY <1>3, <2>1
    <2> QED
        BY <2>2 DEF Range
<1>7. DOMAIN r = 1..n
    BY <1>3
<1>8. r \in [1..n -> S]
    BY <1>3, <1>5
<1>9. r \in Seq(S)
    BY <1>8
<1>10. Range(r) = Range(s)
    BY <1>5, <1>6, <1>7 DEF Range
<1> QED
    BY <1>2, <1>9, <1>10

\* The records of a zone's names are records of answers.
LEMMA RecordTypes ==
    ASSUME NEW n \in Name, NEW class \in {"IN", "CH"}, NEW target \in Name
    PROVE  Alias(n, class, target) \in AnswerRecord /\ Held(n, class) \in AnswerRecord
    BY CnameAssumption DEF AnswerRecord, Alias, Held, Record

\* A walk along the aliases of a zone.
LEMMA AtSteps ==
    ASSUME NEW held \in Zones, NEW n \in Name
    PROVE  /\ Following(held) \in [Name -> Name]
           /\ At(held, n, 0) = n
           /\ \A i \in Nat : /\ At(held, n, i) \in Name
                             /\ At(held, n, i + 1) = IF held[At(held, n, i)] \in Name
                                                     THEN held[At(held, n, i)]
                                                     ELSE At(held, n, i)
<1>1. PICK h \in [Name -> Name] : h = Following(held)
    BY DEF Following
<1>2. ASSUME NEW i \in Nat
      PROVE  /\ Iterated(h, n, i) \in Name
             /\ Iterated(h, n, i + 1) = IF held[Iterated(h, n, i)] \in Name
                                        THEN held[Iterated(h, n, i)]
                                        ELSE Iterated(h, n, i)
    <2>1. Iterated(h, n, i) \in Name /\ Iterated(h, n, i + 1) = h[Iterated(h, n, i)]
        BY IteratedSteps
    <2> QED
        BY <1>1, <2>1 DEF Following
<1>3. Iterated(h, n, 0) = n
    BY IteratedSteps
<1> QED
    BY <1>1, <1>2, <1>3 DEF At

\* What is beside the chain in an answer: of class IN, only what a name holds.
LEMMA StraysAreRecords ==
    ASSUME zone \in Zones, NEW n \in Name, NEW stray \in Strays(n)
    PROVE  /\ stray \in Seq(AnswerRecord)
           /\ \A rr \in Range(stray) :
                 rr.class = "IN" => \E m \in Name : zone[m] = "records" /\ rr = Held(m, "IN")
<1>1. CASE stray = <<>>
    BY <1>1 DEF Range
<1>2. CASE stray \in {<<Held(m, "IN")>> : m \in {m \in Name : zone[m] = "records"}}
    <2>1. PICK m \in Name : zone[m] = "records" /\ stray = <<Held(m, "IN")>>
        BY <1>2
    <2>2. PICK rr \in AnswerRecord : rr = Held(m, "IN")
        BY RecordTypes
    <2>3. stray = <<rr>>
        BY <2>1, <2>2
    <2>4. stray \in Seq(AnswerRecord) /\ \A other \in Range(stray) : other = rr
        BY <2>3 DEF Range
    <2> QED
        BY <2>1, <2>2, <2>4
<1>3. CASE stray = <<Held(n, "CH")>> \/ stray \in {<<Alias(n, "CH", m)>> : m \in Name}
    <2>1. PICK rr \in AnswerRecord : stray = <<rr>> /\ rr.class = "CH"
        <3>1. CASE stray = <<Held(n, "CH")>>
            BY <3>1, RecordTypes DEF Held, Record
        <3>2. CASE stray # <<Held(n, "CH")>>
            <4>1. PICK m \in Name : stray = <<Alias(n, "CH", m)>>
                BY <1>3, <3>2
            <4>2. Alias(n, "CH", m) \in AnswerRecord /\ Alias(n, "CH", m).class = "CH"
                BY RecordTypes DEF Alias, Record
            <4> QED
                BY <4>1, <4>2
        <3> QED
            BY <3>1, <3>2
    <2>2. stray \in Seq(AnswerRecord) /\ \A other \in Range(stray) : other = rr
        BY <2>1 DEF Range
    <2> QED
        BY <2>1, <2>2
<1> QED
    BY <1>1, <1>2, <1>3 DEF Strays

\* A response that Serve makes tells what its parts do.
LEMMA ServedTells ==
    ASSUME zone \in Zones, NEW n \in Name, NEW k \in 0..Cardinality(Name), Cardinality(Name) \in Nat,
           NEW whole \in BOOLEAN, NEW stray \in Strays(n),
           CanGive(n, k), k = 0 => whole, whole => ~IsAlias(After(n, k)),
           NEW held, held = IF whole /\ zone[After(n, k)] = "records"
                            THEN <<Held(After(n, k), "IN")>> ELSE <<>>,
           NEW answers, answers \in {stray \o Aliases(n, k) \o held,
                                     Reverse(stray \o Aliases(n, k) \o held)},
           NEW r, r = [rcode |-> IF whole /\ zone[After(n, k)] = "nxdomain" THEN "nxdomain"
                                 ELSE "noerror",
                       answers |-> answers]
    PROVE  r.answers \in Seq(AnswerRecord) /\ Tells(zone, n, r, k, whole)
<1>1. ASSUME NEW i \in Nat
      PROVE  /\ After(n, i) = At(zone, n, i) /\ At(zone, n, i) \in Name
             /\ zone[At(zone, n, i)] \in Name => At(zone, n, i + 1) = zone[At(zone, n, i)]
    BY AfterIsAt, AtSteps
<1>2. PICK end \in Name : end = After(n, k) /\ end = At(zone, n, k)
    BY <1>1
<1>3. PICK along \in Seq(AnswerRecord) : along = Aliases(n, k)
                                         /\ Range(along) = {along[i] : i \in 1..k}
    <2>1. PICK along : along = [i \in 1..k |-> Alias(After(n, i - 1), "IN", After(n, i))]
        OBVIOUS
    <2>2. ASSUME NEW i \in 1..k
          PROVE  along[i] \in AnswerRecord
        <3>1. i - 1 \in Nat /\ i \in Nat
            OBVIOUS
        <3>2. PICK m \in Name : m = After(n, i - 1)
            BY <1>1, <3>1
        <3>3. PICK l \in Name : l = After(n, i)
            BY <1>1, <3>1
        <3>4. Alias(m, "IN", l) \in AnswerRecord
            BY RecordTypes
        <3> QED
            BY <2>1, <3>2, <3>3, <3>4
    <2>3. along \in [1..k -> AnswerRecord]
        BY <2>1, <2>2
    <2>4. along \in Seq(AnswerRecord) /\ DOMAIN along = 1..k
        BY <2>3
    <2> QED
        BY <2>1, <2>4 DEF Aliases, Range
<1>4. ASSUME NEW i \in 1..k
      PROVE  \E m \in Name : /\ m = At(zone, n, i - 1) /\ zone[m] \in Name
                             /\ along[i] = Alias(m, "IN", zone[m])
    <2>1. i - 1 \in Nat /\ i - 1 \in 0..(k - 1) /\ (i - 1) + 1 = i
        OBVIOUS
    <2>2. PICK m \in Name : m = At(zone, n, i - 1) /\ m = After(n, i - 1)
        BY <1>1, <2>1
    <2>3. zone[m] \in Name
        BY <2>1, <2>2 DEF CanGive, IsAlias
    <2>4. After(n, i) = zone[m]
        BY <1>1, <2>1, <2>2, <2>3
    <2>5. along[i] = Alias(After(n, i - 1), "IN", After(n, i))
        BY <1>3 DEF Aliases
    <2> QED
        BY <2>2, <2>3, <2>4, <2>5
<1>5. /\ held \in Seq(AnswerRecord)
      /\ \A rr \in Range(held) : zone[end] = "records" /\ rr = Held(end, "IN")
      /\ whole /\ zone[end] = "records" => Held(end, "IN") \in Range(held)
    <2>1. PICK rr \in AnswerRecord : rr = Held(end, "IN")
        BY RecordTypes
    <2>2. CASE whole /\ zone[end] = "records"
        <3>1. held = <<rr>>
            BY <1>2, <2>1, <2>2
        <3>2. held \in Seq(AnswerRecord) /\ Range(held) = {rr}
            BY <3>1 DEF Range
        <3> QED
            BY <2>1, <2>2, <3>2
    <2>3. CASE ~(whole /\ zone[end] = "records")
        <3>1. held = <<>>
            BY <1>2, <2>3
        <3> QED
            BY <2>3, <3>1 DEF Range
    <2> QED
        BY <2>2, <2>3
<1>6. /\ stray \in Seq(AnswerRecord)
      /\ \A rr \in Range(stray) :
            rr.class = "IN" => \E m \in Name : zone[m] = "records" /\ rr = Held(m, "IN")
    BY StraysAreRecords
<1>7. PICK all \in Seq(AnswerRecord) : /\ all = stray \o Aliases(n, k) \o held
                                       /\ Range(all) = Range(stray) \cup Range(along) \cup Range(held)
    <2>1. PICK front \in Seq(AnswerRecord) : front = stray \o along
                                             /\ Range(front) = Range(stray) \cup Range(along)
        BY <1>6, RangeOfConcat
    <2>2. front \o held \in Seq(AnswerRecord) /\ Range(front \o held) = Range(front) \cup Range(held)
        BY <1>5, RangeOfConcat
    <2> QED
        BY <1>3, <2>1, <2>2
<1>8. answers \in Seq(AnswerRecord) /\ Range(answers) = Range(all)
    <2>1. Reverse(all) \in Seq(AnswerRecord) /\ Range(Reverse(all)) = Range(all)
        BY RangeOfReverse
    <2> QED
        BY <1>7, <2>1
<1>9. PICK given \in SUBSET Name : given = {At(zone, n, i) : i \in 0..(k - 1)}
    <2>1. PICK given : given = {At(zone, n, i) : i \in 0..(k - 1)}
        OBVIOUS
    <2>2. \A i \in 0..(k - 1) : At(zone, n, i) \in Name
        BY <1>1
    <2>3. given \in SUBSET Name
        BY <2>1, <2>2
    <2> QED
        BY <2>1, <2>3
<1>10. ASSUME NEW m \in given
       PROVE  zone[m] \in Name /\ Alias(m, "IN", zone[m]) \in Range(answers)
    <2>1. PICK i \in 0..(k - 1) : m = At(zone, n, i)
        BY <1>9
    <2>2. PICK j \in 1..k : j - 1 = i
        <3>1. i + 1 \in 1..k /\ (i + 1) - 1 = i
            OBVIOUS
        <3> QED
            BY <3>1
    <2>3. zone[m] \in Name /\ along[j] = Alias(m, "IN", zone[m])
        BY <1>4, <2>1, <2>2
    <2>4. along[j] \in Range(along)
        BY <1>3
    <2> QED
        BY <1>7, <1>8, <2>3, <2>4
<1>11. ASSUME NEW rr \in Range(answers), rr.class = "IN"
       PROVE  \/ \E m \in given : rr = Alias(m, "IN", zone[m])
              \/ \E m \in Name : zone[m] = "records" /\ rr = Held(m, "IN")
    <2>1. CASE rr \in Range(along)
        <3>1. PICK i \in 1..k : rr = along[i]
            BY <1>3, <2>1
        <3>2. PICK m \in Name : m = At(zone, n, i - 1) /\ along[i] = Alias(m, "IN", zone[m])
            BY <1>4
        <3>3. i - 1 \in 0..(k - 1)
            OBVIOUS
        <3> QED
            BY <1>9, <3>1, <3>2, <3>3
    <2>2. CASE rr \in Range(stray)
        BY <1>6, <1>11, <2>2
    <2>3. CASE rr \in Range(held)
        BY <1>5, <2>3
    <2> QED
        BY <1>7, <1>8, <2>1, <2>2, <2>3
<1>12. Reveals(zone, given, answers)
    BY <1>10, <1>11 DEF Reveals
<1>13. whole /\ zone[end] = "records" => Held(end, "IN") \in Range(answers)
    BY <1>5, <1>7, <1>8
<1>14. r.answers = answers
       /\ r.rcode = IF whole /\ zone[end] = "nxdomain" THEN "nxdomain" ELSE "noerror"
    BY <1>2
<1>15. whole => zone[end] \notin Name
    BY <1>2 DEF IsAlias
<1>16. Tells(zone, n, r, k, whole)
    BY <1>2, <1>9, <1>12, <1>13, <1>14, <1>15 DEF Tells
<1> QED
    BY <1>8, <1>14, <1>16

-----------------------------------------------------------------------------
(* Where the walk ends. *)

\* It goes on from where it is.
LEMMA AtTwice ==
    ASSUME NEW held \in Zones, NEW n \in Name, NEW i \in Nat, NEW j \in Nat
    PROVE  At(held, At(held, n, i), j) = At(held, n, i + j)
<1>1. PICK h \in [Name -> Name] : h = Following(held)
    BY AtSteps
<1> QED
    BY <1>1, IteratedTwice DEF At

\* It stays at a name that is no alias.
LEMMA AtStays ==
    ASSUME NEW held \in Zones, NEW n \in Name, NEW i \in Nat, NEW j \in Nat, i <= j,
           held[At(held, n, i)] \notin Name
    PROVE  At(held, n, j) = At(held, n, i)
<1>1. PICK h \in [Name -> Name] : h = Following(held)
    BY AtSteps
<1>2. PICK m \in Name : m = At(held, n, i)
    BY AtSteps
<1>3. h[m] = m
    BY <1>1, <1>2 DEF Following
<1> QED
    BY <1>1, <1>2, <1>3, IteratedStays DEF At

\* So there is one such name.
LEMMA OneEnd ==
    ASSUME NEW held \in Zones, NEW n \in Name, NEW i \in Nat, NEW j \in Nat,
           held[At(held, n, i)] \notin Name, held[At(held, n, j)] \notin Name
    PROVE  At(held, n, i) = At(held, n, j)
<1>1. CASE i <= j
    BY <1>1, AtStays
<1>2. CASE j <= i
    BY <1>2, AtStays
<1> QED
    BY <1>1, <1>2

\* It takes fewer hops than there are names: a name that comes twice comes for ever.
LEMMA EndIsNear ==
    ASSUME NEW held \in Zones, NEW n \in Name, NEW i \in Nat, held[At(held, n, i)] \notin Name
    PROVE  \E hops \in 0..Cardinality(Name) : /\ held[At(held, n, hops)] \notin Name
                                              /\ \A j \in 0..(hops - 1) : held[At(held, n, j)] \in Name
<1>1. PICK S \in SUBSET Nat : S = {j \in Nat : held[At(held, n, j)] \notin Name}
    OBVIOUS
<1>2. PICK hops \in S : \A j \in S : hops <= j
    <2>1. i \in S
        BY <1>1
    <2> QED
        BY <2>1, LeastMember
<1>3. hops \in Nat /\ held[At(held, n, hops)] \notin Name
    BY <1>1
<1>4. \A j \in 0..(hops - 1) : held[At(held, n, j)] \in Name
    <2>1. SUFFICES ASSUME NEW j \in 0..(hops - 1)
                   PROVE  held[At(held, n, j)] \in Name
        OBVIOUS
    <2>2. j \in Nat /\ ~(hops <= j)
        BY <1>3
    <2> QED
        BY <1>1, <1>2, <2>2
<1>5. PICK path : path = [j \in 0..hops |-> At(held, n, j)]
    OBVIOUS
<1>6. ASSUME NEW a \in 0..hops, NEW b \in 0..hops, a < b
      PROVE  path[a] # path[b]
    <2>1. a \in Nat /\ b \in Nat /\ hops - b \in Nat /\ a + (hops - b) \in 0..(hops - 1)
          /\ b + (hops - b) = hops
        BY <1>3, <1>6
    <2>2. PICK rest \in Nat : rest = hops - b
        BY <2>1
    <2>3. SUFFICES ASSUME At(held, n, a) = At(held, n, b)
                   PROVE  FALSE
        BY <1>5
    <2>4. At(held, n, a + rest) = At(held, n, b + rest)
        <3>1. At(held, At(held, n, a), rest) = At(held, n, a + rest)
            BY <2>1, AtTwice
        <3>2. At(held, At(held, n, b), rest) = At(held, n, b + rest)
            BY <2>1, AtTwice
        <3> QED
            BY <2>3, <3>1, <3>2
    <2> QED
        BY <1>3, <1>4, <2>1, <2>2, <2>4
<1>7. ASSUME NEW a \in 0..hops, NEW b \in 0..hops, path[a] = path[b]
      PROVE  a = b
    <2>1. ~(a < b) /\ ~(b < a)
        BY <1>6, <1>7
    <2> QED
        BY <1>3, <2>1
<1>8. path \in [0..hops -> Name]
    BY <1>3, <1>5, AtSteps
<1>9. path \in Injection(0..hops, Name)
    BY <1>7, <1>8 DEF Injection, IsInjective
<1>10. IsFiniteSet(Name) /\ Cardinality(Name) \in Nat
    BY CnameAssumption, FS_CardinalityType
<1>11. Cardinality(0..hops) <= Cardinality(Name) /\ Cardinality(0..hops) = hops + 1
    <2>1. 0 \in Int /\ hops \in Int /\ ~(0 > hops)
        BY <1>3
    <2>2. IsFiniteSet(0..hops) /\ Cardinality(0..hops) = hops - 0 + 1
        BY <2>1, FS_Interval
    <2>3. Cardinality(0..hops) <= Cardinality(Name)
        BY <1>9, <1>10, <2>2, FS_Injection
    <2> QED
        BY <1>3, <2>2, <2>3
<1>12. hops \in 0..Cardinality(Name)
    BY <1>3, <1>10, <1>11
<1> QED
    BY <1>3, <1>4, <1>12

\* A walk that comes back to where it began, by aliases, never ends.
LEMMA LoopsNeverEnd ==
    ASSUME NEW held \in Zones, NEW n \in Name, NEW m \in Nat \ {0}, At(held, n, m) = n,
           \A i \in 0..(m - 1) : held[At(held, n, i)] \in Name
    PROVE  \A i \in Nat : held[At(held, n, i)] \in Name
<1>1. PICK S \in SUBSET Nat : S = {i \in Nat : held[At(held, n, i)] \notin Name}
    OBVIOUS
<1>2. SUFFICES ASSUME S # {}
               PROVE  FALSE
    BY <1>1
<1>3. PICK p \in S : \A j \in S : p <= j
    BY <1>2, LeastMember
<1>4. p \in Nat /\ held[At(held, n, p)] \notin Name
    BY <1>1
<1>5. PICK q \in Nat : p = m + q
    <2>1. ~(p \in 0..(m - 1))
        BY <1>4
    <2>2. p - m \in Nat /\ m + (p - m) = p
        BY <1>4, <2>1
    <2> QED
        BY <2>2
<1>6. At(held, n, p) = At(held, n, q)
    BY <1>5, AtTwice
<1>7. q \in S /\ ~(p <= q)
    BY <1>1, <1>4, <1>5, <1>6
<1> QED
    BY <1>3, <1>7

-----------------------------------------------------------------------------
(* What the query makes of a response. *)

\* The chain in an answer section leads along that of the zone, until an alias is missing.
LEMMA ChainFollows ==
    ASSUME NEW held \in Zones, NEW n \in Name, NEW answers \in Seq(AnswerRecord), NEW k \in Nat,
           NEW given, given = {At(held, n, i) : i \in 0..(k - 1)}, Reveals(held, given, answers),
           NEW j \in 0..Depth
    PROVE  \E m \in 0..j : /\ \A i \in 0..m : Chain(answers, n)[i] = At(held, n, i)
                           /\ \A i \in 0..(m - 1) : At(held, n, i) \in given
                           /\ Chain(answers, n)[j] = At(held, n, m)
                           /\ m < j => At(held, n, m) \notin given
<1>1. Depth \in Nat /\ j \in Nat
    BY AnswersAssumption
<1>2. PICK h \in [Name -> Name] : h = Following(held)
    BY AtSteps
<1>3. PICK g \in [Name -> Name] : g = Given(answers)
    BY GivenIsMap
<1>4. given \in SUBSET Name
    <2>1. \A i \in 0..(k - 1) : At(held, n, i) \in Name
        BY AtSteps
    <2> QED
        BY <2>1
<1>5. IsPart(g, h, given)
    <2>1. ASSUME NEW m \in Name
          PROVE  /\ m \in given => Given(answers)[m] = Following(held)[m]
                 /\ m \notin given => Given(answers)[m] = m
        BY <1>4, HopsAreRevealed
    <2> QED
        BY <1>2, <1>3, <2>1 DEF IsPart
<1>6. PICK m \in 0..j : GoesAlong(g, h, n, given, j, m)
    BY <1>1, <1>5, PartialWalk
<1>7. \A i \in 0..Depth : Chain(answers, n)[i] = Iterated(g, n, i)
    BY <1>3, ChainIsWalk
<1>8. \A i \in 0..m : i \in 0..Depth
    BY <1>1
<1>9. \A i \in 0..m : Chain(answers, n)[i] = At(held, n, i)
    BY <1>2, <1>6, <1>7, <1>8 DEF At, GoesAlong
<1> QED
    BY <1>2, <1>6, <1>7, <1>9 DEF At, GoesAlong

\* A record is on the chain if its name is, and the chain's names are those it has a
\* hop for.
LEMMA OnTheChain ==
    ASSUME NEW answers \in Seq(AnswerRecord), NEW n \in Name, NEW i
    PROVE  /\ i \in OnChain(answers, n) =>
                  i \in DOMAIN answers /\ answers[i].class = "IN"
                  /\ \E j \in 0..Depth : answers[i].name = Chain(answers, n)[j]
           /\ \A j \in 0..Depth :
                  /\ i \in DOMAIN answers /\ answers[i].class = "IN"
                  /\ answers[i].name = Chain(answers, n)[j]
                  => i \in OnChain(answers, n)
<1>1. PICK c : c = Chain(answers, n)
    OBVIOUS
<1>2. PICK h \in [Name -> Name] : h = Given(answers)
    BY GivenIsMap
<1>3. DOMAIN c = 0..Depth /\ \A j \in 0..Depth : c[j] = Iterated(h, n, j)
    BY <1>1, <1>2, ChainIsWalk
<1>4. ASSUME NEW j \in 0..Depth
      PROVE  c[j] \in Name /\ c[j] \in Range(c)
    <2>1. j \in Nat
        BY AnswersAssumption
    <2>2. c[j] \in Name
        BY <1>3, <2>1, IteratedSteps
    <2> QED
        BY <1>3, <2>2 DEF Range
<1>5. ASSUME i \in OnChain(answers, n)
      PROVE  /\ i \in DOMAIN answers /\ answers[i].class = "IN"
             /\ \E j \in 0..Depth : answers[i].name = c[j]
    <2>1. PICK m \in Range(c) : i \in DOMAIN answers /\ IsUnder(answers[i], m)
        BY <1>1, <1>5 DEF OnChain
    <2>2. PICK j \in 0..Depth : m = c[j]
        BY <1>3 DEF Range
    <2>3. answers[i] \in AnswerRecord /\ m \in Name
        BY <1>4, <2>1, <2>2
    <2>4. answers[i].name \in Name
        BY <2>3 DEF AnswerRecord
    <2>5. answers[i].class = "IN" /\ NamesEqual(answers[i].name, m)
        BY <2>1 DEF IsUnder
    <2>6. answers[i].name = m
        BY <2>3, <2>4, <2>5, CnameAssumption
    <2> QED
        BY <2>1, <2>2, <2>5, <2>6
<1>6. ASSUME NEW j \in 0..Depth, i \in DOMAIN answers, answers[i].class = "IN",
             answers[i].name = c[j]
      PROVE  i \in OnChain(answers, n)
    <2>1. IsUnder(answers[i], c[j])
        BY <1>6 DEF IsUnder, NamesEqual
    <2> QED
        BY <1>1, <1>4, <1>6, <2>1 DEF OnChain
<1> QED
    BY <1>1, <1>5, <1>6

\* The TTL of a response is no longer than that of any wanted record in it.
LEMMA LeastTtlBounds ==
    ASSUME NEW answers \in Seq(AnswerRecord), NEW n \in Name
    PROVE  /\ LeastTtl(answers, n, "wanted") \in 0..U32Max
           /\ \A i \in OnChain(answers, n) :
                 /\ answers[i].ttl \in 0..U32Max
                 /\ LeastTtl(answers, n, "wanted") <= answers[i].ttl
<1>1. U32Max \in Nat
    BY AnswersAssumption
<1>2. PICK read : read = {i \in OnChain(answers, n) : IsCname(answers[i]) \/ answers[i].type = "wanted"}
    OBVIOUS
<1>3. PICK ttls : ttls = {U32Max} \cup {answers[i].ttl : i \in read}
    OBVIOUS
<1>4. ASSUME NEW i \in OnChain(answers, n)
      PROVE  i \in read /\ answers[i].ttl \in 0..U32Max
    <2>1. answers[i] \in AnswerRecord
        BY OnTheChain
    <2> QED
        BY <1>2, <2>1 DEF AnswerRecord, IsCname
<1>5. ttls \in SUBSET (0..U32Max)
    BY <1>1, <1>2, <1>3, <1>4
<1>6. \E t \in ttls : \A other \in ttls : t <= other
    <2>1. ttls \in SUBSET Nat /\ ttls # {}
        BY <1>3, <1>5
    <2> QED
        BY <2>1, LeastMember
<1>7. PICK least \in ttls : /\ least = CHOOSE t \in ttls : \A other \in ttls : t <= other
                            /\ \A other \in ttls : least <= other
    BY <1>6
<1>8. LeastTtl(answers, n, "wanted") = IF least = U32Max THEN 0 ELSE least
    BY <1>2, <1>3, <1>7 DEF LeastTtl
<1>9. LeastTtl(answers, n, "wanted") \in 0..U32Max /\ LeastTtl(answers, n, "wanted") <= least
    BY <1>1, <1>5, <1>8
<1>10. ASSUME NEW i \in OnChain(answers, n)
       PROVE  LeastTtl(answers, n, "wanted") <= answers[i].ttl
    <2>1. answers[i].ttl \in ttls /\ least <= answers[i].ttl
        BY <1>3, <1>4, <1>7
    <2> QED
        BY <1>1, <1>4, <1>5, <1>9, <2>1
<1> QED
    BY <1>4, <1>9, <1>10

\* A wanted record on the chain is of its end, which the zone's chain leads to as well, and
\* every alias to it has its say on the TTL.
LEMMA AnswerIsTheEnd ==
    ASSUME NEW held \in Zones, NEW n \in Name, NEW r, r.answers \in Seq(AnswerRecord),
           NEW k \in Nat, NEW whole, Tells(held, n, r, k, whole),
           NEW x \in WantedAt(r.answers, n, "wanted")
    PROVE  \E m \in Nat : /\ r.answers[x].name = At(held, n, m)
                          /\ held[At(held, n, m)] = "records"
                          /\ \A p \in Nat : LeastTtl(r.answers, n, "wanted") <= Ttl[At(held, n, p)]
<1>1. PICK answers \in Seq(AnswerRecord) : answers = r.answers
    OBVIOUS
<1>2. PICK given : given = {At(held, n, i) : i \in 0..(k - 1)}
    OBVIOUS
<1>3. Reveals(held, given, answers)
    BY <1>1, <1>2 DEF Tells
<1>4. x \in OnChain(answers, n) /\ answers[x].type = "wanted"
    BY <1>1 DEF WantedAt
<1>5. PICK j \in 0..Depth : /\ x \in DOMAIN answers /\ answers[x].class = "IN"
                            /\ answers[x].name = Chain(answers, n)[j]
    BY <1>4, OnTheChain
<1>6. PICK m \in 0..j : /\ \A i \in 0..m : Chain(answers, n)[i] = At(held, n, i)
                        /\ \A i \in 0..(m - 1) : At(held, n, i) \in given
                        /\ Chain(answers, n)[j] = At(held, n, m)
    BY <1>2, <1>3, ChainFollows
<1>7. Depth \in Nat /\ j \in Nat /\ m \in Nat
    BY AnswersAssumption
<1>8. PICK owner \in Name : owner = At(held, n, m)
    BY <1>7, AtSteps
<1>9. held[owner] = "records" /\ answers[x] = Held(owner, "IN")
    <2>1. answers[x] \in Range(answers)
        BY <1>5 DEF Range
    <2>2. ASSUME NEW l
          PROVE  answers[x] # Alias(l, "IN", held[l])
        <3>1. Alias(l, "IN", held[l]).type = "CNAME"
            BY DEF Alias, Record
        <3> QED
            BY <1>4, <3>1
    <2>3. PICK l \in Name : held[l] = "records" /\ answers[x] = Held(l, "IN")
        BY <1>3, <1>5, <2>1, <2>2 DEF Reveals
    <2>4. l = owner
        BY <1>5, <1>6, <1>8, <2>3 DEF Held, Record
    <2> QED
        BY <2>3, <2>4
<1>10. ASSUME NEW p \in Nat
       PROVE  LeastTtl(answers, n, "wanted") <= Ttl[At(held, n, p)]
    <2>1. CASE p < m
        <3>1. PICK l : l = At(held, n, p)
            OBVIOUS
        <3>2. p \in 0..(m - 1) /\ p \in 0..m /\ p \in 0..Depth
            BY <1>7, <2>1
        <3>3. l \in given /\ Chain(answers, n)[p] = l
            BY <1>6, <3>1, <3>2
        <3>4. PICK i \in DOMAIN answers : answers[i] = Alias(l, "IN", held[l])
            BY <1>3, <3>3 DEF Reveals, Range
        <3>5. answers[i].class = "IN" /\ answers[i].name = l /\ answers[i].ttl = Ttl[l]
            BY <3>4 DEF Alias, Record
        <3>6. i \in OnChain(answers, n)
            BY <3>2, <3>3, <3>5, OnTheChain
        <3> QED
            BY <3>1, <3>5, <3>6, LeastTtlBounds
    <2>2. CASE ~(p < m)
        <3>1. m <= p
            BY <1>7, <2>2
        <3>2. held[owner] \notin Name
            BY <1>9, CnameAssumption DEF Rest
        <3>3. At(held, n, p) = owner
            BY <1>7, <1>8, <3>1, <3>2, AtStays
        <3>4. answers[x].ttl = Ttl[owner]
            BY <1>9 DEF Held, Record
        <3> QED
            BY <1>4, <3>3, <3>4, LeastTtlBounds
    <2> QED
        BY <2>1, <2>2
<1> QED
    BY <1>1, <1>5, <1>6, <1>7, <1>8, <1>9, <1>10

\* A chain without wanted records that is back where it began is a name without them, or a
\* loop.
LEMMA NothingIsTheEnd ==
    ASSUME NEW held \in Zones, NEW n \in Name, NEW r, r.answers \in Seq(AnswerRecord),
           NEW k \in Nat, NEW whole, Tells(held, n, r, k, whole),
           r.rcode = "noerror", WantedAt(r.answers, n, "wanted") = {},
           Chain(r.answers, n)[Depth] = n
    PROVE  held[n] = "nodata" \/ \A i \in Nat : held[At(held, n, i)] \in Name
<1>1. PICK answers \in Seq(AnswerRecord) : answers = r.answers
    OBVIOUS
<1>2. PICK given : given = {At(held, n, i) : i \in 0..(k - 1)}
    OBVIOUS
<1>3. Reveals(held, given, answers)
    BY <1>1, <1>2 DEF Tells
<1>4. Depth \in Nat \ {0} /\ Depth \in 0..Depth
    BY AnswersAssumption
<1>5. PICK m \in 0..Depth : /\ \A i \in 0..m : Chain(answers, n)[i] = At(held, n, i)
                            /\ \A i \in 0..(m - 1) : At(held, n, i) \in given
                            /\ Chain(answers, n)[Depth] = At(held, n, m)
                            /\ m < Depth => At(held, n, m) \notin given
    BY <1>2, <1>3, <1>4, ChainFollows
<1>6. m \in Nat /\ At(held, n, m) = n /\ At(held, n, 0) = n
    <2>1. m \in Nat
        BY <1>4
    <2>2. At(held, n, 0) = n
        BY AtSteps
    <2> QED
        BY <1>1, <1>5, <2>1, <2>2
<1>7. CASE m = 0
    <2>1. n \notin given
        BY <1>4, <1>5, <1>6, <1>7
    <2>2. k = 0
        <3>1. k # 0 => 0 \in 0..(k - 1)
            OBVIOUS
        <3> QED
            BY <1>2, <1>6, <2>1, <3>1
    <2>3. whole /\ held[n] \notin Name /\ held[n] # "nxdomain"
          /\ (held[n] = "records" => Held(n, "IN") \in Range(answers))
        BY <1>1, <1>6, <2>2 DEF Tells
    <2>4. held[n] # "records"
        <3>1. SUFFICES ASSUME held[n] = "records"
                       PROVE  FALSE
            OBVIOUS
        <3>2. PICK i \in DOMAIN answers : answers[i] = Held(n, "IN")
            BY <2>3, <3>1 DEF Range
        <3>3. answers[i].class = "IN" /\ answers[i].name = n /\ answers[i].type = "wanted"
            BY <3>2 DEF Held, Record
        <3>4. 0 \in 0..Depth /\ Chain(answers, n)[0] = n
            BY <1>4, <1>5, <1>6, <1>7
        <3>5. i \in OnChain(answers, n)
            BY <3>3, <3>4, OnTheChain
        <3> QED
            BY <1>1, <3>3, <3>5 DEF WantedAt
    <2> QED
        BY <2>3, <2>4 DEF Zones, Rest
<1>8. CASE m # 0
    <2>1. \A i \in 0..(m - 1) : held[At(held, n, i)] \in Name
        BY <1>3, <1>5 DEF Reveals
    <2> QED
        BY <1>6, <1>8, <2>1, LoopsNeverEnd
<1> QED
    BY <1>7, <1>8

\* What is asked for next is one alias ahead, or more.
LEMMA TargetIsAhead ==
    ASSUME NEW held \in Zones, NEW n \in Name, NEW r, r.answers \in Seq(AnswerRecord),
           NEW k \in Nat, NEW whole, Tells(held, n, r, k, whole),
           NEW target \in Unresolved(r.answers, n, "wanted")
    PROVE  \E m \in Nat \ {0} : /\ target = At(held, n, m)
                                /\ \A i \in 0..(m - 1) : held[At(held, n, i)] \in Name
<1>1. PICK answers \in Seq(AnswerRecord) : answers = r.answers
    OBVIOUS
<1>2. PICK given : given = {At(held, n, i) : i \in 0..(k - 1)}
    OBVIOUS
<1>3. Reveals(held, given, answers)
    BY <1>1, <1>2 DEF Tells
<1>4. Depth \in 0..Depth
    BY AnswersAssumption
<1>5. PICK m \in 0..Depth : /\ \A i \in 0..(m - 1) : At(held, n, i) \in given
                            /\ Chain(answers, n)[Depth] = At(held, n, m)
    BY <1>2, <1>3, <1>4, ChainFollows
<1>6. target = At(held, n, m) /\ ~NamesEqual(target, n)
    BY <1>1, <1>5 DEF Unresolved
<1>7. m # 0
    BY <1>6, AtSteps DEF NamesEqual
<1>8. \A i \in 0..(m - 1) : held[At(held, n, i)] \in Name
    BY <1>3, <1>5 DEF Reveals
<1> QED
    BY <1>6, <1>7, <1>8

\* The names on a chain are those that aliases lead to.
LEMMA ChainStaysWithin ==
    ASSUME NEW answers \in Seq(AnswerRecord), NEW n \in Name, NEW names, n \in names,
           \A rr \in Range(answers) :
               rr.class = "IN" /\ IsCname(rr) /\ rr.name \in names => rr.data \in names,
           NEW j \in 0..Depth
    PROVE  Chain(answers, n)[j] \in names
<1>1. PICK g \in [Name -> Name] : g = Given(answers)
    BY GivenIsMap
<1>2. ASSUME NEW m \in Name, m \in names
      PROVE  g[m] \in names
    <2>1. PICK alias : alias = AliasUnder(answers, m)
        OBVIOUS
    <2>2. g[m] = IF alias = {} THEN m ELSE (CHOOSE rr \in alias : TRUE).data
        BY <1>1, <2>1 DEF Given
    <2>3. CASE alias = {}
        BY <1>2, <2>2, <2>3
    <2>4. CASE alias # {}
        <3>1. PICK rr \in alias : g[m] = rr.data
            BY <2>2, <2>4
        <3>2. PICK i \in DOMAIN answers : rr = answers[i] /\ IsUnder(rr, m) /\ IsCname(rr)
            BY <2>1, <3>1 DEF AliasUnder
        <3>3. rr \in Range(answers) /\ rr \in AnswerRecord
            BY <3>2 DEF Range
        <3>4. rr.class = "IN" /\ NamesEqual(rr.name, m) /\ rr.name \in Name
            BY <3>2, <3>3 DEF IsUnder, AnswerRecord
        <3>5. rr.name = m
            BY <3>4, CnameAssumption
        <3> QED
            BY <1>2, <3>1, <3>2, <3>3, <3>4, <3>5
    <2> QED
        BY <2>3, <2>4
<1>3. PICK S \in SUBSET Nat : S = {i \in Nat : Iterated(g, n, i) \in names}
    OBVIOUS
<1>4. 0 \in S
    BY <1>3, IteratedSteps
<1>5. ASSUME NEW i \in S
      PROVE  i + 1 \in S
    <2>1. /\ i \in Nat /\ Iterated(g, n, i) \in names /\ Iterated(g, n, i) \in Name
          /\ Iterated(g, n, i + 1) = g[Iterated(g, n, i)]
        BY <1>3, IteratedSteps
    <2> QED
        BY <1>2, <1>3, <2>1
<1>6. S = Nat
    BY <1>4, <1>5, AllNaturals
<1>7. j \in Nat
    BY AnswersAssumption
<1> QED
    BY <1>1, <1>3, <1>6, <1>7, ChainIsWalk

-----------------------------------------------------------------------------
(* What is known of the past. *)

\* The names that aliases ever led to hold what those aliases are aliases of.
LEMMA ReachedIsClosed ==
    ASSUME TypesOK, HistoryOK
    PROVE  /\ EverReached(Host) \subseteq Name
           /\ Host \in EverReached(Host)
           /\ \A a \in EverReached(Host) : seen[a] \cap Name \subseteq EverReached(Host)
<1>1. Host \in Name
    BY CnameAssumption
<1>2. EverReached(Host) \subseteq Name /\ Host \in EverReached(Host)
    BY <1>1 DEF EverReached
<1>3. ASSUME NEW a \in EverReached(Host), NEW m \in seen[a] \cap Name
      PROVE  m \in EverReached(Host)
    <2>1. SUFFICES ASSUME NEW names \in SUBSET Name, Host \in names,
                          \A b \in names : seen[b] \cap Name \subseteq names
                   PROVE  m \in names
        BY DEF EverReached
    <2>2. a \in names
        BY <2>1 DEF EverReached
    <2> QED
        BY <2>1, <2>2
<1> QED
    BY <1>2, <1>3

\* They become no fewer.
LEMMA ReachedGrows ==
    ASSUME \A n \in Name : seen[n] \subseteq seen'[n]
    PROVE  EverReached(Host) \subseteq EverReached(Host)'
<1>1. SUFFICES ASSUME NEW m \in EverReached(Host)
               PROVE  m \in EverReached(Host)'
    OBVIOUS
<1>2. m \in Name
    BY DEF EverReached
<1>3. SUFFICES ASSUME NEW names \in SUBSET Name, Host \in names,
                      \A a \in names : seen'[a] \cap Name \subseteq names
               PROVE  m \in names
    BY <1>2 DEF EverReached
<1>4. \A a \in names : seen[a] \cap Name \subseteq names
    BY <1>3
<1> QED
    BY <1>3, <1>4 DEF EverReached

\* So are the names on the chain of a response, whose records they held.
LEMMA ChainIsReached ==
    ASSUME TypesOK, HistoryOK
    PROVE  /\ \A j \in 0..Depth : Chain(response.answers, current)[j] \in EverReached(Host)
           /\ \A i \in WantedAt(response.answers, current, "wanted") :
                 /\ response.answers[i].name \in EverReached(Host)
                 /\ "records" \in seen[response.answers[i].name]
<1>1. PICK answers \in Seq(AnswerRecord) : answers = response.answers
    BY DEF TypesOK
<1>2. PICK names \in SUBSET Name : names = EverReached(Host)
    BY ReachedIsClosed
<1>3. current \in names /\ current \in Name
    BY <1>2 DEF HistoryOK, TypesOK
<1>4. ASSUME NEW rr \in Range(answers), rr.class = "IN"
      PROVE  IF IsCname(rr) THEN rr.data \in seen[rr.name] ELSE "records" \in seen[rr.name]
    BY <1>1, <1>4 DEF HistoryOK
<1>5. ASSUME NEW rr \in Range(answers), rr.class = "IN", IsCname(rr), rr.name \in names
      PROVE  rr.data \in names
    <2>1. rr \in AnswerRecord
        <3>1. PICK i \in DOMAIN answers : rr = answers[i]
            BY DEF Range
        <3> QED
            BY <3>1
    <2>2. rr.data \in Name /\ rr.data \in seen[rr.name]
        BY <1>4, <1>5, <2>1 DEF AnswerRecord
    <2> QED
        BY <1>2, <1>5, <2>2, ReachedIsClosed
<1>6. ASSUME NEW j \in 0..Depth
      PROVE  Chain(answers, current)[j] \in names
    BY <1>3, <1>5, ChainStaysWithin
<1>7. ASSUME NEW i \in WantedAt(answers, current, "wanted")
      PROVE  answers[i].name \in names /\ "records" \in seen[answers[i].name]
    <2>1. i \in OnChain(answers, current) /\ answers[i].type = "wanted"
        BY DEF WantedAt
    <2>2. PICK j \in 0..Depth : i \in DOMAIN answers /\ answers[i].class = "IN"
                                /\ answers[i].name = Chain(answers, current)[j]
        BY <1>3, <2>1, OnTheChain
    <2>3. answers[i] \in Range(answers) /\ ~IsCname(answers[i])
        BY <2>1, <2>2 DEF Range, IsCname
    <2> QED
        BY <1>4, <1>6, <2>2, <2>3
<1> QED
    BY <1>1, <1>2, <1>6, <1>7

-----------------------------------------------------------------------------
(* Every step keeps the invariant. *)

\* It says nothing of the result of a query that has none.
LEMMA PendingIsFine ==
    ASSUME result' = Pending
    PROVE  AnswersOnChain' /\ EndOK' /\ TtlOK'
<1>1. result' # InvalidResponse /\ result' # NxDomain /\ result' # NoData /\ result'.kind # "positive"
    BY DEF Pending, InvalidResponse, NxDomain, NoData
<1> QED
    BY <1>1 DEF AnswersOnChain, EndOK, TtlOK

\* It holds at the start.
LEMMA InitInv == Init => Inv
<1>1. SUFFICES ASSUME Init
               PROVE  Inv
    OBVIOUS
<1>2. Host \in Name /\ Depth \in Nat \ {0}
    BY CnameAssumption, AnswersAssumption
<1>3. response.answers = <<>> /\ response.rcode = "none" /\ response = None
    BY <1>1 DEF Init, None
<1>4. TypesOK
    <2>1. response.answers \in Seq(AnswerRecord)
        BY <1>3
    <2> QED
        BY <1>1, <1>2, <1>3, <2>1 DEF TypesOK, Init, Zones
<1>5. zone \in Zones /\ seen = [n \in Name |-> {zone[n]}]
    BY <1>1 DEF Init, Zones
<1>6. HistoryOK
    <2>1. seen \in [Name -> SUBSET (Name \cup Rest)] /\ \A n \in Name : zone[n] \in seen[n]
        BY <1>5 DEF Zones
    <2>2. current \in EverReached(Host)
        BY <1>1, <1>2 DEF Init, EverReached
    <2>3. \A rr \in Range(response.answers) : FALSE
        BY <1>3 DEF Range
    <2> QED
        BY <2>1, <2>2, <2>3 DEF HistoryOK
<1>7. UnderwayOK
    <2>1. AliasedBy(zone, current, 0)
        BY <1>1, <1>2, <1>5, AtSteps DEF Init, AliasedBy
    <2> QED
        BY <1>1, <1>3, <2>1 DEF Init, UnderwayOK
<1>8. AnswersOnChain /\ EndOK /\ TtlOK
    <2>1. result # InvalidResponse /\ result # NxDomain /\ result # NoData /\ result.kind # "positive"
        BY <1>1 DEF Init, Pending, InvalidResponse, NxDomain, NoData
    <2> QED
        BY <2>1 DEF AnswersOnChain, EndOK, TtlOK
<1> QED
    BY <1>4, <1>6, <1>7, <1>8 DEF Inv

\* A nameserver answers.
LEMMA InvServe == Inv /\ Serve => Inv'
<1>1. SUFFICES ASSUME Inv, Serve
               PROVE  Inv'
    OBVIOUS
<1>2. TypesOK /\ HistoryOK /\ UnderwayOK
    BY <1>1 DEF Inv
<1>3. /\ result = Pending /\ result' = Pending
      /\ UNCHANGED <<zone, changes, current, queries, result, seen>>
    BY <1>1 DEF Serve
<1>4. zone \in Zones /\ current \in Name
    BY <1>2 DEF TypesOK
<1>5. Cardinality(Name) \in Nat
    BY CnameAssumption, FS_CardinalityType
<1>6. PICK k \in 0..Cardinality(Name), whole \in BOOLEAN, stray \in Strays(current) :
          LET end == After(current, k)
              held == IF whole /\ zone[end] = "records" THEN <<Held(end, "IN")>>
                      ELSE <<>>
              along == stray \o Aliases(current, k) \o held
          IN /\ CanGive(current, k)
             /\ k = 0 => ~IsAlias(current) /\ whole
             /\ whole => ~IsAlias(end)
             /\ \E answers \in {along, Reverse(along)} :
                   response' = [rcode |-> IF whole /\ zone[end] = "nxdomain" THEN "nxdomain"
                                          ELSE "noerror",
                                answers |-> answers]
    BY <1>1 DEF Serve
<1>7. PICK held : held = IF whole /\ zone[After(current, k)] = "records"
                         THEN <<Held(After(current, k), "IN")>> ELSE <<>>
    OBVIOUS
<1>8. PICK answers \in {stray \o Aliases(current, k) \o held,
                        Reverse(stray \o Aliases(current, k) \o held)} :
          response' = [rcode |-> IF whole /\ zone[After(current, k)] = "nxdomain" THEN "nxdomain"
                                 ELSE "noerror",
                       answers |-> answers]
    BY <1>6, <1>7
<1>9. CanGive(current, k) /\ (k = 0 => whole) /\ (whole => ~IsAlias(After(current, k)))
    BY <1>6
<1>10. PICK r : /\ r = [rcode |-> IF whole /\ zone[After(current, k)] = "nxdomain" THEN "nxdomain"
                                  ELSE "noerror",
                        answers |-> answers]
                /\ r = response'
    BY <1>8
<1>11. r.answers \in Seq(AnswerRecord) /\ Tells(zone, current, r, k, whole)
    BY <1>4, <1>5, <1>7, <1>9, <1>10, ServedTells
<1>12. r.rcode \in {"noerror", "nxdomain"}
    BY <1>11 DEF Tells
<1>13. TypesOK'
    BY <1>2, <1>3, <1>10, <1>11, <1>12 DEF TypesOK
<1>14. HistoryOK'
    <2>1. PICK given : given = {At(zone, current, i) : i \in 0..(k - 1)}
        OBVIOUS
    <2>2. given \subseteq Name
        <3>1. \A i \in 0..(k - 1) : At(zone, current, i) \in Name
            BY <1>4, AtSteps
        <3> QED
            BY <2>1, <3>1
    <2>3. Reveals(zone, given, r.answers)
        BY <1>11, <2>1 DEF Tells
    <2>4. ASSUME NEW rr \in Range(r.answers), rr.class = "IN"
          PROVE  IF IsCname(rr) THEN rr.data \in seen[rr.name] ELSE "records" \in seen[rr.name]
        <3>1. CASE \E m \in given : rr = Alias(m, "IN", zone[m])
            <4>1. PICK m \in given : rr = Alias(m, "IN", zone[m])
                BY <3>1
            <4>2. rr.name = m /\ rr.data = zone[m] /\ IsCname(rr)
                BY <4>1 DEF Alias, Record, IsCname
            <4>3. zone[m] \in seen[m]
                BY <1>2, <2>2 DEF HistoryOK
            <4> QED
                BY <4>2, <4>3
        <3>2. CASE \E m \in Name : zone[m] = "records" /\ rr = Held(m, "IN")
            <4>1. PICK m \in Name : zone[m] = "records" /\ rr = Held(m, "IN")
                BY <3>2
            <4>2. rr.name = m /\ ~IsCname(rr)
                BY <4>1 DEF Held, Record, IsCname
            <4>3. zone[m] \in seen[m]
                BY <1>2 DEF HistoryOK
            <4> QED
                BY <4>1, <4>2, <4>3
        <3> QED
            BY <2>3, <2>4, <3>1, <3>2 DEF Reveals
    <2>5. EverReached(Host)' = EverReached(Host)
        BY <1>3 DEF EverReached
    <2> QED
        BY <1>2, <1>3, <1>10, <2>4, <2>5 DEF HistoryOK
<1>15. UnderwayOK'
    <2>1. Replies(zone, current, r)
        BY <1>11 DEF Replies
    <2> QED
        BY <1>2, <1>3, <1>10, <2>1 DEF UnderwayOK
<1> QED
    BY <1>3, <1>13, <1>14, <1>15, PendingIsFine DEF Inv

\* The zone changes: the past grows, and the rest is about zones that have not.
LEMMA InvZoneChanges ==
    ASSUME NEW n \in Name
    PROVE  Inv /\ ZoneChanges(n) => Inv'
<1>1. SUFFICES ASSUME Inv, ZoneChanges(n)
               PROVE  Inv'
    OBVIOUS
<1>2. TypesOK /\ HistoryOK
    BY <1>1 DEF Inv
<1>3. PICK held \in Name \cup Rest : /\ zone' = [zone EXCEPT ![n] = held]
                                     /\ seen' = [seen EXCEPT ![n] = @ \cup {held}]
    BY <1>1 DEF ZoneChanges
<1>4. /\ changes' = changes + 1 /\ result = Pending /\ result' = Pending
      /\ UNCHANGED <<current, queries, response, result>>
    BY <1>1 DEF ZoneChanges
<1>5. TypesOK'
    <2>1. zone' \in Zones /\ changes' \in Nat
        BY <1>2, <1>3, <1>4 DEF TypesOK, Zones
    <2> QED
        BY <1>2, <1>4, <2>1 DEF TypesOK
<1>6. seen \in [Name -> SUBSET (Name \cup Rest)] /\ zone \in [Name -> Name \cup Rest]
    BY <1>2 DEF HistoryOK, TypesOK, Zones
<1>7. /\ seen' \in [Name -> SUBSET (Name \cup Rest)]
      /\ \A m \in Name : seen[m] \subseteq seen'[m]
    BY <1>3, <1>6
<1>8. \A m \in Name : zone'[m] \in seen'[m]
    <2>1. ASSUME NEW m \in Name
          PROVE  zone'[m] \in seen'[m]
        <3>1. CASE m = n
            BY <1>3, <1>6, <3>1
        <3>2. CASE m # n
            <4>1. zone'[m] = zone[m] /\ seen'[m] = seen[m]
                BY <1>3, <1>6, <3>2
            <4> QED
                BY <1>2, <4>1 DEF HistoryOK
        <3> QED
            BY <3>1, <3>2
    <2> QED
        BY <2>1
<1>9. HistoryOK'
    <2>1. current' \in EverReached(Host)'
        <3>1. current \in EverReached(Host)
            BY <1>2 DEF HistoryOK
        <3> QED
            BY <1>4, <1>7, <3>1, ReachedGrows
    <2>2. ASSUME NEW rr \in Range(response.answers), rr.class = "IN"
          PROVE  IF IsCname(rr) THEN rr.data \in seen'[rr.name] ELSE "records" \in seen'[rr.name]
        <3>1. IF IsCname(rr) THEN rr.data \in seen[rr.name] ELSE "records" \in seen[rr.name]
            BY <1>2, <2>2 DEF HistoryOK
        <3>2. rr.name \in Name
            <4>1. PICK i \in DOMAIN response.answers : rr = response.answers[i]
                BY DEF Range
            <4>2. rr \in AnswerRecord
                BY <1>2, <4>1 DEF TypesOK
            <4> QED
                BY <4>2 DEF AnswerRecord
        <3> QED
            BY <1>7, <3>1, <3>2
    <2> QED
        BY <1>4, <1>7, <1>8, <2>1, <2>2 DEF HistoryOK
<1>10. UnderwayOK'
    <2>1. changes' # 0
        BY <1>2, <1>4 DEF TypesOK
    <2> QED
        BY <2>1 DEF UnderwayOK
<1> QED
    BY <1>4, <1>5, <1>9, <1>10, PendingIsFine DEF Inv

\* What is not about the result stays as it is where only that is set.
LEMMA ResultSet ==
    ASSUME Inv, UNCHANGED <<zone, changes, current, queries, response, seen>>, result' # Pending
    PROVE  HistoryOK' /\ UnderwayOK' /\ EverReached(Host)' = EverReached(Host)
<1>1. EverReached(Host)' = EverReached(Host)
    BY DEF EverReached
<1> QED
    BY <1>1 DEF Inv, HistoryOK, UnderwayOK

\* A query fails.
LEMMA InvFails == Inv /\ Fails => Inv'
<1>1. SUFFICES ASSUME Inv, Fails
               PROVE  Inv'
    OBVIOUS
<1>2. result' = Failed /\ UNCHANGED <<zone, changes, current, queries, response, seen>>
    BY <1>1 DEF Fails
<1>3. /\ result' # Pending /\ result' # InvalidResponse /\ result' # NxDomain /\ result' # NoData
      /\ result'.kind # "positive"
    BY <1>2 DEF Failed, Pending, InvalidResponse, NxDomain, NoData
<1>4. TypesOK'
    BY <1>1, <1>2, <1>3 DEF Inv, TypesOK, Verdicts
<1>5. AnswersOnChain' /\ EndOK' /\ TtlOK'
    BY <1>3 DEF AnswersOnChain, EndOK, TtlOK
<1> QED
    BY <1>1, <1>2, <1>3, <1>4, <1>5, ResultSet DEF Inv

\* What a response is made from.
LEMMA ResponseTells ==
    ASSUME Inv, changes = 0, result = Pending, response.rcode # "none"
    PROVE  \E k \in Nat, whole \in BOOLEAN : Tells(zone, current, response, k, whole)
<1>1. response # None
    BY DEF None
<1>2. Replies(zone, current, response)
    BY <1>1 DEF Inv, UnderwayOK
<1>3. Cardinality(Name) \in Nat
    BY CnameAssumption, FS_CardinalityType
<1>4. PICK k \in 0..Cardinality(Name), whole \in BOOLEAN : Tells(zone, current, response, k, whole)
    BY <1>2 DEF Replies
<1>5. k \in Nat
    BY <1>3
<1> QED
    BY <1>4, <1>5

\* The name at the end of the chain does not exist.
LEMMA InvTakeNxDomain == Inv /\ TakeNxDomain => Inv'
<1>1. SUFFICES ASSUME Inv, TakeNxDomain
               PROVE  Inv'
    OBVIOUS
<1>2. /\ result = Pending /\ response.rcode = "nxdomain" /\ result' = NxDomain
      /\ UNCHANGED <<zone, changes, current, queries, response, seen>>
    BY <1>1 DEF TakeNxDomain
<1>3. result' # Pending /\ result' # InvalidResponse /\ result' # NoData /\ result'.kind # "positive"
    BY <1>2 DEF Pending, InvalidResponse, NxDomain, NoData
<1>4. TypesOK'
    BY <1>1, <1>2, <1>3 DEF Inv, TypesOK, Verdicts
<1>5. AnswersOnChain' /\ TtlOK'
    BY <1>3 DEF AnswersOnChain, TtlOK
<1>6. ASSUME changes = 0
      PROVE  \E i \in Nat : zone[At(zone, Host, i)] = "nxdomain"
    <2>1. PICK k \in Nat, whole \in BOOLEAN : Tells(zone, current, response, k, whole)
        BY <1>1, <1>2, <1>6, ResponseTells
    <2>2. zone[At(zone, current, k)] = "nxdomain"
        BY <1>2, <2>1 DEF Tells
    <2>3. PICK i \in Nat : AliasedBy(zone, current, i)
        BY <1>1, <1>2, <1>6 DEF Inv, UnderwayOK
    <2>4. zone \in Zones /\ Host \in Name
        BY <1>1, CnameAssumption DEF Inv, TypesOK
    <2>5. At(zone, Host, i + k) = At(zone, current, k)
        BY <2>3, <2>4, AtTwice DEF AliasedBy
    <2> QED
        BY <2>2, <2>5
<1>7. EndOK'
    BY <1>2, <1>3, <1>6 DEF EndOK
<1> QED
    BY <1>1, <1>2, <1>3, <1>4, <1>5, <1>7, ResultSet DEF Inv

\* A name that aliases lead to from one on the host's chain is on it too.
LEMMA AliasedFurther ==
    ASSUME NEW held \in Zones, NEW n, NEW i \in Nat, AliasedBy(held, n, i), NEW m \in Nat,
           \A j \in 0..(m - 1) : held[At(held, n, j)] \in Name
    PROVE  AliasedBy(held, At(held, n, m), i + m)
<1>1. Host \in Name
    BY CnameAssumption
<1>2. ASSUME NEW j \in Nat
      PROVE  At(held, Host, i + j) = At(held, n, j)
    BY <1>1, AtTwice DEF AliasedBy
<1>3. ASSUME NEW j \in 0..((i + m) - 1)
      PROVE  held[At(held, Host, j)] \in Name
    <2>1. CASE j < i
        <3>1. j \in 0..(i - 1)
            BY <2>1
        <3> QED
            BY <3>1 DEF AliasedBy
    <2>2. CASE ~(j < i)
        <3>1. PICK p \in 0..(m - 1) : j = i + p
            <4>1. j - i \in 0..(m - 1) /\ j = i + (j - i)
                BY <2>2
            <4> QED
                BY <4>1
        <3>2. p \in Nat /\ held[At(held, n, p)] \in Name
            BY <3>1
        <3>3. At(held, Host, j) = At(held, n, p)
            BY <1>2, <3>1, <3>2
        <3> QED
            BY <3>2, <3>3
    <2> QED
        BY <2>1, <2>2
<1> QED
    BY <1>2, <1>3 DEF AliasedBy

\* The query takes an answer, or finds that there is none.
LEMMA InvTakeAnswer == Inv /\ TakeAnswer => Inv'
<1>1. SUFFICES ASSUME Inv, TakeAnswer
               PROVE  Inv'
    OBVIOUS
<1>2. /\ result = Pending /\ response.rcode = "noerror"
      /\ Unresolved(response.answers, current, "wanted") = {}
      /\ result' = Parsed(response.answers, current)
      /\ UNCHANGED <<zone, changes, current, queries, response, seen>>
    BY <1>1 DEF TakeAnswer
<1>3. TypesOK /\ HistoryOK
    BY <1>1 DEF Inv
<1>4. PICK answers \in Seq(AnswerRecord) : answers = response.answers
    BY <1>3 DEF TypesOK
<1>5. current \in Name /\ Host \in Name /\ zone \in Zones
    BY <1>3, CnameAssumption DEF TypesOK
<1>6. PICK at : at = WantedAt(answers, current, "wanted")
    OBVIOUS
<1>7. ASSUME NEW x \in at
      PROVE  answers[x].name \in EverReached(Host) /\ "records" \in seen[answers[x].name]
             /\ answers[x].name \in Name
    BY <1>3, <1>4, <1>6, ChainIsReached, ReachedIsClosed
<1>8. PICK owners \in SUBSET Name : owners = {answers[x].name : x \in at}
    BY <1>7
<1>9. PICK ttl : ttl = LeastTtl(answers, current, "wanted")
    OBVIOUS
<1>10. ttl \in 0..U32Max
    BY <1>5, <1>9, LeastTtlBounds
<1>11. result' = IF owners = {} THEN NoData ELSE Positive(owners, ttl)
    BY <1>2, <1>4, <1>6, <1>8, <1>9 DEF Parsed
<1>12. /\ result' # Pending /\ result' # InvalidResponse /\ result' # NxDomain
       /\ result' = NoData <=> owners = {}
       /\ result'.kind = "positive" <=> owners # {}
       /\ owners # {} => result'.owners = owners /\ result'.ttl = ttl
    BY <1>11 DEF Pending, InvalidResponse, NxDomain, NoData, Positive
<1>13. TypesOK'
    <2>1. \/ result' \in Verdicts
          \/ \E o \in (SUBSET Name) \ {{}}, t \in 0..U32Max : result' = Positive(o, t)
        BY <1>8, <1>10, <1>11 DEF Verdicts
    <2> QED
        BY <1>2, <1>3, <1>12, <2>1 DEF TypesOK
<1>14. HistoryOK' /\ UnderwayOK' /\ EverReached(Host)' = EverReached(Host)
    BY <1>1, <1>2, <1>12, ResultSet
<1>15. AnswersOnChain'
    BY <1>2, <1>7, <1>8, <1>12, <1>14 DEF AnswersOnChain
<1>16. ASSUME changes = 0
       PROVE  /\ owners = {} => \/ \E p \in Nat : zone[At(zone, Host, p)] = "nodata"
                                \/ \A p \in Nat : zone[At(zone, Host, p)] \in Name
              /\ owners # {} => \E p \in Nat : /\ zone[At(zone, Host, p)] = "records"
                                               /\ owners = {At(zone, Host, p)}
              /\ queries = 0 /\ owners # {} => \A p \in Nat : ttl <= Ttl[At(zone, Host, p)]
    <2>1. PICK k \in Nat, whole \in BOOLEAN : Tells(zone, current, response, k, whole)
        BY <1>1, <1>2, <1>16, ResponseTells
    <2>2. PICK i \in Nat : AliasedBy(zone, current, i)
        BY <1>1, <1>2, <1>16 DEF Inv, UnderwayOK
    <2>3. ASSUME NEW p \in Nat
          PROVE  At(zone, Host, i + p) = At(zone, current, p)
        BY <1>5, <2>2, AtTwice DEF AliasedBy
    <2>4. ASSUME owners = {}
          PROVE  \/ \E p \in Nat : zone[At(zone, Host, p)] = "nodata"
                 \/ \A p \in Nat : zone[At(zone, Host, p)] \in Name
        <3>1. at = {}
            BY <1>8, <2>4
        <3>2. PICK end : end = Chain(answers, current)[Depth]
            OBVIOUS
        <3>3. NamesEqual(end, current)
            BY <1>2, <1>4, <1>6, <3>1, <3>2 DEF Unresolved
        <3>4. end \in Name
            <4>1. Depth \in 0..Depth
                BY AnswersAssumption
            <4>2. end \in EverReached(Host)
                BY <1>3, <1>4, <3>2, <4>1, ChainIsReached
            <4> QED
                BY <1>3, <4>2, ReachedIsClosed
        <3>5. end = current
            BY <1>5, <3>3, <3>4, CnameAssumption
        <3>6. zone[current] = "nodata" \/ \A p \in Nat : zone[At(zone, current, p)] \in Name
            BY <1>2, <1>4, <1>5, <1>6, <2>1, <3>1, <3>2, <3>5, NothingIsTheEnd
        <3>7. CASE zone[current] = "nodata"
            BY <2>2, <3>7 DEF AliasedBy
        <3>8. CASE \A p \in Nat : zone[At(zone, current, p)] \in Name
            <4>1. ASSUME NEW p \in Nat
                  PROVE  zone[At(zone, Host, p)] \in Name
                <5>1. CASE p < i
                    <6>1. p \in 0..(i - 1)
                        BY <5>1
                    <6> QED
                        BY <2>2, <6>1 DEF AliasedBy
                <5>2. CASE ~(p < i)
                    <6>1. PICK q \in Nat : p = i + q
                        <7>1. p - i \in Nat /\ p = i + (p - i)
                            BY <5>2
                        <7> QED
                            BY <7>1
                    <6> QED
                        BY <2>3, <3>8, <6>1
                <5> QED
                    BY <5>1, <5>2
            <4> QED
                BY <4>1
        <3> QED
            BY <3>6, <3>7, <3>8
    <2>5. ASSUME NEW x \in at
          PROVE  \E m \in Nat : /\ answers[x].name = At(zone, current, m)
                                /\ zone[At(zone, current, m)] = "records"
                                /\ \A p \in Nat : ttl <= Ttl[At(zone, current, p)]
        BY <1>4, <1>5, <1>6, <1>9, <2>1, AnswerIsTheEnd
    <2>6. ASSUME NEW x \in at
          PROVE  \E p \in Nat : /\ answers[x].name = At(zone, Host, p)
                                /\ zone[At(zone, Host, p)] = "records"
        <3>1. PICK m \in Nat : /\ answers[x].name = At(zone, current, m)
                               /\ zone[At(zone, current, m)] = "records"
            BY <2>5
        <3>2. PICK p \in Nat : p = i + m
            OBVIOUS
        <3> QED
            BY <2>3, <3>1, <3>2
    <2>7. ASSUME owners # {}
          PROVE  \E p \in Nat : zone[At(zone, Host, p)] = "records" /\ owners = {At(zone, Host, p)}
        <3>1. PICK x \in at : TRUE
            BY <1>8, <2>7
        <3>2. PICK p \in Nat : /\ answers[x].name = At(zone, Host, p)
                               /\ zone[At(zone, Host, p)] = "records"
            BY <2>6, <3>1
        <3>3. "records" \notin Name
            BY CnameAssumption DEF Rest
        <3>4. ASSUME NEW y \in at
              PROVE  answers[y].name = At(zone, Host, p)
            <4>1. PICK q \in Nat : /\ answers[y].name = At(zone, Host, q)
                                   /\ zone[At(zone, Host, q)] = "records"
                BY <2>6
            <4> QED
                BY <1>5, <3>2, <3>3, <4>1, OneEnd
        <3>5. owners = {At(zone, Host, p)}
            BY <1>8, <3>1, <3>2, <3>4
        <3> QED
            BY <3>2, <3>5
    <2>8. ASSUME queries = 0, owners # {}
          PROVE  \A p \in Nat : ttl <= Ttl[At(zone, Host, p)]
        <3>1. current = Host
            BY <1>1, <1>2, <1>16, <2>8 DEF Inv, UnderwayOK
        <3>2. PICK x \in at : TRUE
            BY <1>8, <2>8
        <3> QED
            BY <2>5, <3>1, <3>2
    <2> QED
        BY <2>4, <2>7, <2>8
<1>17. EndOK'
    BY <1>2, <1>12, <1>16 DEF EndOK
<1>18. TtlOK'
    BY <1>2, <1>12, <1>16 DEF TtlOK
<1> QED
    BY <1>13, <1>14, <1>15, <1>17, <1>18 DEF Inv

\* The query asks for the end of the chain, or has asked often enough.
LEMMA InvFollow == Inv /\ Follow => Inv'
<1>1. SUFFICES ASSUME Inv, Follow
               PROVE  Inv'
    OBVIOUS
<1>2. PICK target \in Unresolved(response.answers, current, "wanted") :
          /\ current' = target
          /\ queries' = queries + 1
          /\ IF queries + 1 = Depth THEN result' = InvalidResponse /\ UNCHANGED response
                                    ELSE response' = None /\ UNCHANGED result
    BY <1>1 DEF Follow
<1>3. result = Pending /\ response.rcode = "noerror" /\ UNCHANGED <<zone, changes, seen>>
    BY <1>1 DEF Follow
<1>4. TypesOK /\ HistoryOK
    BY <1>1 DEF Inv
<1>5. current \in Name /\ Host \in Name /\ zone \in Zones /\ response.answers \in Seq(AnswerRecord)
    BY <1>4, CnameAssumption DEF TypesOK
<1>6. Depth \in Nat \ {0} /\ queries \in Nat /\ queries + 1 <= Depth
    BY <1>3, <1>4, AnswersAssumption DEF TypesOK
<1>7. EverReached(Host)' = EverReached(Host)
    BY <1>3 DEF EverReached
<1>8. target \in EverReached(Host) /\ target \in Name
    <2>1. target = Chain(response.answers, current)[Depth]
        BY DEF Unresolved
    <2>2. Depth \in 0..Depth
        BY <1>6
    <2> QED
        BY <1>4, <2>1, <2>2, ChainIsReached, ReachedIsClosed
<1>9. ASSUME changes = 0
      PROVE  \E i \in Nat : queries + 1 <= i /\ AliasedBy(zone, target, i)
    <2>1. PICK k \in Nat, whole \in BOOLEAN : Tells(zone, current, response, k, whole)
        BY <1>1, <1>3, <1>9, ResponseTells
    <2>2. PICK i \in Nat : queries <= i /\ AliasedBy(zone, current, i)
        BY <1>1, <1>3, <1>9 DEF Inv, UnderwayOK
    <2>3. PICK m \in Nat \ {0} : /\ target = At(zone, current, m)
                                 /\ \A j \in 0..(m - 1) : zone[At(zone, current, j)] \in Name
        BY <1>2, <1>5, <2>1, TargetIsAhead
    <2>4. AliasedBy(zone, target, i + m)
        BY <1>5, <2>2, <2>3, AliasedFurther
    <2>5. i + m \in Nat /\ queries + 1 <= i + m
        BY <1>6, <2>2, <2>3
    <2> QED
        BY <2>4, <2>5
<1>10. CASE queries + 1 = Depth
    <2>1. queries' = Depth /\ result' = InvalidResponse /\ response' = response
        BY <1>2, <1>10
    <2>2. result' # Pending /\ result' # NxDomain /\ result' # NoData /\ result'.kind # "positive"
        BY <2>1 DEF Pending, InvalidResponse, NxDomain, NoData
    <2>3. TypesOK'
        <3>1. Depth \in 0..Depth
            BY <1>6
        <3> QED
            BY <1>2, <1>3, <1>4, <1>8, <2>1, <2>2, <3>1 DEF TypesOK, Verdicts
    <2>4. HistoryOK'
        BY <1>2, <1>3, <1>4, <1>7, <1>8, <2>1 DEF HistoryOK
    <2>5. AnswersOnChain' /\ UnderwayOK' /\ TtlOK'
        BY <2>2 DEF AnswersOnChain, UnderwayOK, TtlOK
    <2>6. EndOK'
        BY <1>2, <1>3, <1>9, <1>10, <2>2 DEF EndOK
    <2> QED
        BY <2>3, <2>4, <2>5, <2>6 DEF Inv
<1>11. CASE queries + 1 # Depth
    <2>1. response' = None /\ result' = Pending
        BY <1>2, <1>3, <1>11
    <2>2. queries' = queries + 1 /\ queries' < Depth /\ queries' # 0 /\ queries' \in 0..Depth
        BY <1>2, <1>6, <1>11
    <2>3. response'.rcode = "none" /\ response'.answers = <<>>
        BY <2>1 DEF None
    <2>4. TypesOK'
        <3>1. response'.answers \in Seq(AnswerRecord)
            BY <2>3
        <3> QED
            BY <1>2, <1>3, <1>4, <1>8, <2>1, <2>2, <2>3, <3>1 DEF TypesOK
    <2>5. HistoryOK'
        <3>1. \A rr \in Range(response'.answers) : FALSE
            BY <2>3 DEF Range
        <3> QED
            BY <1>2, <1>3, <1>4, <1>7, <1>8, <3>1 DEF HistoryOK
    <2>6. UnderwayOK'
        BY <1>2, <1>3, <1>9, <2>1, <2>2 DEF UnderwayOK
    <2> QED
        BY <2>1, <2>4, <2>5, <2>6, PendingIsFine DEF Inv
<1> QED
    BY <1>10, <1>11

-----------------------------------------------------------------------------
(* The properties. *)

\* Every step keeps the invariant.
LEMMA NextInv == Inv /\ [Next]_vars => Inv'
<1>1. Inv /\ Serve => Inv'
    BY InvServe
<1>2. Inv /\ Fails => Inv'
    BY InvFails
<1>3. Inv /\ TakeNxDomain => Inv'
    BY InvTakeNxDomain
<1>4. Inv /\ TakeAnswer => Inv'
    BY InvTakeAnswer
<1>5. Inv /\ Follow => Inv'
    BY InvFollow
<1>6. ASSUME NEW n \in Name
      PROVE  Inv /\ ZoneChanges(n) => Inv'
    BY InvZoneChanges
<1>7. Inv /\ UNCHANGED vars => Inv'
    BY DEF vars, Inv, TypesOK, HistoryOK, AnswersOnChain, UnderwayOK, EndOK, TtlOK, EverReached
<1> QED
    BY <1>1, <1>2, <1>3, <1>4, <1>5, <1>6, <1>7 DEF Next, Step

\* What is known of the past, of the zone and of the query's way along it holds throughout.
THEOREM Invariance == Spec => []Inv
    BY InitInv, NextInv, PTL DEF Spec

\* The invariant has the types, those of the records in a response among them.
LEMMA InvTypes == Inv => TypeOK
<1>1. SUFFICES ASSUME Inv
               PROVE  TypeOK
    OBVIOUS
<1>2. TypesOK
    BY <1>1 DEF Inv
<1>3. ASSUME NEW rr \in Range(response.answers)
      PROVE  rr \in AnswerRecord
    <2>1. PICK i \in DOMAIN response.answers : rr = response.answers[i]
        BY DEF Range
    <2> QED
        BY <1>2, <2>1 DEF TypesOK
<1>4. result \in {Pending, NoData, NxDomain, InvalidResponse, Failed}
                \cup {Positive(owners, ttl) : owners \in (SUBSET Name) \ {{}}, ttl \in 0..U32Max}
    BY <1>2 DEF TypesOK, Verdicts
<1> QED
    BY <1>2, <1>3, <1>4 DEF TypesOK, TypeOK, Zones, AnswerRecord

\* send_query_following_cnames makes Depth queries at most, and what it passes on are answers
\* from records of a response.
THEOREM Types == Spec => []TypeOK
    BY Invariance, InvTypes, PTL

\* Whatever a response carries beside the chain, and however the zone changes under the
\* query, the records that parse_records returns are of names that are or were on it.
THEOREM AnswersStayOnChain == Spec => []AnswersOnChain
<1>1. Inv => AnswersOnChain
    BY DEF Inv
<1> QED
    BY <1>1, Invariance, PTL

\* The invariant says where the query ends.
LEMMA InvFindsTheEnd == Inv => FindsTheEnd
<1>1. SUFFICES ASSUME Inv, changes = 0, result \notin {Pending, Failed}
               PROVE  /\ \A hops \in Hops(Host) :
                            LET end == After(Host, hops)
                            IN \/ result = InvalidResponse /\ hops >= Depth
                               \/ /\ result.kind = "positive" /\ zone[end] = "records"
                                  /\ result.owners = {end}
                               \/ result.kind = zone[end]
                      /\ Hops(Host) = {} => result \in {NoData, InvalidResponse}
    BY DEF FindsTheEnd
<1>2. zone \in Zones /\ Host \in Name /\ Cardinality(Name) \in Nat /\ EndOK
    BY <1>1, CnameAssumption, FS_CardinalityType DEF Inv, TypesOK
<1>3. ASSUME NEW i \in Nat
      PROVE  /\ After(Host, i) = At(zone, Host, i)
             /\ zone[At(zone, Host, i)] \in {"records", "nodata", "nxdomain"} =>
                    zone[At(zone, Host, i)] \notin Name
    BY <1>2, AfterIsAt, CnameAssumption DEF Rest
<1>4. \/ result = InvalidResponse
      \/ result = NxDomain /\ result.kind = "nxdomain"
      \/ result = NoData /\ result.kind = "nodata"
      \/ result.kind = "positive"
    BY <1>1 DEF Inv, TypesOK, Verdicts, NxDomain, NoData, Positive
<1>5. ASSUME NEW hops \in Hops(Host)
      PROVE  \/ result = InvalidResponse /\ hops >= Depth
             \/ /\ result.kind = "positive" /\ zone[After(Host, hops)] = "records"
                /\ result.owners = {After(Host, hops)}
             \/ result.kind = zone[After(Host, hops)]
    <2>1. hops \in Nat /\ ~IsAlias(After(Host, hops))
        BY <1>2 DEF Hops
    <2>2. PICK end : end = At(zone, Host, hops)
        OBVIOUS
    <2>3. After(Host, hops) = end /\ zone[end] \notin Name
        BY <1>3, <2>1, <2>2 DEF IsAlias
    <2>4. ASSUME NEW i \in Nat, zone[At(zone, Host, i)] \in {"records", "nodata", "nxdomain"}
          PROVE  At(zone, Host, i) = end
        BY <1>2, <1>3, <2>1, <2>2, <2>3, <2>4, OneEnd
    <2>5. CASE result = InvalidResponse
        <3>1. PICK i \in Nat : Depth <= i /\ AliasedBy(zone, current, i)
            BY <1>1, <1>2, <2>5 DEF EndOK
        <3>2. ~(hops \in 0..(i - 1))
            BY <2>2, <2>3, <3>1 DEF AliasedBy
        <3>3. hops >= i
            BY <2>1, <3>2
        <3>4. Depth \in Nat
            BY AnswersAssumption
        <3> QED
            BY <2>1, <2>5, <3>1, <3>3, <3>4
    <2>6. CASE result = NxDomain /\ result.kind = "nxdomain"
        <3>1. PICK i \in Nat : zone[At(zone, Host, i)] = "nxdomain"
            BY <1>1, <1>2, <2>6 DEF EndOK
        <3> QED
            BY <2>3, <2>4, <2>6, <3>1
    <2>7. CASE result = NoData /\ result.kind = "nodata"
        <3>1. \/ \E i \in Nat : zone[At(zone, Host, i)] = "nodata"
              \/ \A i \in Nat : zone[At(zone, Host, i)] \in Name
            BY <1>1, <1>2, <2>7 DEF EndOK
        <3>2. PICK i \in Nat : zone[At(zone, Host, i)] = "nodata"
            BY <2>1, <2>2, <2>3, <3>1
        <3> QED
            BY <2>3, <2>4, <2>7, <3>2
    <2>8. CASE result.kind = "positive"
        <3>1. PICK i \in Nat : /\ zone[At(zone, Host, i)] = "records"
                               /\ result.owners = {At(zone, Host, i)}
            BY <1>1, <1>2, <2>8 DEF EndOK
        <3> QED
            BY <2>3, <2>4, <2>8, <3>1
    <2> QED
        BY <1>4, <2>5, <2>6, <2>7, <2>8
<1>6. ASSUME Hops(Host) = {}
      PROVE  result \in {NoData, InvalidResponse}
    <2>1. ASSUME NEW i \in Nat, zone[At(zone, Host, i)] \notin Name
          PROVE  FALSE
        <3>1. PICK hops \in 0..Cardinality(Name) :
                  /\ zone[At(zone, Host, hops)] \notin Name
                  /\ \A j \in 0..(hops - 1) : zone[At(zone, Host, j)] \in Name
            BY <1>2, <2>1, EndIsNear
        <3>2. hops \in Nat
            BY <1>2
        <3>3. ~IsAlias(After(Host, hops))
            BY <1>3, <3>1, <3>2 DEF IsAlias
        <3>4. \A j \in 0..(hops - 1) : IsAlias(After(Host, j))
            <4>1. ASSUME NEW j \in 0..(hops - 1)
                  PROVE  IsAlias(After(Host, j))
                <5>1. j \in Nat
                    OBVIOUS
                <5>2. After(Host, j) = At(zone, Host, j)
                    BY <1>3, <5>1
                <5> QED
                    BY <3>1, <5>2 DEF IsAlias
            <4> QED
                BY <4>1
        <3>5. hops \in Hops(Host)
            BY <3>3, <3>4 DEF Hops
        <3> QED
            BY <1>6, <3>5
    <2>2. result # NxDomain /\ result.kind # "positive"
        BY <1>1, <1>2, <1>3, <2>1 DEF EndOK
    <2> QED
        BY <1>4, <2>2
<1> QED
    BY <1>5, <1>6

\* While the zone does not change, a host with fewer than Depth aliases gets what their end
\* holds, in however many parts nameservers hand the chain out, and a loop gets neither
\* records nor an NXDOMAIN.
THEOREM EndIsFound == Spec => []FindsTheEnd
    BY Invariance, InvFindsTheEnd, PTL

\* What a single response holds is cached for no longer than any alias on the way to it.
THEOREM AliasesBound == Spec => []AliasesBoundTtl
<1>1. Inv => AliasesBoundTtl
    <2>1. SUFFICES ASSUME Inv, changes = 0, queries = 0, result.kind = "positive",
                          NEW i \in 0..Cardinality(Name)
                   PROVE  result.ttl <= Ttl[After(Host, i)]
        BY DEF AliasesBoundTtl
    <2>2. zone \in Zones /\ Host \in Name /\ i \in Nat
        BY <2>1, CnameAssumption, FS_CardinalityType DEF Inv, TypesOK
    <2>3. After(Host, i) = At(zone, Host, i)
        BY <2>2, AfterIsAt
    <2> QED
        BY <2>1, <2>2, <2>3 DEF Inv, TtlOK
<1> QED
    BY <1>1, Invariance, PTL

=============================================================================
