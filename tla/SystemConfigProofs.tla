------------------------- MODULE SystemConfigProofs -------------------------
(***************************************************************************)
(* Proofs about SystemConfig, for any tasks, any number of resolvers and   *)
(* writes, any lines and words, and any sources and hosts files of the     *)
(* types that the platforms' calls return.                                 *)
(***************************************************************************)
EXTENDS SystemConfig, FiniteSetTheorems, SequenceTheorems, WellFoundedInduction, TLAPS

-----------------------------------------------------------------------------
(* Sequences by their places. *)

\* f comes from b by the first n of the steps.
IsFold(f, n, b, step) == f[0] = b /\ \A i \in 1..n : f[i] = step[i][f[i - 1]]

\* Some member of a set of naturals is the least.
LEMMA LeastMember ==
    ASSUME NEW S \in SUBSET Nat, S # {}
    PROVE  \E m \in S : \A j \in S : m <= j
<1>1. PICK rel : rel = OpToRel(<, Nat)
    OBVIOUS
<1>2. IsWellFoundedOn(rel, Nat)
    BY <1>1, NatLessThanWellFounded
<1>3. ASSUME NEW i \in Nat, NEW j \in Nat, i < j
      PROVE  <<i, j>> \in rel
    BY <1>1, <1>3 DEF OpToRel
<1>4. PICK m \in S : \A j \in S : ~(<<j, m>> \in rel)
    BY <1>2, WFMin
<1>5. ASSUME NEW j \in S
      PROVE  m <= j
    <2>1. m \in Nat /\ j \in Nat
        OBVIOUS
    <2>2. ~(j < m)
        BY <1>3, <1>4, <2>1
    <2> QED
        BY <2>1, <2>2
<1> QED
    BY <1>5

\* What holds of 0, and of the next whenever of one, holds of every natural.
LEMMA AllNaturals ==
    ASSUME NEW S \in SUBSET Nat, 0 \in S, \A i \in S : i + 1 \in S
    PROVE  S = Nat
<1>1. PICK missed \in SUBSET Nat : missed = Nat \ S
    OBVIOUS
<1>2. SUFFICES ASSUME missed # {}
               PROVE  FALSE
    BY <1>1
<1>3. PICK m \in missed : \A j \in missed : m <= j
    BY <1>2, LeastMember
<1>4. m \in Nat /\ m \notin S /\ m # 0
    BY <1>1
<1>5. PICK j \in Nat : m = j + 1
    <2>1. m - 1 \in Nat /\ m = (m - 1) + 1
        BY <1>4
    <2> QED
        BY <2>1
<1>6. j \notin missed
    BY <1>3, <1>5
<1> QED
    BY <1>1, <1>4, <1>5, <1>6

\* Steps that lead from members of a set to members of it can be taken one after another.
LEMMA FoldsExist ==
    ASSUME NEW S, NEW b \in S, NEW n \in Nat, NEW step \in [1..n -> [S -> S]]
    PROVE  \E f \in [0..n -> S] : IsFold(f, n, b, step)
<1>1. PICK K \in SUBSET Nat :
          K = {k \in Nat : k <= n => \E f \in [0..k -> S] : IsFold(f, k, b, step)}
    OBVIOUS
<1>2. 0 \in K
    <2>1. PICK f : f = [i \in 0..0 |-> b]
        OBVIOUS
    <2>2. f \in [0..0 -> S] /\ IsFold(f, 0, b, step)
        BY <2>1 DEF IsFold
    <2> QED
        BY <1>1, <2>2
<1>3. ASSUME NEW k \in K
      PROVE  k + 1 \in K
    <2>1. k \in Nat /\ k + 1 \in Nat
        BY <1>1
    <2>2. SUFFICES ASSUME k + 1 <= n
                   PROVE  \E f \in [0..(k + 1) -> S] : IsFold(f, k + 1, b, step)
        BY <1>1, <2>1
    <2>3. PICK f \in [0..k -> S] : IsFold(f, k, b, step)
        BY <1>1, <2>1, <2>2
    <2>4. PICK last \in S : last = step[k + 1][f[k]]
        <3>1. k + 1 \in 1..n /\ k \in 0..k
            BY <2>1, <2>2
        <3>2. step[k + 1] \in [S -> S] /\ f[k] \in S
            BY <2>3, <3>1
        <3> QED
            BY <3>2
    <2>5. PICK g : g = [i \in 0..(k + 1) |-> IF i = k + 1 THEN last ELSE f[i]]
        OBVIOUS
    <2>6. ASSUME NEW i \in 0..k
          PROVE  g[i] = f[i]
        BY <2>1, <2>5
    <2>7. g[k + 1] = step[k + 1][g[k]]
        BY <2>1, <2>4, <2>5, <2>6
    <2>8. ASSUME NEW i \in 1..(k + 1)
          PROVE  g[i] = step[i][g[i - 1]]
        <3>1. CASE i = k + 1
            BY <2>1, <2>7, <3>1
        <3>2. CASE i # k + 1
            <4>1. i \in 1..k /\ i \in 0..k /\ i - 1 \in 0..k
                BY <2>1, <3>2
            <4> QED
                BY <2>3, <2>6, <4>1 DEF IsFold
        <3> QED
            BY <3>1, <3>2
    <2>9. g[0] = b
        BY <2>1, <2>3, <2>6 DEF IsFold
    <2>10. g \in [0..(k + 1) -> S]
        BY <2>1, <2>3, <2>4, <2>5
    <2> QED
        BY <2>8, <2>9, <2>10 DEF IsFold
<1>4. K = Nat
    BY <1>2, <1>3, AllNaturals
<1>5. n \in K
    BY <1>4
<1> QED
    BY <1>1, <1>5

\* f lists the members of P by R: the smaller first, each once.
Lists(f, n, P, R) ==
    /\ f \in [1..n -> P]
    /\ \A p \in P : \E k \in 1..n : f[k] = p
    /\ \A k, l \in 1..n : <<f[k], f[l]>> \in R <=> k < l

\* The k-th that is listed has k - 1 before it.
LEMMA RankInList ==
    ASSUME NEW n \in Nat, NEW P, NEW R, NEW f, Lists(f, n, P, R)
    PROVE  /\ IsFiniteSet(P) /\ Cardinality(P) = n
           /\ \A k \in 1..n : Cardinality({q \in P : <<q, f[k]>> \in R}) = k - 1
<1>1. f \in [1..n -> P] /\ \A k, l \in 1..n : <<f[k], f[l]>> \in R <=> k < l
    BY DEF Lists
<1>2. ASSUME NEW k \in 1..n, NEW l \in 1..n, f[k] = f[l]
      PROVE  k = l
    <2>1. ~(<<f[k], f[l]>> \in R) /\ ~(<<f[l], f[k]>> \in R)
        BY <1>1, <1>2
    <2> QED
        BY <1>1, <2>1
<1>3. ASSUME NEW m \in 0..n, NEW Q, Q = {f[k] : k \in 1..m}
      PROVE  IsFiniteSet(Q) /\ Cardinality(Q) = m
    <2>1. IsFiniteSet(1..m) /\ Cardinality(1..m) = m
        BY FS_Interval
    <2>2. PICK g : g = [k \in 1..m |-> f[k]]
        OBVIOUS
    <2>3. g \in Injection(1..m, Q)
        BY <1>2, <1>3, <2>2 DEF Injection, IsInjective
    <2>4. g \in Surjection(1..m, Q)
        BY <1>3, <2>2 DEF Surjection
    <2>5. ExistsBijection(1..m, Q)
        BY <2>3, <2>4 DEF ExistsBijection, Bijection
    <2> QED
        BY <2>1, <2>5, FS_Bijection
<1>4. P = {f[k] : k \in 1..n}
    BY <1>1 DEF Lists
<1>5. ASSUME NEW k \in 1..n
      PROVE  Cardinality({q \in P : <<q, f[k]>> \in R}) = k - 1
    <2>1. PICK m \in 0..n : m = k - 1
        OBVIOUS
    <2>2. PICK Q : Q = {q \in P : <<q, f[k]>> \in R}
        OBVIOUS
    <2>3. \A l \in 1..n : f[l] \in Q <=> l \in 1..m
        BY <1>1, <2>1, <2>2
    <2>4. \A l \in 1..m : l \in 1..n
        BY <2>1
    <2>5. \A q \in Q : \E l \in 1..m : q = f[l]
        BY <1>4, <2>2, <2>3
    <2>6. Q = {f[l] : l \in 1..m}
        BY <2>3, <2>4, <2>5
    <2> QED
        BY <1>3, <2>1, <2>2, <2>6
<1> QED
    BY <1>3, <1>4, <1>5

Smaller(I) == {p \in I \X I : p[1] < p[2]}

\* Picked is what its places are in their order.
LEMMA PickedByList ==
    ASSUME NEW n \in Nat, NEW I \in SUBSET Nat, NEW e, Lists(e, n, I, Smaller(I)), NEW s
    PROVE  /\ Picked(s, I) = [k \in 1..n |-> s[e[k]]]
           /\ Cardinality(I) = n
<1>1. e \in [1..n -> I] /\ \A i \in I : \E k \in 1..n : e[k] = i
    BY DEF Lists
<1>2. Cardinality(I) = n
    BY RankInList
<1>3. ASSUME NEW k \in 1..n
      PROVE  Cardinality({j \in I : j < e[k]}) = k - 1
    <2>1. {q \in I : <<q, e[k]>> \in Smaller(I)} = {j \in I : j < e[k]}
        BY <1>1 DEF Smaller
    <2> QED
        BY <2>1, RankInList
<1>4. ASSUME NEW k \in 1..n
      PROVE  e[k] = CHOOSE i \in I : Cardinality({j \in I : j < i}) = k - 1
    <2>1. e[k] \in I /\ Cardinality({j \in I : j < e[k]}) = k - 1
        BY <1>1, <1>3
    <2>2. ASSUME NEW i \in I, Cardinality({j \in I : j < i}) = k - 1
          PROVE  i = e[k]
        <3>1. PICK l \in 1..n : e[l] = i
            BY <1>1
        <3>2. l - 1 = k - 1
            BY <1>3, <2>2, <3>1
        <3> QED
            BY <3>1, <3>2
    <2> QED
        BY <2>1, <2>2
<1>5. PICK place : place = [k \in 1..n |-> CHOOSE i \in I : Cardinality({j \in I : j < i}) = k - 1]
    OBVIOUS
<1>6. \A k \in 1..n : place[k] = e[k]
    BY <1>4, <1>5
<1>7. Picked(s, I) = [k \in 1..n |-> s[place[k]]]
    BY <1>2, <1>5 DEF Picked
<1> QED
    BY <1>2, <1>6, <1>7

\* A place behind all that are listed goes to the end of the list.
LEMMA ListGrows ==
    ASSUME NEW k \in Nat, NEW H \in SUBSET (1..k), NEW m \in Nat, NEW e, Lists(e, m, H, Smaller(H)),
           NEW J, J = H \cup {k + 1},
           NEW g, g = [i \in 1..(m + 1) |-> IF i = m + 1 THEN k + 1 ELSE e[i]]
    PROVE  Lists(g, m + 1, J, Smaller(J))
<1>1. /\ e \in [1..m -> H] /\ \A i \in H : \E l \in 1..m : e[l] = i
      /\ \A i, l \in 1..m : <<e[i], e[l]>> \in Smaller(H) <=> i < l
    BY DEF Lists
<1>2. g[m + 1] = k + 1 /\ \A i \in 1..m : g[i] = e[i]
    OBVIOUS
<1>3. g \in [1..(m + 1) -> J]
    BY <1>1
<1>4. ASSUME NEW i \in J
      PROVE  \E l \in 1..(m + 1) : g[l] = i
    <2>1. CASE i = k + 1
        BY <1>2, <2>1
    <2>2. CASE i # k + 1
        <3>1. PICK l \in 1..m : e[l] = i
            BY <1>1, <2>2
        <3> QED
            BY <1>2, <3>1
    <2> QED
        BY <2>1, <2>2
<1>5. ASSUME NEW i \in 1..(m + 1), NEW l \in 1..(m + 1)
      PROVE  <<g[i], g[l]>> \in Smaller(J) <=> i < l
    <2>1. <<g[i], g[l]>> \in Smaller(J) <=> g[i] < g[l]
        BY <1>3 DEF Smaller
    <2>2. \A x \in 1..m : e[x] \in 1..k
        BY <1>1
    <2>3. \A x, y \in 1..m : e[x] < e[y] <=> x < y
        BY <1>1 DEF Smaller
    <2>4. CASE i = m + 1 /\ l = m + 1
        BY <1>2, <2>1, <2>4
    <2>5. CASE i = m + 1 /\ l \in 1..m
        BY <1>2, <2>1, <2>2, <2>5
    <2>6. CASE i \in 1..m /\ l = m + 1
        BY <1>2, <2>1, <2>2, <2>6
    <2>7. CASE i \in 1..m /\ l \in 1..m
        BY <1>2, <2>1, <2>3, <2>7
    <2> QED
        BY <2>4, <2>5, <2>6, <2>7
<1> QED
    BY <1>3, <1>4, <1>5 DEF Lists

\* Any places of a sequence can be listed.
LEMMA PlacesHaveList ==
    ASSUME NEW n \in Nat, NEW I \in SUBSET (1..n)
    PROVE  \E m \in Nat : \E e : Lists(e, m, I, Smaller(I))
<1>1. PICK K \in SUBSET Nat :
          K = {k \in Nat : \A J \in SUBSET (1..k) : \E m \in Nat : \E e : Lists(e, m, J, Smaller(J))}
    OBVIOUS
<1>2. 0 \in K
    <2>1. ASSUME NEW J \in SUBSET (1..0)
          PROVE  \E m \in Nat : \E e : Lists(e, m, J, Smaller(J))
        <3>1. J = {}
            OBVIOUS
        <3>2. PICK e : e = [k \in 1..0 |-> k]
            OBVIOUS
        <3>3. Lists(e, 0, J, Smaller(J))
            BY <3>1, <3>2 DEF Lists
        <3> QED
            BY <3>3
    <2> QED
        BY <1>1, <2>1
<1>3. ASSUME NEW k \in K
      PROVE  k + 1 \in K
    <2>1. k \in Nat /\ k + 1 \in Nat
        BY <1>1
    <2>2. ASSUME NEW J \in SUBSET (1..(k + 1))
          PROVE  \E m \in Nat : \E e : Lists(e, m, J, Smaller(J))
        <3>1. PICK H \in SUBSET (1..k) : H = J \ {k + 1}
            <4>1. J \ {k + 1} \in SUBSET (1..k)
                BY <2>1
            <4> QED
                BY <4>1
        <3>2. PICK m \in Nat : \E e : Lists(e, m, H, Smaller(H))
            BY <1>1, <3>1
        <3>3. PICK e : Lists(e, m, H, Smaller(H))
            BY <3>2
        <3>4. CASE k + 1 \notin J
            <4>1. H = J
                BY <3>1, <3>4
            <4> QED
                BY <3>3, <4>1
        <3>5. CASE k + 1 \in J
            <4>1. PICK g : g = [i \in 1..(m + 1) |-> IF i = m + 1 THEN k + 1 ELSE e[i]]
                OBVIOUS
            <4>2. J = H \cup {k + 1}
                BY <3>1, <3>5
            <4>3. Lists(g, m + 1, J, Smaller(J))
                BY <2>1, <3>3, <4>1, <4>2, ListGrows
            <4> QED
                BY <4>3
        <3> QED
            BY <3>4, <3>5
    <2> QED
        BY <1>1, <2>1, <2>2
<1>4. K = Nat
    BY <1>2, <1>3, AllNaturals
<1>5. n \in K
    BY <1>4
<1> QED
    BY <1>1, <1>5

PicksBy(e, m, s, I) == Lists(e, m, I, Smaller(I)) /\ Picked(s, I) = [k \in 1..m |-> s[e[k]]]

\* Whatever is picked is the members at the places, in the order of a list of them.
LEMMA PickedHasList ==
    ASSUME NEW n \in Nat, NEW I \in SUBSET (1..n), NEW s
    PROVE  \E m \in Nat : \E e : PicksBy(e, m, s, I)
<1>1. PICK m \in Nat : \E e : Lists(e, m, I, Smaller(I))
    BY PlacesHaveList
<1>2. PICK e : Lists(e, m, I, Smaller(I))
    BY <1>1
<1>3. Picked(s, I) = [k \in 1..m |-> s[e[k]]]
    BY <1>2, PickedByList
<1> QED
    BY <1>2, <1>3 DEF PicksBy

\* A filter makes up no members and loses none of those it keeps.
LEMMA PickedRange ==
    ASSUME NEW S, NEW s \in Seq(S), NEW I \in SUBSET (DOMAIN s)
    PROVE  /\ Picked(s, I) \in Seq(S)
           /\ Range(Picked(s, I)) = {s[i] : i \in I}
           /\ Picked(s, I) = <<>> <=> I = {}
<1>1. PICK n \in Nat : DOMAIN s = 1..n
    BY ElementOfSeq
<1>2. PICK m \in Nat : \E e : PicksBy(e, m, s, I)
    <2>1. I \in SUBSET (1..n)
        BY <1>1
    <2> QED
        BY <2>1, PickedHasList
<1>3. PICK e : Lists(e, m, I, Smaller(I)) /\ Picked(s, I) = [k \in 1..m |-> s[e[k]]]
    BY <1>2 DEF PicksBy
<1>4. e \in [1..m -> I] /\ \A i \in I : \E k \in 1..m : e[k] = i
    BY <1>3 DEF Lists
<1>5. PICK p : p = Picked(s, I)
    OBVIOUS
<1>6. \A k \in 1..m : p[k] = s[e[k]] /\ e[k] \in I /\ s[e[k]] \in S
    BY <1>1, <1>3, <1>4, <1>5
<1>7. p \in Seq(S) /\ DOMAIN p = 1..m /\ Len(p) = m
    BY <1>3, <1>5, <1>6
<1>8. Range(p) = {s[i] : i \in I}
    <2>1. Range(p) = {p[k] : k \in 1..m}
        BY <1>7 DEF Range
    <2>2. \A i \in I : \E k \in 1..m : p[k] = s[i]
        BY <1>4, <1>6
    <2> QED
        BY <1>6, <2>1, <2>2
<1>9. p = <<>> <=> m = 0
    BY <1>7
<1>10. m = 0 <=> I = {}
    BY <1>4
<1> QED
    BY <1>5, <1>7, <1>8, <1>9, <1>10

\* One more place behind all others adds its member at the end.
LEMMA PickedGrows ==
    ASSUME NEW S, NEW s \in Seq(S), NEW k \in Nat, k + 1 \in DOMAIN s, NEW I \in SUBSET (1..k)
    PROVE  Picked(s, I \cup {k + 1}) = Append(Picked(s, I), s[k + 1])
<1>1. PICK n \in Nat : DOMAIN s = 1..n
    BY ElementOfSeq
<1>2. PICK m \in Nat : \E e : PicksBy(e, m, s, I)
    BY PickedHasList
<1>3. PICK e : Lists(e, m, I, Smaller(I)) /\ Picked(s, I) = [i \in 1..m |-> s[e[i]]]
    BY <1>2 DEF PicksBy
<1>4. PICK g : g = [i \in 1..(m + 1) |-> IF i = m + 1 THEN k + 1 ELSE e[i]]
    OBVIOUS
<1>5. PICK J : J = I \cup {k + 1}
    OBVIOUS
<1>6. Lists(g, m + 1, J, Smaller(J))
    BY <1>3, <1>4, <1>5, ListGrows
<1>7. J \in SUBSET Nat /\ m + 1 \in Nat
    BY <1>5
<1>8. Picked(s, J) = [i \in 1..(m + 1) |-> s[g[i]]]
    BY <1>6, <1>7, PickedByList
<1>9. I \in SUBSET (DOMAIN s)
    BY <1>1
<1>10. PICK p \in Seq(S) : p = Picked(s, I)
    BY <1>9, PickedRange
<1>11. DOMAIN p = 1..m /\ Len(p) = m
    BY <1>3, <1>10
<1>12. PICK x \in S : x = s[k + 1]
    OBVIOUS
<1>13. PICK q \in Seq(S) : q = Append(p, x)
    <2>1. Append(p, x) \in Seq(S)
        BY AppendProperties
    <2> QED
        BY <2>1
<1>14. /\ q = [i \in 1..(m + 1) |-> q[i]]
       /\ \A i \in 1..m : q[i] = p[i]
       /\ q[m + 1] = x
    <2>1. /\ Len(q) = m + 1 /\ \A i \in 1..m : q[i] = p[i]
          /\ q[m + 1] = x
        BY <1>11, <1>13, AppendProperties
    <2>2. q = [i \in 1..(m + 1) |-> q[i]]
        BY <2>1
    <2> QED
        BY <2>1, <2>2
<1>15. ASSUME NEW i \in 1..(m + 1)
       PROVE  q[i] = s[g[i]]
    <2>1. CASE i = m + 1
        BY <1>4, <1>12, <1>14, <2>1
    <2>2. CASE i # m + 1
        <3>1. i \in 1..m /\ g[i] = e[i]
            BY <1>4, <2>2
        <3> QED
            BY <1>3, <1>10, <1>14, <3>1
    <2> QED
        BY <2>1, <2>2
<1> QED
    BY <1>5, <1>8, <1>10, <1>12, <1>13, <1>14, <1>15

\* The places of the first n lists, and the earlier of them in pairs.
Slots(pieces, n) == UNION {{i} \X (1..Len(pieces[i])) : i \in 1..n}
Earlier(P) == {p \in P \X P : Before(p[1], p[2])}

\* A slot is a list and a place of it.
LEMMA SlotPlaces ==
    ASSUME NEW pieces, NEW n \in Nat, NEW p
    PROVE  p \in Slots(pieces, n) <=> \E a \in 1..n : \E i \in 1..Len(pieces[a]) : p = <<a, i>>
    BY DEF Slots

\* Appending one more list.
LEMMA SlotsGrow ==
    ASSUME NEW S, NEW pieces \in Seq(Seq(S)), NEW n \in Nat, n + 1 <= Len(pieces),
           NEW m \in Nat, NEW f, Lists(f, m, Slots(pieces, n), Earlier(Slots(pieces, n))),
           NEW w \in Nat, w = Len(pieces[n + 1]),
           NEW g, g = [k \in 1..(m + w) |-> IF k <= m THEN f[k] ELSE <<n + 1, k - m>>]
    PROVE  Lists(g, m + w, Slots(pieces, n + 1), Earlier(Slots(pieces, n + 1)))
<1>1. PICK P : P = Slots(pieces, n)
    OBVIOUS
<1>2. PICK Q : Q = Slots(pieces, n + 1)
    OBVIOUS
<1>3. Q = P \cup ({n + 1} \X (1..w))
    <2>1. 1..(n + 1) = (1..n) \cup {n + 1}
        OBVIOUS
    <2> QED
        BY <1>1, <1>2, <2>1 DEF Slots
<1>4. \A p \in P : p[1] \in 1..n
    BY <1>1 DEF Slots
<1>5. /\ f \in [1..m -> P] /\ \A p \in P : \E k \in 1..m : f[k] = p
      /\ \A k, l \in 1..m : Before(f[k], f[l]) <=> k < l
    <2>1. /\ f \in [1..m -> P] /\ \A p \in P : \E k \in 1..m : f[k] = p
          /\ \A k, l \in 1..m : <<f[k], f[l]>> \in Earlier(P) <=> k < l
        BY <1>1 DEF Lists
    <2>2. \A k, l \in 1..m : <<f[k], f[l]>> \in Earlier(P) <=> Before(f[k], f[l])
        BY <2>1 DEF Earlier
    <2> QED
        BY <2>1, <2>2
<1>6. /\ \A k \in 1..m : k \in 1..(m + w) /\ g[k] = f[k]
      /\ \A k \in 1..(m + w) : k \notin 1..m => k - m \in 1..w /\ g[k] = <<n + 1, k - m>>
    OBVIOUS
<1>7. g \in [1..(m + w) -> Q]
    <2>1. \A k \in 1..(m + w) : g[k] \in Q
        BY <1>3, <1>5, <1>6
    <2> QED
        BY <2>1
<1>8. ASSUME NEW p \in Q
      PROVE  \E k \in 1..(m + w) : g[k] = p
    <2>1. CASE p \in P
        <3>1. PICK k \in 1..m : f[k] = p
            BY <1>5, <2>1
        <3> QED
            BY <1>6, <3>1
    <2>2. CASE p \notin P
        <3>1. PICK j \in 1..w : p = <<n + 1, j>>
            BY <1>3, <2>2
        <3>2. m + j \in 1..(m + w) /\ m + j \notin 1..m /\ (m + j) - m = j
            OBVIOUS
        <3> QED
            BY <1>6, <3>1, <3>2
    <2> QED
        BY <2>1, <2>2
<1>9. ASSUME NEW k \in 1..(m + w), NEW l \in 1..(m + w)
      PROVE  Before(g[k], g[l]) <=> k < l
    <2>1. \A x \in 1..m : f[x][1] \in 1..n
        BY <1>4, <1>5
    <2>2. CASE k \in 1..m /\ l \in 1..m
        BY <1>5, <1>6, <2>2
    <2>3. CASE k \in 1..m /\ l \notin 1..m
        BY <1>6, <2>1, <2>3 DEF Before
    <2>4. CASE k \notin 1..m /\ l \in 1..m
        BY <1>6, <2>1, <2>4 DEF Before
    <2>5. CASE k \notin 1..m /\ l \notin 1..m
        BY <1>6, <2>5 DEF Before
    <2> QED
        BY <2>2, <2>3, <2>4, <2>5
<1>10. \A k, l \in 1..(m + w) : <<g[k], g[l]>> \in Earlier(Q) <=> k < l
    <2>1. \A k, l \in 1..(m + w) : <<g[k], g[l]>> \in Earlier(Q) <=> Before(g[k], g[l])
        BY <1>7 DEF Earlier
    <2> QED
        BY <1>9, <2>1
<1> QED
    BY <1>2, <1>7, <1>8, <1>10 DEF Lists

\* u, up to any of the lists, has the members at their places in the order of the places.
IsJoined(u, pieces, n, m, f) ==
    /\ Lists(f, m, Slots(pieces, n), Earlier(Slots(pieces, n)))
    /\ DOMAIN u = 1..m /\ Len(u) = m
    /\ \A k \in 1..m : u[k] = pieces[f[k][1]][f[k][2]]

\* Joined keeps every member of every list, and their order.
LEMMA JoinedHasList ==
    ASSUME NEW S, NEW pieces \in Seq(Seq(S)), NEW n \in Nat, n = Len(pieces)
    PROVE  /\ Joined(pieces) \in Seq(S)
           /\ \E m \in Nat : \E f : IsJoined(Joined(pieces), pieces, n, m, f)
<1>1. PICK T : T = Seq(S)
    OBVIOUS
<1>2. <<>> \in T /\ \A i \in 1..n : pieces[i] \in T
    BY <1>1
<1>3. ASSUME NEW i \in 1..n, NEW s \in T
      PROVE  s \o pieces[i] \in T
    <2>1. s \in Seq(S) /\ pieces[i] \in Seq(S)
        BY <1>1, <1>2
    <2> QED
        BY <1>1, <2>1, ConcatProperties
<1>4. PICK step : step = [i \in 1..n |-> [s \in T |-> s \o pieces[i]]]
    OBVIOUS
<1>5. step \in [1..n -> [T -> T]]
    BY <1>3, <1>4
<1>6. PICK h \in [0..n -> T] : IsFold(h, n, <<>>, step)
    BY <1>2, <1>5, FoldsExist
<1>7. h = [i \in 0..n |-> IF i = 0 THEN <<>> ELSE h[i - 1] \o pieces[i]]
    <2>1. h[0] = <<>>
        BY <1>6 DEF IsFold
    <2>2. ASSUME NEW i \in 0..n, i # 0
          PROVE  h[i] = h[i - 1] \o pieces[i]
        <3>1. i \in 1..n /\ i - 1 \in 0..n
            BY <2>2
        <3>2. h[i - 1] \in T /\ h[i] = step[i][h[i - 1]]
            BY <1>6, <3>1 DEF IsFold
        <3> QED
            BY <1>4, <3>1, <3>2
    <2> QED
        BY <1>6, <2>1, <2>2
<1>8. PICK u : u = CHOOSE x : x = [i \in 0..n |-> IF i = 0 THEN <<>> ELSE x[i - 1] \o pieces[i]]
    OBVIOUS
<1>9. u = [i \in 0..n |-> IF i = 0 THEN <<>> ELSE u[i - 1] \o pieces[i]]
    BY <1>7, <1>8
<1>10. Joined(pieces) = u[n]
    BY <1>8 DEF Joined
<1>11. PICK K \in SUBSET Nat :
           K = {k \in Nat : k <= n => /\ u[k] \in T
                                      /\ \E m \in Nat : \E f : IsJoined(u[k], pieces, k, m, f)}
    OBVIOUS
<1>12. 0 \in K
    <2>1. u[0] = <<>>
        BY <1>9
    <2>2. Slots(pieces, 0) = {}
        BY DEF Slots
    <2>3. PICK f : f = [i \in 1..0 |-> i]
        OBVIOUS
    <2>4. Lists(f, 0, Slots(pieces, 0), Earlier(Slots(pieces, 0)))
        BY <2>2, <2>3 DEF Lists
    <2>5. IsJoined(u[0], pieces, 0, 0, f)
        BY <2>1, <2>4 DEF IsJoined
    <2> QED
        BY <1>2, <1>11, <2>1, <2>5
<1>13. ASSUME NEW k \in K
       PROVE  k + 1 \in K
    <2>1. k \in Nat /\ k + 1 \in Nat
        BY <1>11
    <2>2. SUFFICES ASSUME k + 1 <= n
                   PROVE  /\ u[k + 1] \in T
                          /\ \E m \in Nat : \E f : IsJoined(u[k + 1], pieces, k + 1, m, f)
        BY <1>11, <2>1
    <2>3. k + 1 \in 1..n /\ k + 1 \in 0..n /\ (k + 1) - 1 = k /\ k + 1 # 0
        BY <2>1, <2>2
    <2>4. u[k] \in T /\ \E m \in Nat : \E f : IsJoined(u[k], pieces, k, m, f)
        BY <1>11, <2>1, <2>2
    <2>5. PICK m \in Nat : \E f : IsJoined(u[k], pieces, k, m, f)
        BY <2>4
    <2>6. PICK f : IsJoined(u[k], pieces, k, m, f)
        BY <2>5
    <2>7. PICK piece \in Seq(S) : piece = pieces[k + 1]
        BY <1>1, <1>2, <2>3
    <2>8. PICK w \in Nat : w = Len(piece) /\ DOMAIN piece = 1..w
        OBVIOUS
    <2>9. u[k + 1] = u[k] \o piece
        BY <1>9, <2>3, <2>7
    <2>10. u[k + 1] \in T
        BY <1>3, <2>3, <2>4, <2>7, <2>9
    <2>11. PICK g : g = [i \in 1..(m + w) |-> IF i <= m THEN f[i] ELSE <<k + 1, i - m>>]
        OBVIOUS
    <2>12. Lists(g, m + w, Slots(pieces, k + 1), Earlier(Slots(pieces, k + 1)))
        <3>1. k + 1 <= Len(pieces) /\ w = Len(pieces[k + 1])
            BY <2>2, <2>7, <2>8
        <3> QED
            BY <2>1, <2>6, <2>11, <3>1, SlotsGrow DEF IsJoined
    <2>13. PICK v \in Seq(S) : v = u[k]
        BY <1>1, <2>4
    <2>14. Len(v) = m /\ \A i \in 1..m : v[i] = pieces[f[i][1]][f[i][2]]
        BY <2>6, <2>13 DEF IsJoined
    <2>15. PICK x \in Seq(S) : x = v \o piece
        BY ConcatProperties
    <2>16. /\ Len(x) = m + w /\ DOMAIN x = 1..(m + w)
           /\ \A i \in 1..(m + w) : i <= m => x[i] = v[i]
           /\ \A i \in 1..(m + w) : ~(i <= m) => x[i] = piece[i - m]
        <3>1. /\ Len(x) = m + w
              /\ \A i \in 1..(m + w) : x[i] = IF i <= m THEN v[i] ELSE piece[i - m]
            <4>1. Len(v) = m /\ Len(piece) = w
                BY <2>8, <2>14
            <4>2. /\ Len(v \o piece) = Len(v) + Len(piece)
                  /\ \A i \in 1..Len(v) + Len(piece) : (v \o piece)[i] =
                        IF i <= Len(v) THEN v[i] ELSE piece[i - Len(v)]
                BY ConcatProperties
            <4> QED
                BY <2>15, <4>1, <4>2
        <3>2. DOMAIN x = 1..(m + w)
            BY <3>1
        <3> QED
            BY <3>1, <3>2
    <2>17. ASSUME NEW i \in 1..(m + w)
           PROVE  x[i] = pieces[g[i][1]][g[i][2]]
        <3>1. CASE i <= m
            BY <2>11, <2>14, <2>16, <3>1
        <3>2. CASE ~(i <= m)
            <4>1. g[i] = <<k + 1, i - m>>
                BY <2>11, <3>2
            <4> QED
                BY <2>7, <2>16, <3>2, <4>1
        <3> QED
            BY <3>1, <3>2
    <2>18. IsJoined(x, pieces, k + 1, m + w, g)
        BY <2>12, <2>16, <2>17 DEF IsJoined
    <2> QED
        BY <2>9, <2>10, <2>13, <2>15, <2>18
<1>14. K = Nat
    BY <1>12, <1>13, AllNaturals
<1>15. n \in K
    BY <1>14
<1> QED
    BY <1>1, <1>10, <1>11, <1>15

-----------------------------------------------------------------------------
(* The hosts file. *)

Entry == {[name |-> Lower[w], ip |-> Ip[a]] : w \in STRING, a \in DOMAIN Ip}

\* What is left of a line are its words before the first sign of a comment.
LEMMA UncommentedWords ==
    ASSUME NEW line \in Seq(STRING)
    PROVE  \E c \in 0..Len(line) :
              /\ Uncommented(line) \in Seq(STRING) /\ Len(Uncommented(line)) = c
              /\ \A j \in 1..c : Uncommented(line)[j] = line[j] /\ line[j] \notin Hash
              /\ c < Len(line) => line[c + 1] \in Hash
<1>1. PICK n \in Nat : n = Len(line) /\ DOMAIN line = 1..n
    OBVIOUS
<1>2. PICK signs : signs = {i \in 1..n : line[i] \in Hash}
    OBVIOUS
<1>3. PICK u : u = Uncommented(line)
    OBVIOUS
<1>4. u = IF signs = {} THEN line
          ELSE SubSeq(line, 1, (CHOOSE i \in signs : \A j \in signs : i <= j) - 1)
    BY <1>1, <1>2, <1>3 DEF Uncommented
<1>5. CASE signs = {}
    <2>1. u = line /\ \A j \in 1..n : line[j] \notin Hash
        BY <1>2, <1>4, <1>5
    <2> QED
        BY <1>1, <1>3, <2>1
<1>6. CASE signs # {}
    <2>0. signs \in SUBSET Nat
        BY <1>2
    <2>1. \E i \in signs : \A j \in signs : i <= j
        BY <1>6, <2>0, LeastMember
    <2>2. PICK first \in signs : /\ first = CHOOSE i \in signs : \A j \in signs : i <= j
                                 /\ \A j \in signs : first <= j
        BY <2>1
    <2>3. PICK c \in 0..n : c = first - 1 /\ c < n /\ c + 1 = first
        BY <1>2
    <2>4. u = SubSeq(line, 1, c)
        BY <1>4, <1>6, <2>2, <2>3
    <2>5. u \in Seq(STRING) /\ Len(u) = c /\ \A j \in 1..c : u[j] = line[j]
        BY <1>1, <2>3, <2>4
    <2>6. line[c + 1] \in Hash
        BY <1>2, <2>3
    <2>7. \A j \in 1..c : line[j] \notin Hash
        BY <1>2, <2>2, <2>3
    <2> QED
        BY <1>1, <1>3, <2>3, <2>5, <2>6, <2>7
<1> QED
    BY <1>5, <1>6

\* A line has an entry for each of its words behind its address and before a comment.
LEMMA EntriesOfLine ==
    ASSUME NEW line \in Seq(STRING), NEW found, found = Entries(Uncommented(line))
    PROVE  /\ found \in Seq(Entry)
           /\ \A i \in Nat : i \in 1..Len(found) <=>
                 /\ i \in 1..(Len(line) - 1) /\ line[1] \in DOMAIN Ip
                 /\ \A j \in 1..(i + 1) : line[j] \notin Hash
           /\ \A i \in 1..Len(found) : found[i] = [name |-> Lower[line[i + 1]], ip |-> Ip[line[1]]]
<1>1. PICK u : u = Uncommented(line)
    OBVIOUS
<1>2. PICK n \in Nat : n = Len(line)
    OBVIOUS
<1>3. PICK c \in 0..n :
              /\ u \in Seq(STRING) /\ Len(u) = c
              /\ \A j \in 1..c : u[j] = line[j] /\ line[j] \notin Hash
              /\ c < n => line[c + 1] \in Hash
    BY <1>1, <1>2, UncommentedWords
<1>4. found = IF u = <<>> \/ u[1] \notin DOMAIN Ip THEN <<>>
              ELSE [i \in 1..(c - 1) |-> [name |-> Lower[u[i + 1]], ip |-> Ip[u[1]]]]
    BY <1>1, <1>3 DEF Entries
<1>5. u = <<>> <=> c = 0
    BY <1>3
<1>6. CASE c = 0 \/ line[1] \notin DOMAIN Ip
    <2>1. found = <<>>
        BY <1>3, <1>4, <1>5, <1>6
    <2>2. ASSUME NEW i \in Nat, i \in 1..(n - 1), line[1] \in DOMAIN Ip,
                 \A j \in 1..(i + 1) : line[j] \notin Hash
          PROVE  FALSE
        <3>1. c = 0 /\ 1 \in 1..(i + 1) /\ c < n
            BY <1>2, <1>6, <2>2
        <3>2. line[1] \in Hash
            BY <1>3, <3>1
        <3> QED
            BY <2>2, <3>1, <3>2
    <2>3. found \in Seq(Entry) /\ Len(found) = 0
        BY <2>1
    <2> QED
        BY <1>2, <2>2, <2>3
<1>7. CASE c # 0 /\ line[1] \in DOMAIN Ip
    <2>1. u # <<>> /\ u[1] = line[1]
        BY <1>3, <1>5, <1>7
    <2>2. PICK m \in Nat : m = c - 1
        BY <1>7
    <2>3. found = [i \in 1..m |-> [name |-> Lower[u[i + 1]], ip |-> Ip[u[1]]]]
        BY <1>4, <1>7, <2>1, <2>2
    <2>4. \A i \in 1..m : u[i + 1] = line[i + 1] /\ line[i + 1] \in STRING
        BY <1>2, <1>3, <2>2
    <2>5. \A i \in 1..m : found[i] = [name |-> Lower[line[i + 1]], ip |-> Ip[line[1]]]
        BY <2>1, <2>3, <2>4
    <2>6. ASSUME NEW i \in 1..m
          PROVE  found[i] \in Entry
        <3>1. PICK w \in STRING : w = line[i + 1]
            BY <2>4
        <3>2. found[i] = [name |-> Lower[w], ip |-> Ip[line[1]]]
            BY <2>5, <3>1
        <3> QED
            BY <1>7, <3>2 DEF Entry
    <2>7. found \in Seq(Entry) /\ Len(found) = m
        BY <2>3, <2>6
    <2>8. ASSUME NEW i \in Nat
          PROVE  i \in 1..m <=> i \in 1..(n - 1) /\ \A j \in 1..(i + 1) : line[j] \notin Hash
        <3>1. ASSUME i \in 1..m
              PROVE  i \in 1..(n - 1) /\ \A j \in 1..(i + 1) : line[j] \notin Hash
            BY <1>3, <2>2, <3>1
        <3>2. ASSUME i \in 1..(n - 1), \A j \in 1..(i + 1) : line[j] \notin Hash
              PROVE  i \in 1..m
            <4>1. SUFFICES ASSUME c < i + 1
                           PROVE  FALSE
                BY <2>2, <3>2
            <4>2. c + 1 \in 1..(i + 1) /\ c < n
                BY <3>2, <4>1
            <4> QED
                BY <1>3, <3>2, <4>2
        <3> QED
            BY <3>1, <3>2
    <2> QED
        BY <1>2, <1>7, <2>5, <2>7, <2>8
<1> QED
    BY <1>6, <1>7

IsListing(file, n, v6, p) ==
    /\ p \in UNION {{k} \X (1..(Len(file.lines[k]) - 1)) : k \in DOMAIN file.lines}
    /\ file.lines[p[1]][1] \in DOMAIN Ip
    /\ Ip[file.lines[p[1]][1]] \in V6 <=> v6
    /\ Lower[file.lines[p[1]][p[2] + 1]] = Lower[Undotted[n]]
    /\ \A j \in 1..(p[2] + 1) : file.lines[p[1]][j] \notin Hash

\* What a lookup finds in a file that was read is what the file lists, in its order.
LEMMA HostsAreRead ==
    ASSUME NEW file, file.readable = TRUE, file.lines \in Seq(Seq(STRING)),
           NEW config, config.hosts = ParseHosts(file)
    PROVE  MeansHosts(config, file) /\ config.hosts \in Seq(Entry)
<1>1. PICK lines \in Seq(Seq(STRING)) : lines = file.lines
    OBVIOUS
<1>2. PICK n \in Nat : n = Len(lines) /\ DOMAIN lines = 1..n
    OBVIOUS
<1>3. PICK pieces : pieces = [k \in 1..n |-> Entries(Uncommented(lines[k]))]
    OBVIOUS
<1>4. ASSUME NEW k \in 1..n
      PROVE  /\ lines[k] \in Seq(STRING) /\ pieces[k] = Entries(Uncommented(lines[k]))
             /\ pieces[k] \in Seq(Entry)
    <2>1. lines[k] \in Seq(STRING) /\ pieces[k] = Entries(Uncommented(lines[k]))
        BY <1>1, <1>2, <1>3
    <2> QED
        BY <2>1, EntriesOfLine
<1>5. pieces \in Seq(Seq(Entry)) /\ Len(pieces) = n
    BY <1>3, <1>4
<1>6. PICK entries : entries = config.hosts
    OBVIOUS
<1>7. entries = Joined(pieces)
    BY <1>1, <1>2, <1>3, <1>6 DEF ParseHosts
<1>8. entries \in Seq(Entry) /\ \E m \in Nat : \E f : IsJoined(entries, pieces, n, m, f)
    BY <1>5, <1>7, JoinedHasList
<1>9. PICK m \in Nat : \E f : IsJoined(entries, pieces, n, m, f)
    BY <1>8
<1>10. PICK f : IsJoined(entries, pieces, n, m, f)
    BY <1>9
<1>11. PICK P : P = Slots(pieces, n)
    OBVIOUS
<1>12. /\ f \in [1..m -> P] /\ \A p \in P : \E k \in 1..m : f[k] = p
       /\ \A k, l \in 1..m : Before(f[k], f[l]) <=> k < l
       /\ DOMAIN entries = 1..m
       /\ \A k \in 1..m : entries[k] = pieces[f[k][1]][f[k][2]]
    <2>1. /\ f \in [1..m -> P] /\ \A p \in P : \E k \in 1..m : f[k] = p
          /\ \A k, l \in 1..m : <<f[k], f[l]>> \in Earlier(P) <=> k < l
          /\ DOMAIN entries = 1..m
          /\ \A k \in 1..m : entries[k] = pieces[f[k][1]][f[k][2]]
        BY <1>10, <1>11 DEF IsJoined, Lists
    <2>2. \A k, l \in 1..m : <<f[k], f[l]>> \in Earlier(P) <=> Before(f[k], f[l])
        BY <2>1 DEF Earlier
    <2> QED
        BY <2>1, <2>2
<1>13. ASSUME NEW host \in Queried, NEW v6 \in BOOLEAN,
              NEW places, places = Listings(file, host, v6),
              NEW ips, ips = HostsLookup(entries, host, v6)
       PROVE  /\ Len(ips) = Cardinality(places)
              /\ \A p \in places :
                    ips[Cardinality({q \in places : Before(q, p)}) + 1] = Ip[file.lines[p[1]][1]]
    <2>1. \A p : p \in places <=> IsListing(file, host, v6, p)
        BY <1>13 DEF Listings, IsListing
    <2>2. PICK I \in SUBSET (1..m) :
              I = {i \in 1..m : /\ entries[i].name = Lower[Undotted[host]]
                                /\ entries[i].ip \in V6 <=> v6}
        OBVIOUS
    <2>3. PICK mine : mine = Picked(entries, I)
        OBVIOUS
    <2>4. ips = [i \in DOMAIN mine |-> mine[i].ip]
        BY <1>12, <1>13, <2>2, <2>3 DEF HostsLookup
    <2>5. PICK c \in Nat : \E e : PicksBy(e, c, entries, I)
        BY PickedHasList
    <2>6. PICK e : Lists(e, c, I, Smaller(I)) /\ mine = [i \in 1..c |-> entries[e[i]]]
        BY <2>3, <2>5 DEF PicksBy
    <2>7. /\ e \in [1..c -> I] /\ \A i \in I : \E k \in 1..c : e[k] = i
          /\ \A k, l \in 1..c : e[k] < e[l] <=> k < l
        BY <2>6 DEF Lists, Smaller
    <2>8. Len(ips) = c /\ \A k \in 1..c : ips[k] = entries[e[k]].ip
        BY <2>4, <2>6
    <2>9. ASSUME NEW k \in 1..m
          PROVE  /\ f[k] \in P /\ f[k][1] \in 1..n
                 /\ k \in I <=> f[k] \in places
                 /\ entries[k].ip = Ip[lines[f[k][1]][1]]
        <3>1. PICK p \in P : p = f[k]
            BY <1>12
        <3>2. PICK a \in 1..n : \E i \in 1..Len(pieces[a]) : p = <<a, i>>
            BY <1>11, SlotPlaces
        <3>3. PICK i \in 1..Len(pieces[a]) : f[k] = <<a, i>>
            BY <3>1, <3>2
        <3>4. PICK line \in Seq(STRING) : line = lines[a]
            BY <1>4
        <3>5. PICK found : found = pieces[a]
            OBVIOUS
        <3>6. found = Entries(Uncommented(line)) /\ found \in Seq(Entry)
            BY <1>4, <3>4, <3>5
        <3>7. i \in Nat /\ i \in 1..Len(found)
            BY <3>5, <3>6
        <3>8. /\ i \in 1..(Len(line) - 1) /\ line[1] \in DOMAIN Ip
              /\ \A j \in 1..(i + 1) : line[j] \notin Hash
              /\ found[i] = [name |-> Lower[line[i + 1]], ip |-> Ip[line[1]]]
            BY <3>6, <3>7, EntriesOfLine
        <3>9. entries[k].name = Lower[line[i + 1]] /\ entries[k].ip = Ip[line[1]]
            BY <1>12, <3>3, <3>5, <3>8
        <3>10. k \in I <=> Lower[line[i + 1]] = Lower[Undotted[host]] /\ (Ip[line[1]] \in V6 <=> v6)
            BY <2>2, <3>9
        <3>11. f[k] \in UNION {{b} \X (1..(Len(lines[b]) - 1)) : b \in DOMAIN lines}
            BY <1>2, <3>3, <3>4, <3>8
        <3>12. IsListing(file, host, v6, f[k]) <=>
                   Lower[line[i + 1]] = Lower[Undotted[host]] /\ (Ip[line[1]] \in V6 <=> v6)
            BY <1>1, <3>3, <3>4, <3>8, <3>11 DEF IsListing
        <3>13. f[k] \in P /\ f[k][1] \in 1..n
            BY <3>1, <3>3
        <3>14. k \in I <=> f[k] \in places
            BY <2>1, <3>10, <3>12
        <3>15. entries[k].ip = Ip[lines[f[k][1]][1]]
            BY <3>3, <3>4, <3>9
        <3> QED
            BY <3>13, <3>14, <3>15
    <2>10. ASSUME NEW p \in places
           PROVE  p \in P
        <3>1. IsListing(file, host, v6, p)
            BY <2>1
        <3>2. PICK a \in 1..n : p \in {a} \X (1..(Len(lines[a]) - 1))
            BY <1>1, <1>2, <3>1 DEF IsListing
        <3>3. PICK i \in 1..(Len(lines[a]) - 1) : p = <<a, i>>
            BY <3>2
        <3>4. PICK line \in Seq(STRING) : line = lines[a]
            BY <1>4
        <3>5. PICK found : found = pieces[a]
            OBVIOUS
        <3>6. found = Entries(Uncommented(line)) /\ found \in Seq(Entry)
            BY <1>4, <3>4, <3>5
        <3>7. i \in Nat /\ i \in 1..(Len(line) - 1)
            BY <3>4
        <3>8. line[1] \in DOMAIN Ip /\ \A j \in 1..(i + 1) : line[j] \notin Hash
            BY <1>1, <3>1, <3>3, <3>4 DEF IsListing
        <3>9. i \in 1..Len(found)
            BY <3>6, <3>7, <3>8, EntriesOfLine
        <3> QED
            BY <1>11, <3>3, <3>5, <3>9, SlotPlaces
    <2>11. PICK g : g = [k \in 1..c |-> f[e[k]]]
        OBVIOUS
    <2>12. ASSUME NEW k \in 1..c
           PROVE  /\ e[k] \in 1..m /\ g[k] = f[e[k]] /\ g[k] \in places
        BY <2>7, <2>9, <2>11
    <2>13. ASSUME NEW p \in places
           PROVE  \E k \in 1..c : g[k] = p
        <3>1. PICK j \in 1..m : f[j] = p
            BY <1>12, <2>10
        <3>2. PICK k \in 1..c : e[k] = j
            BY <2>7, <2>9, <3>1
        <3> QED
            BY <2>12, <3>1, <3>2
    <2>14. \A k, l \in 1..c : Before(g[k], g[l]) <=> k < l
        BY <1>12, <2>7, <2>12
    <2>15. Lists(g, c, places, Earlier(places))
        <3>1. \A k, l \in 1..c : <<g[k], g[l]>> \in Earlier(places) <=> Before(g[k], g[l])
            BY <2>12 DEF Earlier
        <3>2. g \in [1..c -> places]
            BY <2>11, <2>12
        <3> QED
            BY <2>13, <2>14, <3>1, <3>2 DEF Lists
    <2>16. /\ Cardinality(places) = c
           /\ \A k \in 1..c : Cardinality({q \in places : <<q, g[k]>> \in Earlier(places)}) = k - 1
        BY <2>15, RankInList
    <2>17. ASSUME NEW p \in places
           PROVE  ips[Cardinality({q \in places : Before(q, p)}) + 1] = Ip[file.lines[p[1]][1]]
        <3>1. PICK k \in 1..c : g[k] = p
            BY <2>13
        <3>2. {q \in places : <<q, p>> \in Earlier(places)} = {q \in places : Before(q, p)}
            BY DEF Earlier
        <3>3. Cardinality({q \in places : Before(q, p)}) = k - 1
            BY <2>16, <3>1, <3>2
        <3>4. PICK j \in 1..m : j = e[k] /\ f[j] = p
            BY <2>12, <3>1
        <3>5. entries[j].ip = Ip[lines[p[1]][1]]
            BY <2>9, <3>4
        <3>6. ips[k] = Ip[lines[p[1]][1]]
            BY <2>8, <3>4, <3>5
        <3> QED
            BY <1>1, <3>3, <3>6
    <2> QED
        BY <2>8, <2>16, <2>17
<1>14. MeansHosts(config, file)
    BY <1>6, <1>13 DEF MeansHosts
<1> QED
    BY <1>6, <1>8, <1>14

\* Of a file that could not be read there is nothing to find.
LEMMA NoHostsAreRead ==
    ASSUME NEW file, file.readable = FALSE, NEW config, config.hosts = <<>>
    PROVE  MeansHosts(config, file)
<1>1. ASSUME NEW n \in Queried, NEW v6 \in BOOLEAN
      PROVE  Listings(file, n, v6) = {} /\ HostsLookup(<<>>, n, v6) = <<>>
    <2>1. Listings(file, n, v6) = {}
        BY DEF Listings
    <2>2. PICK I : I = {i \in DOMAIN <<>> : /\ <<>>[i].name = Lower[Undotted[n]]
                                            /\ <<>>[i].ip \in V6 <=> v6}
        OBVIOUS
    <2>3. I = {}
        BY <2>2
    <2>4. Picked(<<>>, {}) = <<>>
        <3>1. <<>> \in Seq(Nat) /\ DOMAIN <<>> = {}
            OBVIOUS
        <3>2. PICK s \in Seq(Nat) : s = <<>> /\ DOMAIN s = {}
            BY <3>1
        <3>3. PICK J \in SUBSET DOMAIN s : J = {}
            OBVIOUS
        <3> QED
            BY <3>2, <3>3, PickedRange
    <2> QED
        BY <2>1, <2>2, <2>3, <2>4 DEF HostsLookup
<1>2. Cardinality({}) = 0 /\ Len(<<>>) = 0
    BY FS_EmptySet
<1> QED
    BY <1>1, <1>2 DEF MeansHosts

-----------------------------------------------------------------------------
(* resolv.conf. *)

\* The greatest of a set of places is one of them, and none is greater.
LEMMA MaxIsGreatest ==
    ASSUME NEW n \in Nat, NEW I \in SUBSET (1..n), I # {}
    PROVE  Max(I) \in I /\ \A j \in I : j <= Max(I)
<1>1. PICK J : J = {n - i : i \in I}
    OBVIOUS
<1>2. J \in SUBSET Nat /\ J # {}
    <2>1. \A i \in I : n - i \in Nat
        OBVIOUS
    <2> QED
        BY <1>1, <2>1
<1>3. PICK k \in J : \A j \in J : k <= j
    BY <1>2, LeastMember
<1>4. PICK i \in I : k = n - i
    BY <1>1
<1>5. \A j \in I : i >= j
    <2>1. \A j \in I : n - j \in J
        BY <1>1
    <2> QED
        BY <1>3, <1>4, <2>1
<1>6. \A j \in I : j \in Nat
    OBVIOUS
<1>7. PICK x : x = Max(I)
    OBVIOUS
<1>8. x = CHOOSE y \in I : \A j \in I : y >= j
    BY <1>7 DEF Max
<1>9. x \in I /\ \A j \in I : x >= j
    BY <1>5, <1>8
<1> QED
    BY <1>6, <1>7, <1>9

\* u has what the setters at the places in I have set so far, one after another.
Replaces(u, val, I, n) == \A i \in 1..n : u[i] = IF i \in I THEN val[i] ELSE u[i - 1]

\* What each setter replaces is in the end what the last of them set.
LEMMA LastSetterCounts ==
    ASSUME NEW n \in Nat, NEW I \in SUBSET (1..n), NEW val, NEW u,
           Replaces(u, val, I, n)
    PROVE  u[n] = IF I = {} THEN u[0] ELSE val[Max(I)]
<1>1. PICK S : S = {k \in Nat : k <= n => u[k] = LET J == I \cap (1..k)
                                                 IN IF J = {} THEN u[0] ELSE val[Max(J)]}
    OBVIOUS
<1>2. S \in SUBSET Nat
    BY <1>1
<1>3. 0 \in S
    <2>1. I \cap (1..0) = {}
        OBVIOUS
    <2> QED
        BY <1>1, <2>1
<1>4. ASSUME NEW k \in S
      PROVE  k + 1 \in S
    <2>1. SUFFICES ASSUME k + 1 <= n
                   PROVE  u[k + 1] = LET J == I \cap (1..(k + 1))
                                     IN IF J = {} THEN u[0] ELSE val[Max(J)]
        BY <1>1
    <2>2. k \in Nat /\ k + 1 \in 1..n /\ (k + 1) - 1 = k
        BY <1>1, <2>1
    <2>3. PICK H : H = I \cap (1..k)
        OBVIOUS
    <2>4. u[k] = IF H = {} THEN u[0] ELSE val[Max(H)]
        BY <1>1, <2>1, <2>2, <2>3
    <2>5. PICK J : J = I \cap (1..(k + 1))
        OBVIOUS
    <2>6. CASE k + 1 \in I
        <3>1. J \in SUBSET (1..n) /\ k + 1 \in J /\ \A j \in J : j <= k + 1
            BY <2>2, <2>5, <2>6
        <3>2. Max(J) \in J /\ \A j \in J : j <= Max(J)
            BY <3>1, MaxIsGreatest
        <3>3. PICK x \in J : x = Max(J)
            BY <3>2
        <3>4. x = k + 1
            <4>1. x \in 1..(k + 1) /\ k + 1 <= x
                BY <2>5, <3>1, <3>2, <3>3
            <4> QED
                BY <2>2, <4>1
        <3>5. u[k + 1] = val[k + 1]
            BY <2>2, <2>6 DEF Replaces
        <3> QED
            BY <2>5, <3>1, <3>3, <3>4, <3>5
    <2>7. CASE k + 1 \notin I
        <3>1. J = H
            BY <2>2, <2>3, <2>5, <2>7
        <3>2. u[k + 1] = u[k]
            BY <2>2, <2>7 DEF Replaces
        <3> QED
            BY <2>4, <2>5, <3>1, <3>2
    <2> QED
        BY <2>6, <2>7
<1>5. S = Nat
    BY <1>2, <1>3, <1>4, AllNaturals
<1>6. I \cap (1..n) = I
    OBVIOUS
<1>7. n \in S
    BY <1>5
<1>8. u[n] = LET J == I \cap (1..n) IN IF J = {} THEN u[0] ELSE val[Max(J)]
    BY <1>1, <1>7
<1> QED
    BY <1>6, <1>8

\* What some places append one by one is in the end what is picked at them.
LEMMA AppendingPicks ==
    ASSUME NEW V, NEW val \in Seq(V), NEW n \in Nat, n = Len(val), NEW I \in SUBSET (1..n), NEW u,
           u[0] = <<>>,
           \A i \in 1..n : u[i] = IF i \in I THEN Append(u[i - 1], val[i]) ELSE u[i - 1]
    PROVE  u[n] = Picked(val, I)
<1>1. PICK S : S = {k \in Nat : k <= n => u[k] = Picked(val, I \cap (1..k))}
    OBVIOUS
<1>2. S \in SUBSET Nat
    BY <1>1
<1>3. 0 \in S
    <2>1. PICK J \in SUBSET DOMAIN val : J = I \cap (1..0) /\ J = {}
        <3>1. I \cap (1..0) = {} /\ {} \in SUBSET DOMAIN val
            OBVIOUS
        <3> QED
            BY <3>1
    <2>2. Picked(val, J) = <<>>
        BY <2>1, PickedRange
    <2> QED
        BY <1>1, <2>1, <2>2
<1>4. ASSUME NEW k \in S
      PROVE  k + 1 \in S
    <2>1. SUFFICES ASSUME k + 1 <= n
                   PROVE  u[k + 1] = Picked(val, I \cap (1..(k + 1)))
        BY <1>1
    <2>2. k \in Nat /\ k + 1 \in 1..n /\ (k + 1) - 1 = k /\ k + 1 \in DOMAIN val
        BY <1>1, <2>1
    <2>3. PICK H \in SUBSET (1..k) : H = I \cap (1..k)
        BY <2>2
    <2>4. u[k] = Picked(val, H)
        BY <1>1, <2>1, <2>2, <2>3
    <2>5. PICK J : J = I \cap (1..(k + 1))
        OBVIOUS
    <2>6. CASE k + 1 \in I
        <3>1. J = H \cup {k + 1}
            BY <2>2, <2>3, <2>5, <2>6
        <3>2. Picked(val, J) = Append(Picked(val, H), val[k + 1])
            BY <2>2, <3>1, PickedGrows
        <3>3. u[k + 1] = Append(u[k], val[k + 1])
            BY <2>2, <2>6
        <3> QED
            BY <2>4, <2>5, <3>2, <3>3
    <2>7. CASE k + 1 \notin I
        <3>1. J = H
            BY <2>2, <2>3, <2>5, <2>7
        <3>2. u[k + 1] = u[k]
            BY <2>2, <2>7
        <3> QED
            BY <2>4, <2>5, <3>1, <3>2
    <2> QED
        BY <2>6, <2>7
<1>5. S = Nat
    BY <1>2, <1>3, <1>4, AllNaturals
<1>6. I \cap (1..n) = I
    OBVIOUS
<1> QED
    BY <1>1, <1>5, <1>6

\* What a line does: it may add a nameserver, or set the search list or ndots.
Adds(line) == Directed(line, "nameserver") /\ Nameserver(line[2]) # <<>>
Added(line) == Nameserver(line[2])[1]
IsDomain(line) == Directed(line, "domain") /\ line[2] \in SuffixWords
IsSearch(line) == line # <<>> /\ line[1] = "search"
Suffixes(line) == IF IsDomain(line) THEN <<line[2]>>
                  ELSE Picked(Tail(line), SuffixPlaces(Tail(line)))
NdotsIn(line) == NdotsOf[line[Max(Ndots(line))]]

Configs == [servers : Seq(Servers), search : Seq(STRING \ {"--"}), ndots : Nat \cup {Unset},
            hosts : {<<>>}]

\* d is what the line makes of c.
Follows(d, c, line) ==
    /\ d \in Configs
    /\ d.servers = IF Adds(line) THEN Append(c.servers, Added(line)) ELSE c.servers
    /\ d.search = IF IsSearch(line) \/ IsDomain(line) THEN Suffixes(line) ELSE c.search
    /\ d.ndots = IF Ndots(line) # {} THEN NdotsIn(line) ELSE c.ndots

\* A word is one nameserver, or none.
LEMMA NameserverWords ==
    ASSUME NEW word
    PROVE  \/ Nameserver(word) = <<>>
           \/ Nameserver(word)[1] \in Servers /\ Nameserver(word) = <<Nameserver(word)[1]>>
<1>1. CASE word \in DOMAIN SocketAddr
    <2>1. PICK s : s = SocketAddr[word]
        OBVIOUS
    <2>2. s \in Range(SocketAddr)
        BY <1>1, <2>1 DEF Range
    <2>3. s = [ip |-> s.ip, port |-> s.port] /\ s.port \in Nat
        BY <2>2, SystemConfigAssumption
    <2>4. s.ip \in {r.ip : r \in Range(SocketAddr)} \cup Range(Ip)
        BY <2>2
    <2>5. s \in Servers
        BY <2>3, <2>4 DEF Servers
    <2>6. Nameserver(word) = <<s>>
        BY <1>1, <2>1 DEF Nameserver
    <2> QED
        BY <2>5, <2>6
<1>2. CASE word \notin DOMAIN SocketAddr /\ Zoneless[word] \in DOMAIN Ip
    <2>1. PICK ip : ip = Ip[Zoneless[word]]
        OBVIOUS
    <2>2. ip \in Range(Ip)
        BY <1>2, <2>1 DEF Range
    <2>3. PICK s : s = OnDnsPort(ip)
        OBVIOUS
    <2>4. s \in Servers
        BY <2>2, <2>3, SystemConfigAssumption DEF Servers, OnDnsPort
    <2>5. Nameserver(word) = <<s>>
        BY <1>2, <2>1, <2>3 DEF Nameserver
    <2> QED
        BY <2>4, <2>5
<1>3. CASE word \notin DOMAIN SocketAddr /\ Zoneless[word] \notin DOMAIN Ip
    BY <1>3 DEF Nameserver
<1> QED
    BY <1>1, <1>2, <1>3

\* The suffixes of a line are what a resolver may search.
LEMMA SuffixesAreWords ==
    ASSUME NEW line \in Seq(STRING), line # <<>>
    PROVE  Suffixes(line) \in Seq(STRING \ {"--"})
<1>1. CASE IsDomain(line)
    <2>1. line[2] \in STRING \ {"--"}
        BY <1>1 DEF IsDomain, Directed, SuffixWords
    <2>2. PICK w \in STRING \ {"--"} : w = line[2]
        BY <2>1
    <2> QED
        BY <1>1, <2>2 DEF Suffixes
<1>2. CASE ~IsDomain(line)
    <2>1. PICK rest \in Seq(STRING) : rest = Tail(line)
        BY HeadTailProperties
    <2>2. PICK I \in SUBSET DOMAIN rest : I = SuffixPlaces(rest)
        BY DEF SuffixPlaces
    <2>3. PICK s \in Seq(STRING) : s = Picked(rest, I) /\ Range(s) = {rest[i] : i \in I}
        BY PickedRange
    <2>4. \A i \in I : rest[i] # "--"
        BY <2>2 DEF SuffixPlaces, SuffixWords
    <2>5. \A i \in 1..Len(s) : s[i] \in STRING \ {"--"}
        <3>1. \A i \in 1..Len(s) : s[i] \in Range(s) /\ s[i] \in STRING
            BY DEF Range
        <3> QED
            BY <2>3, <2>4, <3>1
    <2>6. s \in Seq(STRING \ {"--"})
        BY <2>5
    <2> QED
        BY <1>2, <2>1, <2>2, <2>3, <2>6 DEF Suffixes
<1> QED
    BY <1>1, <1>2

\* The last option of a line is behind its first word where the reader looks for it.
LEMMA NdotsOfLine ==
    ASSUME NEW line \in Seq(STRING), line # <<>>, NEW rest, rest = Tail(line),
           NEW I, I = {i \in DOMAIN rest : rest[i] \in DOMAIN NdotsOf}, line[1] = "options"
    PROVE  /\ I = {} <=> Ndots(line) = {}
           /\ I # {} => NdotsOf[rest[Max(I)]] = NdotsIn(line) /\ NdotsIn(line) \in Nat
<1>1. PICK n \in Nat : n = Len(line) /\ n >= 1
    OBVIOUS
<1>2. rest \in Seq(STRING) /\ Len(rest) = n - 1 /\ \A i \in 1..(n - 1) : rest[i] = line[i + 1]
    BY <1>1
<1>3. PICK J : J = Ndots(line)
    OBVIOUS
<1>4. J = {i \in 2..n : line[i] \in DOMAIN NdotsOf}
    BY <1>1, <1>3 DEF Ndots
<1>5. I \in SUBSET (1..n) /\ J \in SUBSET (1..n)
    BY <1>1, <1>2, <1>4
<1>6. \A i \in 1..n : i \in I <=> i + 1 \in J
    BY <1>1, <1>2, <1>4
<1>7. \A j \in J : j - 1 \in I /\ j \in 2..n
    BY <1>1, <1>2, <1>4
<1>8. ASSUME I # {}
      PROVE  NdotsOf[rest[Max(I)]] = NdotsIn(line) /\ NdotsIn(line) \in Nat
    <2>1. J # {}
        BY <1>5, <1>6, <1>8
    <2>2. PICK x \in I : x = Max(I) /\ \A i \in I : i <= x
        BY <1>5, <1>8, MaxIsGreatest
    <2>3. PICK y \in J : y = Max(J) /\ \A j \in J : j <= y
        BY <1>5, <2>1, MaxIsGreatest
    <2>4. x \in 1..n /\ y \in 2..n
        BY <1>5, <1>7
    <2>5. y = x + 1
        <3>1. x + 1 \in J /\ y - 1 \in I
            BY <1>6, <1>7, <2>4
        <3>2. x + 1 <= y /\ y - 1 <= x
            BY <2>2, <2>3, <3>1
        <3> QED
            BY <2>4, <3>2
    <2>6. rest[x] = line[y] /\ rest[x] \in DOMAIN NdotsOf
        <3>1. x \in 1..(n - 1)
            BY <1>1, <2>4, <2>5
        <3> QED
            BY <1>2, <1>4, <2>5, <3>1
    <2>7. NdotsOf[rest[x]] \in Nat
        <3>1. NdotsOf[rest[x]] \in Range(NdotsOf)
            BY <2>6 DEF Range
        <3> QED
            BY <3>1, SystemConfigAssumption
    <2> QED
        BY <1>3, <2>2, <2>3, <2>6, <2>7 DEF NdotsIn
<1>9. I = {} <=> J = {}
    BY <1>5, <1>6, <1>7
<1> QED
    BY <1>3, <1>8, <1>9

\* A directive does what its line says.
LEMMA DirectivesFollow ==
    ASSUME NEW c \in Configs, NEW line \in Seq(STRING), line # <<>>
    PROVE  Follows(Directive(c, line), c, line)
<1>1. PICK rest \in Seq(STRING) : rest = Tail(line)
    BY HeadTailProperties
<1>2. PICK n \in Nat : n = Len(line) /\ n >= 1
    OBVIOUS
<1>3. /\ Len(rest) = n - 1 /\ \A i \in 1..(n - 1) : rest[i] = line[i + 1]
      /\ rest = <<>> <=> n = 1
      /\ Head(line) = line[1]
    <2>1. Len(rest) = n - 1 /\ \A i \in 1..(n - 1) : rest[i] = line[i + 1]
        BY <1>1, <1>2
    <2>2. rest = <<>> <=> n = 1
        <3>1. rest = <<>> <=> Len(rest) = 0
            BY EmptySeq
        <3> QED
            BY <1>2, <2>1, <3>1
    <2> QED
        BY <2>1, <2>2
<1>4. PICK J : J = {i \in DOMAIN rest : IsValidSearchDomain(rest[i])}
    OBVIOUS
<1>5. J = SuffixPlaces(rest)
    BY <1>4 DEF SuffixPlaces, SuffixWords, IsValidSearchDomain
<1>6. PICK I : I = {i \in DOMAIN rest : rest[i] \in DOMAIN NdotsOf}
    OBVIOUS
<1>7. PICK d : d = Directive(c, line)
    OBVIOUS
<1>8. d = CASE line[1] = "nameserver" /\ n > 1 ->
                 [c EXCEPT !.servers = @ \o Nameserver(line[2])]
          [] line[1] = "search" -> [c EXCEPT !.search = Picked(rest, J)]
          [] line[1] = "domain" /\ 1 \in J -> [c EXCEPT !.search = <<rest[1]>>]
          [] line[1] = "options" /\ I # {} -> [c EXCEPT !.ndots = NdotsOf[rest[Max(I)]]]
          [] OTHER -> c
    <2>1. d = CASE Head(line) = "nameserver" /\ rest # <<>> ->
                     [c EXCEPT !.servers = @ \o Nameserver(rest[1])]
              [] Head(line) = "search" -> [c EXCEPT !.search = Picked(rest, J)]
              [] Head(line) = "domain" /\ 1 \in J -> [c EXCEPT !.search = <<rest[1]>>]
              [] Head(line) = "options" /\ I # {} -> [c EXCEPT !.ndots = NdotsOf[rest[Max(I)]]]
              [] OTHER -> c
        BY <1>1, <1>4, <1>6, <1>7 DEF Directive
    <2>2. n > 1 => rest[1] = line[2]
        BY <1>2, <1>3
    <2>3. rest # <<>> <=> n > 1
        BY <1>2, <1>3
    <2> QED
        BY <1>3, <2>1, <2>2, <2>3
<1>9. 1 \in J <=> n > 1 /\ line[2] \in SuffixWords
    BY <1>2, <1>3, <1>5 DEF SuffixPlaces
<1>10. /\ Adds(line) <=> line[1] = "nameserver" /\ n > 1 /\ Nameserver(line[2]) # <<>>
       /\ IsDomain(line) <=> line[1] = "domain" /\ 1 \in J
       /\ IsSearch(line) <=> line[1] = "search"
    BY <1>2, <1>9 DEF Adds, IsDomain, IsSearch, Directed
<1>11. line[1] # "options" => Ndots(line) = {}
    BY DEF Ndots
<1>12. line[1] = "options" => /\ I = {} <=> Ndots(line) = {}
                              /\ I # {} => /\ NdotsOf[rest[Max(I)]] = NdotsIn(line)
                                           /\ NdotsIn(line) \in Nat
    BY <1>1, <1>6, NdotsOfLine
<1>13. c = [servers |-> c.servers, search |-> c.search, ndots |-> c.ndots, hosts |-> c.hosts]
       /\ c.servers \in Seq(Servers) /\ c.search \in Seq(STRING \ {"--"})
       /\ c.ndots \in Nat \cup {Unset} /\ c.hosts \in {<<>>}
    BY DEF Configs
<1>14. CASE Adds(line)
    <2>1. PICK s : s = Added(line)
        OBVIOUS
    <2>2. s \in Servers /\ Nameserver(line[2]) = <<s>>
        BY <1>14, <2>1, NameserverWords DEF Adds, Added
    <2>3. c.servers \o <<s>> = Append(c.servers, s) /\ Append(c.servers, s) \in Seq(Servers)
        BY <1>13, <2>2
    <2>4. d = [c EXCEPT !.servers = Append(c.servers, s)]
        BY <1>8, <1>10, <1>14, <2>2, <2>3
    <2>5. d \in Configs /\ d.servers = Append(c.servers, s) /\ d.search = c.search /\ d.ndots = c.ndots
        BY <1>13, <2>3, <2>4 DEF Configs
    <2>6. Ndots(line) = {} /\ ~IsSearch(line) /\ ~IsDomain(line)
        BY <1>10, <1>11, <1>14
    <2> QED
        BY <1>7, <1>14, <2>1, <2>5, <2>6 DEF Follows
<1>15. CASE IsSearch(line) \/ IsDomain(line)
    <2>1. PICK s \in Seq(STRING \ {"--"}) : s = Suffixes(line)
        BY SuffixesAreWords
    <2>2. s = IF IsDomain(line) THEN <<line[2]>> ELSE Picked(rest, J)
        BY <1>1, <1>5, <2>1 DEF Suffixes
    <2>3. IsDomain(line) => rest[1] = line[2]
        BY <1>2, <1>3, <1>9, <1>10
    <2>4. d = [c EXCEPT !.search = s]
        BY <1>8, <1>10, <1>15, <2>2, <2>3
    <2>5. d \in Configs /\ d.servers = c.servers /\ d.search = s /\ d.ndots = c.ndots
        BY <1>13, <2>4 DEF Configs
    <2>6. Ndots(line) = {} /\ ~Adds(line)
        BY <1>10, <1>11, <1>15
    <2> QED
        BY <1>7, <1>15, <2>1, <2>5, <2>6 DEF Follows
<1>16. CASE Ndots(line) # {}
    <2>1. line[1] = "options" /\ I # {}
        BY <1>11, <1>12, <1>16
    <2>2. PICK x \in Nat : x = NdotsIn(line) /\ x = NdotsOf[rest[Max(I)]]
        BY <1>12, <2>1
    <2>3. d = [c EXCEPT !.ndots = x]
        BY <1>8, <2>1, <2>2
    <2>4. d \in Configs /\ d.servers = c.servers /\ d.search = c.search /\ d.ndots = x
        BY <1>13, <2>3 DEF Configs
    <2>5. ~Adds(line) /\ ~IsSearch(line) /\ ~IsDomain(line)
        BY <1>10, <2>1
    <2> QED
        BY <1>7, <1>16, <2>2, <2>4, <2>5 DEF Follows
<1>17. CASE ~Adds(line) /\ ~IsSearch(line) /\ ~IsDomain(line) /\ Ndots(line) = {}
    <2>1. d = c
        <3>1. CASE line[1] = "nameserver" /\ n > 1
            <4>1. Nameserver(line[2]) = <<>>
                BY <1>10, <1>17, <3>1
            <4>2. c.servers \o <<>> = c.servers
                BY <1>13
            <4>3. d = [c EXCEPT !.servers = c.servers]
                BY <1>8, <3>1, <4>1, <4>2
            <4> QED
                BY <1>13, <4>3
        <3>2. CASE ~(line[1] = "nameserver" /\ n > 1)
            BY <1>8, <1>10, <1>12, <1>17, <3>2
        <3> QED
            BY <3>1, <3>2
    <2> QED
        BY <1>7, <1>17, <2>1 DEF Follows
<1> QED
    BY <1>14, <1>15, <1>16, <1>17

\* A line that is empty or a remark does nothing.
LEMMA RemarksFollow ==
    ASSUME NEW c \in Configs, NEW line \in Seq(STRING), line = <<>> \/ Head(line) \in Remark
    PROVE  Follows(c, c, line)
<1>1. line # <<>> => line[1] \in Remark
    OBVIOUS
<1>2. line # <<>> => line[1] \notin {"nameserver", "search", "domain", "options"}
    BY <1>1, SystemConfigAssumption
<1>3. line = <<>> => ~(Len(line) > 1)
    OBVIOUS
<1>4. ~Adds(line) /\ ~IsSearch(line) /\ ~IsDomain(line)
    BY <1>2, <1>3 DEF Adds, IsSearch, IsDomain, Directed
<1>5. Ndots(line) = {}
    <2>1. line = <<>> => 2..Len(line) = {}
        OBVIOUS
    <2> QED
        BY <1>2, <2>1 DEF Ndots
<1> QED
    BY <1>4, <1>5 DEF Follows

\* A resolv.conf means what its lines do one after another.
LEMMA ResolvConfIsRead ==
    ASSUME NEW lines \in Seq(Seq(STRING))
    PROVE  ParseResolvConf(lines) \in Configs /\ MeansResolvConf(ParseResolvConf(lines), lines)
<1>1. PICK n \in Nat : n = Len(lines) /\ DOMAIN lines = 1..n
    OBVIOUS
<1>2. \A i \in 1..n : lines[i] \in Seq(STRING)
    BY <1>1
<1>3. PICK next : next = [i \in 1..n |-> [c \in Configs |->
              IF lines[i] = <<>> \/ Head(lines[i]) \in Remark THEN c ELSE Directive(c, lines[i])]]
    OBVIOUS
<1>4. ASSUME NEW i \in 1..n, NEW c \in Configs
      PROVE  next[i][c] \in Configs /\ Follows(next[i][c], c, lines[i])
    <2>1. PICK line \in Seq(STRING) : line = lines[i]
        BY <1>2
    <2>2. next[i][c] = IF line = <<>> \/ Head(line) \in Remark THEN c ELSE Directive(c, line)
        BY <1>3, <2>1
    <2>3. CASE line = <<>> \/ Head(line) \in Remark
        <3>1. Follows(c, c, line)
            BY <2>3, RemarksFollow
        <3> QED
            BY <2>1, <2>2, <2>3, <3>1
    <2>4. CASE ~(line = <<>> \/ Head(line) \in Remark)
        <3>1. PICK d : d = Directive(c, line)
            OBVIOUS
        <3>2. Follows(d, c, line)
            BY <2>4, <3>1, DirectivesFollow
        <3>3. d \in Configs
            BY <3>2 DEF Follows
        <3> QED
            BY <2>1, <2>2, <2>4, <3>1, <3>2, <3>3
    <2> QED
        BY <2>3, <2>4
<1>5. next \in [1..n -> [Configs -> Configs]]
    <2>1. \A i \in 1..n : next[i] \in [Configs -> Configs]
        <3>1. SUFFICES ASSUME NEW i \in 1..n
                       PROVE  next[i] \in [Configs -> Configs]
            OBVIOUS
        <3>2. next[i] = [c \in Configs |-> next[i][c]]
            BY <1>3
        <3>3. \A c \in Configs : next[i][c] \in Configs
            BY <1>4
        <3> QED
            BY <3>2, <3>3
    <2> QED
        BY <1>3, <2>1
<1>6. Default \in Configs /\ Default.servers = <<>> /\ Default.search = <<>> /\ Default.ndots = Unset
    BY DEF Default, Configs
<1>7. PICK h \in [0..n -> Configs] : IsFold(h, n, Default, next)
    BY <1>5, <1>6, FoldsExist
<1>8. h = [i \in 0..n |-> IF i = 0 THEN Default
                         ELSE IF lines[i] = <<>> \/ Head(lines[i]) \in Remark THEN h[i - 1]
                         ELSE Directive(h[i - 1], lines[i])]
    <2>1. h[0] = Default
        BY <1>7 DEF IsFold
    <2>2. ASSUME NEW i \in 0..n, i # 0
          PROVE  h[i] = IF lines[i] = <<>> \/ Head(lines[i]) \in Remark THEN h[i - 1]
                        ELSE Directive(h[i - 1], lines[i])
        <3>1. i \in 1..n /\ i - 1 \in 0..n
            BY <2>2
        <3>2. h[i - 1] \in Configs /\ h[i] = next[i][h[i - 1]]
            BY <1>7, <3>1 DEF IsFold
        <3> QED
            BY <1>3, <3>1, <3>2
    <2> QED
        BY <2>1, <2>2
<1>9. PICK u : u = CHOOSE g : g = [i \in 0..n |-> IF i = 0 THEN Default
                         ELSE IF lines[i] = <<>> \/ Head(lines[i]) \in Remark THEN g[i - 1]
                         ELSE Directive(g[i - 1], lines[i])]
    OBVIOUS
<1>10. u = [i \in 0..n |-> IF i = 0 THEN Default
                         ELSE IF lines[i] = <<>> \/ Head(lines[i]) \in Remark THEN u[i - 1]
                         ELSE Directive(u[i - 1], lines[i])]
    BY <1>8, <1>9
<1>11. ParseResolvConf(lines) = u[n]
    BY <1>1, <1>9 DEF ParseResolvConf
<1>12. u[0] = Default
    BY <1>10
<1>13. ASSUME NEW i \in 1..n, u[i - 1] \in Configs
       PROVE  u[i] \in Configs /\ Follows(u[i], u[i - 1], lines[i])
    <2>1. i \in 0..n /\ i # 0
        OBVIOUS
    <2>2. u[i] = next[i][u[i - 1]]
        BY <1>3, <1>10, <1>13, <2>1
    <2> QED
        BY <1>4, <1>13, <2>2
<1>14. \A i \in 0..n : u[i] \in Configs
    <2>1. PICK S : S = {k \in Nat : k <= n => u[k] \in Configs}
        OBVIOUS
    <2>2. S \in SUBSET Nat /\ 0 \in S
        BY <1>6, <1>12, <2>1
    <2>3. ASSUME NEW k \in S
          PROVE  k + 1 \in S
        <3>1. SUFFICES ASSUME k + 1 <= n
                       PROVE  u[k + 1] \in Configs
            BY <2>1
        <3>2. k + 1 \in 1..n /\ (k + 1) - 1 = k /\ u[k] \in Configs
            BY <2>1, <3>1
        <3> QED
            BY <1>13, <3>2
    <2>4. S = Nat
        BY <2>2, <2>3, AllNaturals
    <2> QED
        BY <2>1, <2>4
<1>15. ASSUME NEW i \in 1..n
       PROVE  Follows(u[i], u[i - 1], lines[i]) /\ u[i] \in Configs
    <2>1. i - 1 \in 0..n
        OBVIOUS
    <2> QED
        BY <1>13, <1>14, <2>1
<1>16. PICK config : config = u[n]
    OBVIOUS
<1>17. PICK I \in SUBSET (1..n) : I = {i \in 1..n : Adds(lines[i])}
    OBVIOUS
<1>18. config.servers = [k \in DOMAIN Picked(lines, I) |-> Nameserver(Picked(lines, I)[k][2])[1]]
    <2>1. PICK V : V = {Added(lines[i]) : i \in 1..n}
        OBVIOUS
    <2>2. PICK val : val = [i \in 1..n |-> Added(lines[i])]
        OBVIOUS
    <2>3. val \in Seq(V) /\ Len(val) = n /\ \A i \in 1..n : val[i] = Added(lines[i])
        BY <2>1, <2>2
    <2>4. PICK w : w = [i \in 0..n |-> u[i].servers]
        OBVIOUS
    <2>5. w[0] = <<>> /\ w[n] = config.servers
        BY <1>6, <1>12, <1>16, <2>4
    <2>6. ASSUME NEW i \in 1..n
          PROVE  w[i] = IF i \in I THEN Append(w[i - 1], val[i]) ELSE w[i - 1]
        <3>1. i \in 0..n /\ i - 1 \in 0..n
            OBVIOUS
        <3>2. u[i].servers = IF Adds(lines[i]) THEN Append(u[i - 1].servers, Added(lines[i]))
                             ELSE u[i - 1].servers
            BY <1>15 DEF Follows
        <3> QED
            BY <1>17, <2>3, <2>4, <3>1, <3>2
    <2>7. w[n] = Picked(val, I)
        BY <2>3, <2>5, <2>6, AppendingPicks
    <2>8. PICK m \in Nat : \E e : PicksBy(e, m, lines, I)
        BY PickedHasList
    <2>9. PICK e : Lists(e, m, I, Smaller(I)) /\ Picked(lines, I) = [k \in 1..m |-> lines[e[k]]]
        BY <2>8 DEF PicksBy
    <2>10. I \in SUBSET Nat
        OBVIOUS
    <2>11. Picked(val, I) = [k \in 1..m |-> val[e[k]]]
        BY <2>9, <2>10, PickedByList
    <2>12. \A k \in 1..m : e[k] \in 1..n
        BY <2>9 DEF Lists
    <2>13. \A k \in 1..m : val[e[k]] = Nameserver(lines[e[k]][2])[1]
        BY <2>3, <2>12 DEF Added
    <2>14. PICK p : p = Picked(lines, I)
        OBVIOUS
    <2>15. DOMAIN p = 1..m /\ \A k \in 1..m : p[k] = lines[e[k]]
        BY <2>9, <2>14
    <2>16. config.servers = [k \in DOMAIN p |-> Nameserver(p[k][2])[1]]
        BY <2>5, <2>7, <2>11, <2>13, <2>15
    <2> QED
        BY <2>14, <2>16
<1>19. PICK B \in SUBSET (1..n) : B = {i \in 1..n : IsSearch(lines[i])}
    OBVIOUS
<1>20. PICK C \in SUBSET (1..n) : C = {i \in 1..n : IsDomain(lines[i])}
    OBVIOUS
<1>21. config.search = IF B \cup C = {} THEN <<>> ELSE Suffixes(lines[Max(B \cup C)])
    <2>1. PICK E \in SUBSET (1..n) : E = B \cup C
        OBVIOUS
    <2>2. PICK val : val = [i \in 1..n |-> Suffixes(lines[i])]
        OBVIOUS
    <2>3. PICK w : w = [i \in 0..n |-> u[i].search]
        OBVIOUS
    <2>4. w[0] = <<>> /\ w[n] = config.search
        BY <1>6, <1>12, <1>16, <2>3
    <2>5. ASSUME NEW i \in 1..n
          PROVE  w[i] = IF i \in E THEN val[i] ELSE w[i - 1]
        <3>1. i \in 0..n /\ i - 1 \in 0..n
            OBVIOUS
        <3>2. u[i].search = IF IsSearch(lines[i]) \/ IsDomain(lines[i]) THEN Suffixes(lines[i])
                            ELSE u[i - 1].search
            BY <1>15 DEF Follows
        <3>3. i \in E <=> IsSearch(lines[i]) \/ IsDomain(lines[i])
            BY <1>19, <1>20, <2>1
        <3> QED
            BY <2>2, <2>3, <3>1, <3>2, <3>3
    <2>6. w[n] = IF E = {} THEN w[0] ELSE val[Max(E)]
        <3>1. Replaces(w, val, E, n)
            BY <2>5 DEF Replaces
        <3> QED
            BY <3>1, LastSetterCounts
    <2>7. E # {} => Max(E) \in 1..n
        BY MaxIsGreatest
    <2>8. E # {} => val[Max(E)] = Suffixes(lines[Max(E)])
        BY <2>2, <2>7
    <2> QED
        BY <2>1, <2>4, <2>6, <2>8
<1>22. PICK N \in SUBSET (1..n) : N = {i \in 1..n : Ndots(lines[i]) # {}}
    OBVIOUS
<1>23. config.ndots = IF N = {} THEN Unset ELSE NdotsIn(lines[Max(N)])
    <2>1. PICK val : val = [i \in 1..n |-> NdotsIn(lines[i])]
        OBVIOUS
    <2>2. PICK w : w = [i \in 0..n |-> u[i].ndots]
        OBVIOUS
    <2>3. w[0] = Unset /\ w[n] = config.ndots
        BY <1>6, <1>12, <1>16, <2>2
    <2>4. ASSUME NEW i \in 1..n
          PROVE  w[i] = IF i \in N THEN val[i] ELSE w[i - 1]
        <3>1. i \in 0..n /\ i - 1 \in 0..n
            OBVIOUS
        <3>2. u[i].ndots = IF Ndots(lines[i]) # {} THEN NdotsIn(lines[i]) ELSE u[i - 1].ndots
            BY <1>15 DEF Follows
        <3> QED
            BY <1>22, <2>1, <2>2, <3>1, <3>2
    <2>5. w[n] = IF N = {} THEN w[0] ELSE val[Max(N)]
        <3>1. Replaces(w, val, N, n)
            BY <2>4 DEF Replaces
        <3> QED
            BY <3>1, LastSetterCounts
    <2>6. N # {} => Max(N) \in 1..n
        BY MaxIsGreatest
    <2>7. N # {} => val[Max(N)] = NdotsIn(lines[Max(N)])
        BY <2>1, <2>6
    <2> QED
        BY <2>3, <2>5, <2>7
<1>24. MeansResolvConf(config, lines)
    <2>1. I = {i \in DOMAIN lines : /\ Directed(lines[i], "nameserver")
                                    /\ Nameserver(lines[i][2]) # <<>>}
        BY <1>1, <1>17 DEF Adds
    <2>2. B = {i \in DOMAIN lines : lines[i] # <<>> /\ lines[i][1] = "search"}
        BY <1>1, <1>19 DEF IsSearch
    <2>3. C = {i \in DOMAIN lines : Directed(lines[i], "domain") /\ lines[i][2] \in SuffixWords}
        BY <1>1, <1>20 DEF IsDomain
    <2>4. N = {i \in DOMAIN lines : Ndots(lines[i]) # {}}
        BY <1>1, <1>22
    <2>5. PICK last : last = Max(B \cup C)
        OBVIOUS
    <2>6. config.search = IF B \cup C = {} THEN <<>>
                          ELSE IF last \in C THEN <<lines[last][2]>>
                          ELSE Picked(Tail(lines[last]), SuffixPlaces(Tail(lines[last])))
        <3>1. B \cup C # {} => last \in B \cup C
            <4>1. PICK E \in SUBSET (1..n) : E = B \cup C
                OBVIOUS
            <4> QED
                BY <2>5, <4>1, MaxIsGreatest
        <3>2. B \cup C # {} => (last \in C <=> IsDomain(lines[last]))
            BY <1>19, <1>20, <3>1
        <3> QED
            BY <1>21, <2>5, <3>2 DEF Suffixes
    <2>7. config.ndots = IF N = {} THEN Unset
                         ELSE NdotsOf[lines[Max(N)][Max(Ndots(lines[Max(N)]))]]
        BY <1>23 DEF NdotsIn
    <2> QED
        BY <1>18, <2>1, <2>2, <2>3, <2>4, <2>5, <2>6, <2>7 DEF MeansResolvConf
<1>25. n \in 0..n
    OBVIOUS
<1> QED
    BY <1>11, <1>14, <1>16, <1>24, <1>25

-----------------------------------------------------------------------------
(* The calls of the other platforms. *)

\* Addresses on the port of DNS.
LEMMA PortsAreAdded ==
    ASSUME NEW ips \in Seq(Range(Ip))
    PROVE  /\ OnDnsPorts(ips) \in Seq(Servers)
           /\ Len(OnDnsPorts(ips)) = Len(ips)
           /\ \A i \in 1..Len(ips) : OnDnsPorts(ips)[i] = OnDnsPort(ips[i])
           /\ Range(OnDnsPorts(ips)) = {OnDnsPort(ip) : ip \in Range(ips)}
<1>1. PICK n \in Nat : n = Len(ips) /\ DOMAIN ips = 1..n
    OBVIOUS
<1>2. PICK t : t = OnDnsPorts(ips)
    OBVIOUS
<1>3. t = [i \in 1..n |-> OnDnsPort(ips[i])]
    BY <1>1, <1>2 DEF OnDnsPorts
<1>4. ASSUME NEW ip \in Range(Ip)
      PROVE  OnDnsPort(ip) \in Servers
    BY SystemConfigAssumption DEF OnDnsPort, Servers
<1>5. \A i \in 1..n : ips[i] \in Range(Ip)
    BY <1>1
<1>6. t \in Seq(Servers) /\ Len(t) = n /\ \A i \in 1..n : t[i] = OnDnsPort(ips[i])
    BY <1>3, <1>4, <1>5
<1>7. Range(t) = {OnDnsPort(ip) : ip \in Range(ips)}
    BY <1>1, <1>3 DEF Range
<1> QED
    BY <1>1, <1>2, <1>6, <1>7

\* t is s by the places of d, where each of its members comes first.
AreFirsts(t, s, c, d) ==
    /\ d \in [1..c -> 1..Len(s)]
    /\ t = [k \in 1..c |-> s[d[k]]]
    /\ \A i \in 1..Len(s) : \E k \in 1..c : s[d[k]] = s[i]
    /\ \A k, l \in 1..c : k < l => \A i \in 1..Len(s) : s[i] = s[d[l]] => d[k] < i

\* What is kept of a list without its repetitions is everything, by where it came first.
LEMMA FirstsAreKept ==
    ASSUME NEW S, NEW s \in Seq(S)
    PROVE  /\ Deduplicated(s) \in Seq(S)
           /\ \E c \in Nat : \E d : AreFirsts(Deduplicated(s), s, c, d)
<1>1. PICK n \in Nat : n = Len(s) /\ DOMAIN s = 1..n
    OBVIOUS
<1>2. PICK D : D = {i \in 1..n : \A j \in 1..(i - 1) : s[j] # s[i]}
    OBVIOUS
<1>3. D \in SUBSET (1..n)
    BY <1>2
<1>4. Deduplicated(s) = Picked(s, D)
    BY <1>1, <1>2 DEF Deduplicated
<1>5. Picked(s, D) \in Seq(S)
    BY <1>1, <1>3, PickedRange
<1>6. PICK c \in Nat : \E d : PicksBy(d, c, s, D)
    BY <1>3, PickedHasList
<1>7. PICK d : Lists(d, c, D, Smaller(D)) /\ Picked(s, D) = [k \in 1..c |-> s[d[k]]]
    BY <1>6 DEF PicksBy
<1>8. /\ d \in [1..c -> D] /\ \A i \in D : \E k \in 1..c : d[k] = i
      /\ \A k, l \in 1..c : d[k] < d[l] <=> k < l
    BY <1>7 DEF Lists, Smaller
<1>9. d \in [1..c -> 1..n]
    BY <1>3, <1>8
<1>10. ASSUME NEW i \in 1..n
       PROVE  \E k \in 1..c : s[d[k]] = s[i]
    <2>1. PICK J : J = {j \in 1..n : s[j] = s[i]}
        OBVIOUS
    <2>2. J \in SUBSET Nat /\ i \in J
        BY <2>1
    <2>3. PICK j \in J : \A x \in J : j <= x
        BY <2>2, LeastMember
    <2>4. j \in 1..n /\ s[j] = s[i]
        BY <2>1
    <2>5. ASSUME NEW x \in 1..(j - 1)
          PROVE  s[x] # s[j]
        <3>1. x \in 1..n /\ x < j
            BY <2>4
        <3>2. x \notin J
            BY <2>3, <2>4, <3>1
        <3> QED
            BY <2>1, <2>4, <3>1, <3>2
    <2>6. j \in D
        BY <1>2, <2>4, <2>5
    <2>7. PICK k \in 1..c : d[k] = j
        BY <1>8, <2>6
    <2> QED
        BY <2>4, <2>7
<1>11. ASSUME NEW k \in 1..c, NEW l \in 1..c, k < l, NEW i \in 1..n, s[i] = s[d[l]]
       PROVE  d[k] < i
    <2>1. d[k] < d[l] /\ d[k] \in 1..n /\ d[l] \in 1..n /\ d[l] \in D
        BY <1>8, <1>9, <1>11
    <2>2. \A j \in 1..(d[l] - 1) : s[j] # s[d[l]]
        BY <1>2, <2>1
    <2>3. ~(i < d[l])
        BY <1>11, <2>1, <2>2
    <2> QED
        BY <2>1, <2>3
<1>12. AreFirsts(Deduplicated(s), s, c, d)
    BY <1>1, <1>4, <1>7, <1>9, <1>10, <1>11 DEF AreFirsts
<1> QED
    BY <1>4, <1>5, <1>12

\* What the adapters of a Windows host name is what is read.
LEMMA AdaptersAreRead ==
    ASSUME NEW s, IsSource("windows", s), NEW config,
           config.servers = ReadWindows(s.adapters, s.list, s.domain).servers,
           config.search = ReadWindows(s.adapters, s.list, s.domain).search
    PROVE  config.servers \in Seq(Servers) /\ MeansAdapters(config, s)
<1>1. PICK A, R : A = Range(Ip) \cup SiteLocal /\ R = [up : BOOLEAN, servers : Seq(A)]
    OBVIOUS
<1>2. PICK adapters \in Seq(R) : adapters = s.adapters
    BY <1>1 DEF IsSource
<1>3. PICK list \in Seq(STRING) : list = s.list
    BY DEF IsSource
<1>4. PICK n \in Nat : n = Len(adapters) /\ DOMAIN adapters = 1..n
    OBVIOUS
<1>5. PICK pieces : pieces = [i \in DOMAIN adapters |-> IF adapters[i].up THEN adapters[i].servers
                                                       ELSE <<>>]
    OBVIOUS
<1>6. ASSUME NEW i \in 1..n
      PROVE  /\ adapters[i].servers \in Seq(A) /\ pieces[i] \in Seq(A)
             /\ adapters[i].up => pieces[i] = adapters[i].servers
             /\ ~adapters[i].up => pieces[i] = <<>>
    <2>1. PICK adapter \in R : adapter = adapters[i]
        BY <1>4
    <2>2. adapters[i].up \in BOOLEAN /\ adapters[i].servers \in Seq(A)
        BY <1>1, <2>1
    <2>3. pieces[i] = IF adapters[i].up THEN adapters[i].servers ELSE <<>>
        BY <1>4, <1>5
    <2> QED
        BY <2>2, <2>3
<1>7. pieces \in Seq(Seq(A)) /\ Len(pieces) = n
    BY <1>4, <1>5, <1>6
<1>8. PICK ips : ips = Joined(pieces)
    OBVIOUS
<1>9. ips \in Seq(A) /\ \E m \in Nat : \E f : IsJoined(ips, pieces, n, m, f)
    BY <1>7, <1>8, JoinedHasList
<1>10. PICK m \in Nat : \E f : IsJoined(ips, pieces, n, m, f)
    BY <1>9
<1>11. PICK f : IsJoined(ips, pieces, n, m, f)
    BY <1>10
<1>12. PICK P : P = Slots(pieces, n)
    OBVIOUS
<1>13. /\ f \in [1..m -> P] /\ \A p \in P : \E k \in 1..m : f[k] = p
       /\ \A k, l \in 1..m : Before(f[k], f[l]) <=> k < l
       /\ DOMAIN ips = 1..m
       /\ \A k \in 1..m : ips[k] = pieces[f[k][1]][f[k][2]]
    <2>1. /\ f \in [1..m -> P] /\ \A p \in P : \E k \in 1..m : f[k] = p
          /\ \A k, l \in 1..m : <<f[k], f[l]>> \in Earlier(P) <=> k < l
          /\ DOMAIN ips = 1..m
          /\ \A k \in 1..m : ips[k] = pieces[f[k][1]][f[k][2]]
        BY <1>11, <1>12 DEF IsJoined, Lists
    <2>2. \A k, l \in 1..m : <<f[k], f[l]>> \in Earlier(P) <=> Before(f[k], f[l])
        BY <2>1 DEF Earlier
    <2> QED
        BY <2>1, <2>2
<1>14. PICK U : U = {i \in 1..m : ips[i] \notin SiteLocal}
    OBVIOUS
<1>15. U \in SUBSET (1..m)
    BY <1>14
<1>16. PICK usable : usable = Picked(ips, U)
    OBVIOUS
<1>17. usable \in Seq(Range(Ip))
    <2>1. usable \in Seq(A) /\ Range(usable) = {ips[i] : i \in U}
        BY <1>9, <1>13, <1>15, <1>16, PickedRange
    <2>2. \A i \in U : ips[i] \in Range(Ip)
        <3>1. \A i \in 1..m : ips[i] \in A
            BY <1>9, <1>13
        <3> QED
            BY <1>1, <1>14, <3>1
    <2>3. \A i \in 1..Len(usable) : usable[i] \in Range(usable)
        BY <2>1 DEF Range
    <2> QED
        BY <2>1, <2>2, <2>3
<1>18. PICK c \in Nat : \E e : PicksBy(e, c, ips, U)
    BY <1>15, PickedHasList
<1>19. PICK e : Lists(e, c, U, Smaller(U)) /\ usable = [i \in 1..c |-> ips[e[i]]]
    BY <1>16, <1>18 DEF PicksBy
<1>20. /\ e \in [1..c -> U] /\ \A i \in U : \E k \in 1..c : e[k] = i
       /\ \A k, l \in 1..c : e[k] < e[l] <=> k < l
    BY <1>19 DEF Lists, Smaller
<1>21. PICK Q : Q = Usable(s)
    OBVIOUS
<1>22. ASSUME NEW p
       PROVE  p \in Q <=> \E a \in 1..n : \E i \in 1..Len(adapters[a].servers) :
                              /\ p = <<a, i>> /\ adapters[a].up
                              /\ adapters[a].servers[i] \notin SiteLocal
    <2>1. \A a \in 1..n : DOMAIN adapters[a].servers = 1..Len(adapters[a].servers)
        BY <1>6
    <2>2. p \in Q <=> /\ \E a \in 1..n : p \in {a} \X DOMAIN adapters[a].servers
                      /\ adapters[p[1]].up /\ adapters[p[1]].servers[p[2]] \notin SiteLocal
        BY <1>2, <1>4, <1>21 DEF Usable, At
    <2>3. ASSUME p \in Q
          PROVE  \E a \in 1..n : \E i \in 1..Len(adapters[a].servers) :
                              /\ p = <<a, i>> /\ adapters[a].up
                              /\ adapters[a].servers[i] \notin SiteLocal
        <3>1. PICK a \in 1..n : p \in {a} \X DOMAIN adapters[a].servers
            BY <2>2, <2>3
        <3>2. PICK i \in 1..Len(adapters[a].servers) : p = <<a, i>>
            BY <2>1, <3>1
        <3> QED
            BY <2>2, <2>3, <3>2
    <2>4. ASSUME NEW a \in 1..n, NEW i \in 1..Len(adapters[a].servers), p = <<a, i>>,
                 adapters[a].up, adapters[a].servers[i] \notin SiteLocal
          PROVE  p \in Q
        <3>1. p \in {a} \X DOMAIN adapters[a].servers
            BY <2>1, <2>4
        <3> QED
            BY <2>2, <2>4, <3>1
    <2> QED
        BY <2>3, <2>4
<1>23. ASSUME NEW k \in 1..m
       PROVE  /\ k \in U => f[k] \in Q
              /\ f[k][1] \in 1..n /\ ips[k] = adapters[f[k][1]].servers[f[k][2]]
    <2>1. PICK p \in P : p = f[k]
        BY <1>13
    <2>2. PICK a \in 1..n : \E i \in 1..Len(pieces[a]) : p = <<a, i>>
        BY <1>12, SlotPlaces
    <2>3. PICK i \in 1..Len(pieces[a]) : p = <<a, i>>
        BY <2>2
    <2>4. adapters[a].up /\ pieces[a] = adapters[a].servers
        <3>1. pieces[a] = <<>> => Len(pieces[a]) = 0
            OBVIOUS
        <3>2. pieces[a] # <<>>
            BY <3>1
        <3> QED
            BY <1>6, <3>2
    <2>5. ips[k] = adapters[a].servers[i]
        <3>1. p[1] = a /\ p[2] = i
            BY <2>3
        <3>2. ips[k] = pieces[p[1]][p[2]]
            BY <1>13, <2>1
        <3> QED
            BY <2>4, <3>1, <3>2
    <2>6. k \in U => ips[k] \notin SiteLocal
        BY <1>14
    <2> QED
        BY <1>22, <2>1, <2>3, <2>4, <2>5, <2>6
<1>24. ASSUME NEW p \in Q
       PROVE  \E k \in U : f[k] = p
    <2>1. PICK a \in 1..n : \E i \in 1..Len(adapters[a].servers) :
                              /\ p = <<a, i>> /\ adapters[a].up
                              /\ adapters[a].servers[i] \notin SiteLocal
        BY <1>22
    <2>2. PICK i \in 1..Len(adapters[a].servers) :
                              /\ p = <<a, i>> /\ adapters[a].up
                              /\ adapters[a].servers[i] \notin SiteLocal
        BY <2>1
    <2>3. p \in P
        BY <1>6, <1>12, <2>2, SlotPlaces
    <2>4. PICK k \in 1..m : f[k] = p
        BY <1>13, <2>3
    <2>5. ips[k] = adapters[a].servers[i]
        BY <1>23, <2>2, <2>4
    <2> QED
        BY <1>14, <2>2, <2>4, <2>5
<1>25. PICK at : at = [p \in Q |-> OnDnsPort(At(s, p))]
    OBVIOUS
<1>26. PICK ported : ported = OnDnsPorts(usable)
    OBVIOUS
<1>27. /\ ported \in Seq(Servers) /\ Len(ported) = c
       /\ \A i \in 1..c : e[i] \in U /\ f[e[i]] \in Q /\ ported[i] = at[f[e[i]]]
    <2>1. Len(usable) = c
        BY <1>19
    <2>2. /\ ported \in Seq(Servers) /\ Len(ported) = c
          /\ \A i \in 1..c : ported[i] = OnDnsPort(usable[i])
        BY <1>17, <1>26, <2>1, PortsAreAdded
    <2>3. ASSUME NEW i \in 1..c
          PROVE  e[i] \in U /\ f[e[i]] \in Q /\ ported[i] = at[f[e[i]]]
        <3>1. PICK k \in U : k = e[i]
            BY <1>20
        <3>2. k \in 1..m /\ usable[i] = ips[k]
            BY <1>15, <1>19, <3>1
        <3>3. f[k] \in Q /\ ips[k] = s.adapters[f[k][1]].servers[f[k][2]]
            BY <1>2, <1>23, <3>1, <3>2
        <3>4. at[f[k]] = OnDnsPort(ips[k])
            BY <1>25, <3>3 DEF At
        <3> QED
            BY <2>2, <3>1, <3>2, <3>3, <3>4
    <2> QED
        BY <2>2, <2>3
<1>28. PICK servers : servers = Deduplicated(ported)
    OBVIOUS
<1>29. /\ servers \in Seq(Servers)
       /\ \E w \in Nat : \E d : AreFirsts(servers, ported, w, d)
    BY <1>27, <1>28, FirstsAreKept
<1>30. PICK w \in Nat : \E d : AreFirsts(servers, ported, w, d)
    BY <1>29
<1>31. PICK d \in [1..w -> 1..c] :
             /\ servers = [k \in 1..w |-> ported[d[k]]]
             /\ \A i \in 1..c : \E k \in 1..w : ported[d[k]] = ported[i]
             /\ \A k, l \in 1..w : k < l => \A i \in 1..c : ported[i] = ported[d[l]] => d[k] < i
    BY <1>27, <1>30 DEF AreFirsts
<1>32. ASSUME NEW p \in Q
       PROVE  \E i \in 1..c : f[e[i]] = p /\ ported[i] = at[p]
    <2>1. PICK k \in U : f[k] = p
        BY <1>24
    <2>2. PICK i \in 1..c : e[i] = k
        BY <1>20, <2>1
    <2> QED
        BY <1>27, <2>1, <2>2
<1>33. Range(servers) = {at[p] : p \in Q}
    <2>1. ASSUME NEW k \in 1..w
          PROVE  servers[k] \in {at[p] : p \in Q}
        <3>1. PICK x \in 1..c : x = d[k] /\ servers[k] = ported[x]
            BY <1>31
        <3>2. PICK p \in Q : p = f[e[x]] /\ ported[x] = at[p]
            BY <1>27
        <3> QED
            BY <3>1, <3>2
    <2>2. ASSUME NEW p \in Q
          PROVE  \E k \in 1..w : servers[k] = at[p]
        <3>1. PICK i \in 1..c : ported[i] = at[p]
            BY <1>32
        <3>2. PICK k \in 1..w : ported[d[k]] = ported[i]
            BY <1>31
        <3> QED
            BY <1>31, <3>1, <3>2
    <2>3. DOMAIN servers = 1..w
        BY <1>31
    <2> QED
        BY <2>1, <2>2, <2>3 DEF Range
<1>34. ASSUME NEW k \in 1..w, NEW l \in 1..w, k < l
       PROVE  \E p \in Q : at[p] = servers[k] /\ \A q \in Q : at[q] = servers[l] => Before(p, q)
    <2>1. PICK x \in 1..c : x = d[k] /\ servers[k] = ported[x]
        BY <1>31
    <2>2. PICK p \in Q : p = f[e[x]] /\ at[p] = servers[k]
        BY <1>27, <2>1
    <2>3. ASSUME NEW q \in Q, at[q] = servers[l]
          PROVE  Before(p, q)
        <3>1. PICK i \in 1..c : f[e[i]] = q /\ ported[i] = at[q]
            BY <1>32
        <3>2. ported[i] = ported[d[l]]
            BY <1>31, <2>3, <3>1
        <3>3. x < i
            BY <1>31, <1>34, <2>1, <3>2
        <3>4. e[x] < e[i] /\ e[x] \in 1..m /\ e[i] \in 1..m
            BY <1>15, <1>20, <1>27, <3>3
        <3> QED
            BY <1>13, <2>2, <3>1, <3>4
    <2> QED
        BY <2>2, <2>3
<1>35. PICK I \in SUBSET DOMAIN list : I = {i \in DOMAIN list : list[i] # ""}
    OBVIOUS
<1>36. PICK named : named = Picked(list, I)
    OBVIOUS
<1>37. Range(named) = Range(list) \ {""} /\ (named = <<>> <=> Range(list) \ {""} = {})
    <2>1. Range(named) = {list[i] : i \in I} /\ (named = <<>> <=> I = {})
        BY <1>36, PickedRange
    <2>2. {list[i] : i \in I} = Range(list) \ {""}
        BY <1>35 DEF Range
    <2> QED
        BY <2>1, <2>2
<1>38. PICK search : search = IF named # <<>> THEN named
                              ELSE IF s.domain \in {"", NoDomain} THEN <<>> ELSE <<s.domain>>
    OBVIOUS
<1>39. Range(search) = IF Range(list) \ {""} # {} THEN Range(list) \ {""}
                       ELSE {s.domain} \ {"", NoDomain}
    <2>1. Range(<<>>) = {} /\ Range(<<s.domain>>) = {s.domain}
        BY DEF Range
    <2>2. CASE named # <<>>
        BY <1>37, <1>38, <2>2
    <2>3. CASE named = <<>> /\ s.domain \in {"", NoDomain}
        BY <1>37, <1>38, <2>1, <2>3
    <2>4. CASE named = <<>> /\ s.domain \notin {"", NoDomain}
        BY <1>37, <1>38, <2>1, <2>4
    <2> QED
        BY <2>2, <2>3, <2>4
<1>40. config.servers = servers /\ config.search = search
    <2>1. ReadWindows(s.adapters, s.list, s.domain) =
              [Default EXCEPT !.servers = servers, !.search = search]
        <3>1. ips = Joined([i \in DOMAIN s.adapters |-> IF s.adapters[i].up THEN s.adapters[i].servers
                                                        ELSE <<>>])
            BY <1>2, <1>5, <1>8
        <3>2. usable = Picked(ips, {i \in DOMAIN ips : ips[i] \notin SiteLocal})
            BY <1>13, <1>14, <1>16
        <3>3. named = Picked(s.list, {i \in DOMAIN s.list : s.list[i] # ""})
            BY <1>3, <1>35, <1>36
        <3>4. servers = Deduplicated(OnDnsPorts(usable))
            BY <1>26, <1>28
        <3> QED
            BY <1>38, <3>1, <3>2, <3>3, <3>4 DEF ReadWindows
    <2> QED
        BY <2>1 DEF Default
<1>41. MeansAdapters(config, s)
    <2>2. \A p \in Q : OnDnsPort(At(s, p)) = at[p]
        BY <1>25
    <2>3. Range(config.servers) = {OnDnsPort(At(s, p)) : p \in Q}
        BY <1>33, <1>40, <2>2
    <2>4. DOMAIN config.servers = 1..w
        BY <1>31, <1>40
    <2>5. \A k, l \in DOMAIN config.servers : k < l =>
              \E p \in Q : /\ OnDnsPort(At(s, p)) = config.servers[k]
                           /\ \A q \in Q : OnDnsPort(At(s, q))
                                               = config.servers[l] => Before(p, q)
        <3>1. SUFFICES ASSUME NEW k \in 1..w, NEW l \in 1..w, k < l
                       PROVE  \E p \in Q : /\ OnDnsPort(At(s, p)) = config.servers[k]
                                            /\ \A q \in Q : OnDnsPort(At(s, q))
                                                                = config.servers[l] => Before(p, q)
            BY <2>4
        <3>2. PICK p \in Q : at[p] = servers[k] /\ \A q \in Q : at[q] = servers[l] => Before(p, q)
            BY <1>34, <3>1
        <3>3. \A q \in Q : OnDnsPort(At(s, q)) = config.servers[l]
                                => Before(p, q)
            BY <1>40, <2>2, <3>2
        <3>4. OnDnsPort(At(s, p)) = config.servers[k]
            BY <1>40, <2>2, <3>2
        <3> QED
            BY <3>3, <3>4
    <2>6. Range(config.search) = IF Range(s.list) \ {""} # {} THEN Range(s.list) \ {""}
                                 ELSE {s.domain} \ {"", NoDomain}
        BY <1>3, <1>39, <1>40
    <2> QED
        BY <1>21, <2>3, <2>5, <2>6 DEF MeansAdapters
<1> QED
    BY <1>29, <1>40, <1>41

\* What the addresses and domains of an Apple host are is what is read.
LEMMA ResolversOfAppleAreRead ==
    ASSUME NEW s, IsSource("apple", s), NEW servers,
           servers = ReadApple(s.addresses, s.domains).servers
    PROVE  /\ servers \in Seq(Servers)
           /\ Range(servers) = {OnDnsPort(Ip[w]) : w \in Range(s.addresses) \cap DOMAIN Ip}
<1>1. PICK addresses \in Seq(STRING) : addresses = s.addresses
    BY DEF IsSource
<1>2. PICK I \in SUBSET DOMAIN addresses : I = {i \in DOMAIN addresses : addresses[i] \in DOMAIN Ip}
    OBVIOUS
<1>3. PICK parsed : parsed = Picked(addresses, I)
    OBVIOUS
<1>4. parsed \in Seq(STRING) /\ Range(parsed) = {addresses[i] : i \in I}
    BY <1>3, PickedRange
<1>5. Range(parsed) = Range(addresses) \cap DOMAIN Ip
    BY <1>2, <1>4 DEF Range
<1>6. PICK ips : ips = [i \in DOMAIN parsed |-> Ip[parsed[i]]]
    OBVIOUS
<1>7. ips \in Seq(Range(Ip)) /\ Range(ips) = {Ip[w] : w \in Range(parsed)}
    <2>1. PICK n \in Nat : n = Len(parsed) /\ DOMAIN parsed = 1..n
        BY <1>4
    <2>2. \A i \in 1..n : parsed[i] \in Range(parsed)
        BY <2>1 DEF Range
    <2>3. \A i \in 1..n : Ip[parsed[i]] \in Range(Ip)
        BY <1>5, <2>2 DEF Range
    <2>4. ips \in Seq(Range(Ip))
        BY <1>6, <2>1, <2>3
    <2>5. Range(ips) = {Ip[w] : w \in Range(parsed)}
        BY <1>6 DEF Range
    <2> QED
        BY <2>4, <2>5
<1>8. servers = OnDnsPorts(ips)
    <2>1. ReadApple(s.addresses, s.domains) =
              [Default EXCEPT !.servers = OnDnsPorts(ips), !.search = s.domains]
        BY <1>1, <1>2, <1>3, <1>6 DEF ReadApple
    <2> QED
        BY <2>1 DEF Default
<1>9. servers \in Seq(Servers) /\ Range(servers) = {OnDnsPort(ip) : ip \in Range(ips)}
    BY <1>7, <1>8, PortsAreAdded
<1> QED
    BY <1>1, <1>5, <1>7, <1>9

\* What arrays of an Android host hold an address is what is read.
LEMMA ArraysAreRead ==
    ASSUME NEW s, s.arrays \in Seq(Range(s.arrays)),
           \A a \in Range(s.arrays) : a.length \in {4, 16} => a.ip \in Range(Ip),
           NEW servers, servers = ReadAndroid(s.arrays).servers
    PROVE  /\ servers \in Seq(Servers)
           /\ Range(servers) = {OnDnsPort(a.ip) : a \in {a \in Range(s.arrays) : a.length \in {4, 16}}}
<1>1. PICK A : A = Range(s.arrays)
    OBVIOUS
<1>2. PICK arrays : arrays = s.arrays
    OBVIOUS
<1>3. arrays \in Seq(A)
    BY <1>1, <1>2
<1>4. PICK I \in SUBSET DOMAIN arrays : I = {i \in DOMAIN arrays : arrays[i].length \in {4, 16}}
    OBVIOUS
<1>5. PICK sized : sized = Picked(arrays, I)
    OBVIOUS
<1>6. sized \in Seq(A) /\ Range(sized) = {arrays[i] : i \in I}
    BY <1>3, <1>5, PickedRange
<1>7. Range(sized) = {a \in A : a.length \in {4, 16}}
    BY <1>1, <1>2, <1>4, <1>6 DEF Range
<1>8. PICK ips : ips = [i \in DOMAIN sized |-> sized[i].ip]
    OBVIOUS
<1>9. ips \in Seq(Range(Ip)) /\ Range(ips) = {a.ip : a \in Range(sized)}
    <2>1. PICK c \in Nat : c = Len(sized) /\ DOMAIN sized = 1..c
        BY <1>6
    <2>2. \A i \in 1..c : sized[i] \in Range(sized)
        BY <2>1 DEF Range
    <2>3. \A i \in 1..c : sized[i].ip \in Range(Ip)
        BY <1>1, <1>7, <2>2
    <2>4. ips \in Seq(Range(Ip))
        BY <1>8, <2>1, <2>3
    <2>5. Range(ips) = {a.ip : a \in Range(sized)}
        BY <1>8 DEF Range
    <2> QED
        BY <2>4, <2>5
<1>10. servers = OnDnsPorts(ips)
    <2>1. ReadAndroid(s.arrays) = [Default EXCEPT !.servers = OnDnsPorts(ips)]
        BY <1>2, <1>4, <1>5, <1>8 DEF ReadAndroid
    <2> QED
        BY <2>1 DEF Default
<1>11. servers \in Seq(Servers) /\ Range(servers) = {OnDnsPort(ip) : ip \in Range(ips)}
    BY <1>9, <1>10, PortsAreAdded
<1> QED
    BY <1>1, <1>7, <1>9, <1>11

-----------------------------------------------------------------------------
(* The tasks that share a resolver. *)

\* A task's resolver exists once the task has asked for its state, and what the task
\* runs on is the configuration of a state that is built.
TaskOK(t) ==
    /\ task[t].pc \in {"idle", "waiting", "using"}
    /\ task[t].pc # "idle" => task[t].resolver \in DOMAIN resolver
    /\ task[t].pc = "using" =>
          /\ resolver[task[t].resolver].phase = "built"
          /\ task[t].config = resolver[task[t].resolver].config

Inv == /\ \E S : resolver \in Seq(S)
       /\ task = [t \in Task |-> task[t]]
       /\ \A t \in Task : TaskOK(t)

\* What is built stays as it is, and resolvers are only added.
Stable == \A r \in DOMAIN resolver :
             /\ r \in DOMAIN resolver'
             /\ resolver[r].phase = "built" => resolver'[r] = resolver[r]

\* A step that leaves the tasks alone and what is built too keeps what they rely on.
LEMMA StableKeepsInv ==
    ASSUME Inv, Stable, UNCHANGED task, \E S : resolver' \in Seq(S)
    PROVE  Inv'
<1>1. \A t \in Task : TaskOK(t)'
    BY DEF Inv, TaskOK, Stable
<1> QED
    BY <1>1 DEF Inv

\* The new resolver comes last, and the others keep their places.
LEMMA NewResolverKeepsInv ==
    ASSUME Inv, NewResolver
    PROVE  Inv'
<1>1. PICK S : resolver \in Seq(S)
    BY DEF Inv
<1>2. PICK x : x = Unbuilt
    OBVIOUS
<1>3. resolver' = Append(resolver, x) /\ UNCHANGED task
    BY <1>2 DEF NewResolver
<1>4. PICK T : T = S \cup {x}
    OBVIOUS
<1>5. resolver \in Seq(T)
    BY <1>1, <1>4
<1>6. x \in T
    BY <1>4
<1>7. resolver' \in Seq(T)
    BY <1>3, <1>5, <1>6
<1>8. Stable
    BY <1>3, <1>5, <1>6 DEF Stable
<1> QED
    BY <1>3, <1>7, <1>8, StableKeepsInv

\* One resolver changes, whose state is not built yet, to x; nothing else does.
Replaced(r, x) == /\ r \in DOMAIN resolver /\ resolver[r].phase # "built"
                  /\ resolver' = [resolver EXCEPT ![r] = x]
                  /\ UNCHANGED <<platform, source, hosts, writes, task, seen>>

\* The first task to ask opens the source as it is.
LEMMA StartReadingReplaces ==
    ASSUME Inv, NEW t \in Task, StartReading(t)
    PROVE  \E r, x : Replaced(r, x) /\ x.phase = "reading" /\ x.read = source
<1>1. PICK r : r = task[t].resolver
    OBVIOUS
<1>2. PICK x : x = [phase |-> "reading", by |-> t, read |-> source, since |-> writes.source]
    OBVIOUS
<1>3. Replaced(r, x)
    BY <1>1, <1>2 DEF StartReading, Inv, TaskOK, Replaced
<1>4. x.phase = "reading" /\ x.read = source
    BY <1>2
<1> QED
    BY <1>3, <1>4

\* The search list is an answer of the moment, or none.
LEMMA ReadSearchListReplaces ==
    ASSUME Inv, NEW t \in Task, ReadSearchList(t)
    PROVE  /\ platform = "windows"
           /\ \E r, x : /\ Replaced(r, x)
                        /\ resolver[r].phase = "reading" /\ resolver[r].read.readable
                        /\ x.phase = "listed"
                        /\ \E list \in {<<>>} \cup (IF source.readable THEN {source.list} ELSE {}) :
                              x.read = [resolver[r].read EXCEPT !.list = list]
<1>1. PICK r : r = task[t].resolver
    OBVIOUS
<1>2. PICK S : resolver \in Seq(S)
    BY DEF Inv
<1>3. r \in DOMAIN resolver /\ resolver[r].phase = "reading" /\ resolver[r].read.readable
    BY <1>1 DEF ReadSearchList, Builds, Inv, TaskOK
<1>4. PICK list \in {<<>>} \cup (IF source.readable THEN {source.list} ELSE {}) :
         resolver' = [resolver EXCEPT ![r] =
             [phase |-> "listed", by |-> t, read |-> [resolver[r].read EXCEPT !.list = list],
              since |-> resolver[r].since]]
    BY <1>1, <1>2, <1>3 DEF ReadSearchList
<1>5. PICK x : x = [phase |-> "listed", by |-> t, read |-> [resolver[r].read EXCEPT !.list = list],
                    since |-> resolver[r].since]
    OBVIOUS
<1>6. Replaced(r, x)
    BY <1>3, <1>4, <1>5 DEF ReadSearchList, Replaced
<1>7. x.phase = "listed" /\ x.read = [resolver[r].read EXCEPT !.list = list]
    BY <1>5
<1>8. \E l \in {<<>>} \cup (IF source.readable THEN {source.list} ELSE {}) :
         x.read = [resolver[r].read EXCEPT !.list = l]
    BY <1>4, <1>7
<1>9. platform = "windows"
    BY DEF ReadSearchList
<1> QED
    BY <1>3, <1>6, <1>7, <1>8, <1>9

\* The reading ends with one of the contents it can have found, which is torn if it is
\* of a file that was written meanwhile.
LEMMA FinishReadingReplaces ==
    ASSUME Inv, NEW t \in Task, FinishReading(t)
    PROVE  \E r, x, s : /\ Replaced(r, x)
                        /\ \/ resolver[r].phase = "listed"
                           \/ /\ resolver[r].phase = "reading"
                              /\ platform # "windows" \/ ~resolver[r].read.readable
                        /\ s \in SourceReadings(resolver[r])
                        /\ x.phase = "configured" /\ x.config = Parsed(s) /\ x.read = s
                        /\ x.torn = (platform = "unix" /\ resolver[r].since # writes.source)
<1>1. PICK r : r = task[t].resolver
    OBVIOUS
<1>2. PICK S : resolver \in Seq(S)
    BY DEF Inv
<1>3. r \in DOMAIN resolver /\ resolver[r].phase # "built"
    BY <1>1 DEF FinishReading, Builds, Inv, TaskOK
<1>4. PICK torn : torn = (platform = "unix" /\ resolver[r].since # writes.source)
    OBVIOUS
<1>5. PICK s \in SourceReadings(resolver[r]) :
         resolver' = [resolver EXCEPT ![r] =
             [phase |-> "configured", by |-> t, config |-> Parsed(s), read |-> s,
              torn |-> platform = "unix" /\ resolver[r].since # writes.source]]
    BY <1>1, <1>2, <1>3 DEF FinishReading
<1>6. PICK c : c = Parsed(s)
    OBVIOUS
<1>7. PICK x : x = [phase |-> "configured", by |-> t, config |-> c, read |-> s, torn |-> torn]
    OBVIOUS
<1>8. resolver' = [resolver EXCEPT ![r] = x]
    BY <1>4, <1>5, <1>6, <1>7
<1>9. Replaced(r, x)
    BY <1>3, <1>8 DEF FinishReading, Replaced
<1>10. x.phase = "configured" /\ x.config = c /\ x.read = s /\ x.torn = torn
    BY <1>7
<1>11. \/ resolver[r].phase = "listed"
       \/ /\ resolver[r].phase = "reading"
          /\ platform # "windows" \/ ~resolver[r].read.readable
    BY <1>1 DEF FinishReading, Builds
<1>12. x.config = Parsed(s)
    BY <1>6, <1>10
<1>13. x.torn = (platform = "unix" /\ resolver[r].since # writes.source)
    BY <1>4, <1>10
<1> QED
    BY <1>5, <1>9, <1>10, <1>11, <1>12, <1>13

\* Opening the hosts file leaves the configuration and what it was read from.
LEMMA OpenHostsReplaces ==
    ASSUME Inv, NEW t \in Task, OpenHosts(t)
    PROVE  \E r, x : /\ Replaced(r, x) /\ resolver[r].phase = "configured"
                     /\ x.phase = "opened" /\ x.config = resolver[r].config
                     /\ x.read = resolver[r].read /\ x.torn = resolver[r].torn
                     /\ x.file = hosts
<1>1. PICK r : r = task[t].resolver
    OBVIOUS
<1>2. PICK S : resolver \in Seq(S)
    BY DEF Inv
<1>3. r \in DOMAIN resolver /\ resolver[r].phase = "configured"
    BY <1>1 DEF OpenHosts, Builds, Inv, TaskOK
<1>4. PICK x : x = [phase |-> "opened", by |-> t, config |-> resolver[r].config,
                    read |-> resolver[r].read, torn |-> resolver[r].torn, file |-> hosts,
                    since |-> writes.hosts]
    OBVIOUS
<1>5. resolver' = [resolver EXCEPT ![r] = x]
    BY <1>1, <1>2, <1>3, <1>4 DEF OpenHosts
<1>6. Replaced(r, x)
    BY <1>3, <1>5 DEF OpenHosts, Replaced
<1>7. /\ x.phase = "opened" /\ x.config = resolver[r].config
      /\ x.read = resolver[r].read /\ x.torn = resolver[r].torn /\ x.file = hosts
    BY <1>4
<1> QED
    BY <1>3, <1>6, <1>7

\* What a resolver makes of the hosts file.
EntriesOf(h) == IF h.readable THEN ParseHosts(h) ELSE <<>>

\* The hosts file's reading ends with one of the contents it can have found.
LEMMA ReadHostsReplaces ==
    ASSUME Inv, NEW t \in Task, ReadHosts(t)
    PROVE  \E r, x, h : /\ Replaced(r, x) /\ resolver[r].phase = "opened"
                        /\ h \in HostsReadings(resolver[r])
                        /\ x.phase = "built"
                        /\ x.config = [resolver[r].config EXCEPT !.hosts = EntriesOf(h)]
                        /\ x.read = resolver[r].read /\ x.torn = resolver[r].torn
                        /\ x.file = h
                        /\ x.fileTorn = (resolver[r].since # writes.hosts)
<1>1. PICK r : r = task[t].resolver
    OBVIOUS
<1>2. PICK S : resolver \in Seq(S)
    BY DEF Inv
<1>3. r \in DOMAIN resolver /\ resolver[r].phase = "opened"
    BY <1>1 DEF ReadHosts, Builds, Inv, TaskOK
<1>4. PICK torn : torn = (resolver[r].since # writes.hosts)
    OBVIOUS
<1>5. PICK h \in HostsReadings(resolver[r]) :
         resolver' = [resolver EXCEPT ![r] =
             [phase |-> "built", config |-> [resolver[r].config EXCEPT !.hosts = EntriesOf(h)],
              read |-> resolver[r].read, torn |-> resolver[r].torn,
              file |-> h, fileTorn |-> resolver[r].since # writes.hosts]]
    BY <1>1, <1>2, <1>3 DEF ReadHosts, EntriesOf
<1>6. PICK c : c = [resolver[r].config EXCEPT !.hosts = EntriesOf(h)]
    OBVIOUS
<1>7. PICK x : x = [phase |-> "built", config |-> c, read |-> resolver[r].read,
                    torn |-> resolver[r].torn, file |-> h, fileTorn |-> torn]
    OBVIOUS
<1>8. resolver' = [resolver EXCEPT ![r] = x]
    BY <1>4, <1>5, <1>6, <1>7
<1>9. Replaced(r, x)
    BY <1>3, <1>8 DEF ReadHosts, Replaced
<1>10. /\ x.phase = "built" /\ x.config = c /\ x.read = resolver[r].read
       /\ x.torn = resolver[r].torn /\ x.file = h /\ x.fileTorn = torn
    BY <1>7
<1>11. x.config = [resolver[r].config EXCEPT !.hosts = EntriesOf(h)]
    BY <1>6, <1>10
<1>12. x.fileTorn = (resolver[r].since # writes.hosts)
    BY <1>4, <1>10
<1> QED
    BY <1>3, <1>5, <1>9, <1>10, <1>11, <1>12

\* Each step of the building replaces one resolver.
LEMMA BuildingReplaces ==
    ASSUME Inv, NEW t \in Task,
           \/ StartReading(t) \/ ReadSearchList(t) \/ FinishReading(t)
           \/ OpenHosts(t) \/ ReadHosts(t)
    PROVE  \E r, x : Replaced(r, x)
<1>1. CASE StartReading(t)
    BY <1>1, StartReadingReplaces
<1>2. CASE ReadSearchList(t)
    BY <1>2, ReadSearchListReplaces
<1>3. CASE FinishReading(t)
    BY <1>3, FinishReadingReplaces
<1>4. CASE OpenHosts(t)
    BY <1>4, OpenHostsReplaces
<1>5. CASE ReadHosts(t)
    BY <1>5, ReadHostsReplaces
<1> QED
    BY <1>1, <1>2, <1>3, <1>4, <1>5

\* Building a state touches only a resolver whose state is not built.
LEMMA BuildingKeepsInv ==
    ASSUME Inv, NEW r \in DOMAIN resolver, NEW x, resolver[r].phase # "built",
           resolver' = [resolver EXCEPT ![r] = x], UNCHANGED task
    PROVE  Inv'
<1>1. PICK S : resolver \in Seq(S)
    BY DEF Inv
<1>2. PICK T : T = S \cup {x}
    OBVIOUS
<1>3. resolver \in Seq(T) /\ x \in T
    BY <1>1, <1>2
<1>4. resolver' \in Seq(T)
    BY <1>3, ExceptSeq
<1>5. Stable
    BY <1>3 DEF Stable
<1> QED
    BY <1>4, <1>5, StableKeepsInv

\* A task that asks for a state is not using one yet.
LEMMA UseKeepsInv ==
    ASSUME Inv, NEW t \in Task, NEW r \in DOMAIN resolver, Use(t, r)
    PROVE  Inv'
<1>1. PICK x : x = [pc |-> "waiting", resolver |-> r]
    OBVIOUS
<1>2. task' = [task EXCEPT ![t] = x] /\ UNCHANGED resolver
    BY <1>1 DEF Use
<1>3. task' = [u \in Task |-> IF u = t THEN x ELSE task[u]]
    BY <1>2 DEF Inv
<1>4. ASSUME NEW u \in Task
      PROVE  TaskOK(u)'
  <2>1. CASE u = t
      BY <1>1, <1>2, <1>3, <2>1 DEF TaskOK
  <2>2. CASE u # t
      BY <1>2, <1>3, <2>2 DEF Inv, TaskOK
  <2> QED
      BY <2>1, <2>2
<1> QED
    BY <1>2, <1>3, <1>4 DEF Inv

\* A task takes the configuration of a state that is built.
LEMMA TakeKeepsInv ==
    ASSUME Inv, NEW t \in Task, Take(t)
    PROVE  Inv'
<1>1. PICK r : r = task[t].resolver
    OBVIOUS
<1>2. PICK x : x = [pc |-> "using", resolver |-> r, config |-> resolver[r].config]
    OBVIOUS
<1>3. /\ task' = [task EXCEPT ![t] = x] /\ UNCHANGED resolver
      /\ task[t].pc = "waiting" /\ resolver[r].phase = "built"
    BY <1>1, <1>2 DEF Take
<1>4. task' = [u \in Task |-> IF u = t THEN x ELSE task[u]]
    BY <1>3 DEF Inv
<1>5. r \in DOMAIN resolver
    BY <1>1, <1>3 DEF Inv, TaskOK
<1>6. ASSUME NEW u \in Task
      PROVE  TaskOK(u)'
  <2>1. CASE u = t
      BY <1>2, <1>3, <1>4, <1>5, <2>1 DEF TaskOK
  <2>2. CASE u # t
      BY <1>3, <1>4, <2>2 DEF Inv, TaskOK
  <2> QED
      BY <2>1, <2>2
<1> QED
    BY <1>3, <1>4, <1>6 DEF Inv

\* A step of the system itself, or none.
LEMMA FrameKeepsInv ==
    ASSUME Inv, UNCHANGED <<resolver, task>>
    PROVE  Inv'
    BY DEF Inv, TaskOK

\* Every step keeps the invariant.
LEMMA NextKeepsInv == Inv /\ [Next]_vars => Inv'
<1> SUFFICES ASSUME Inv, [Next]_vars
             PROVE  Inv'
    OBVIOUS
<1>1. CASE TruncateFile \/ AppendLine \/ ReplaceSource \/ ReplaceHosts
  <2>1. UNCHANGED <<resolver, task>>
      BY <1>1 DEF TruncateFile, AppendLine, ReplaceSource, ReplaceHosts, Rewrites
  <2> QED
      BY <2>1, FrameKeepsInv
<1>2. CASE NewResolver
    BY <1>2, NewResolverKeepsInv
<1>3. ASSUME NEW t \in Task, NEW r \in DOMAIN resolver, Use(t, r)
      PROVE  Inv'
    BY <1>3, UseKeepsInv
<1>4. ASSUME NEW t \in Task,
             \/ StartReading(t) \/ ReadSearchList(t) \/ FinishReading(t)
             \/ OpenHosts(t) \/ ReadHosts(t)
      PROVE  Inv'
  <2>1. PICK r, x : Replaced(r, x)
      BY <1>4, BuildingReplaces
  <2>2. /\ r \in DOMAIN resolver /\ resolver[r].phase # "built"
        /\ resolver' = [resolver EXCEPT ![r] = x] /\ UNCHANGED task
      BY <2>1 DEF Replaced
  <2> QED
      BY <2>2, BuildingKeepsInv
<1>5. ASSUME NEW t \in Task, Take(t)
      PROVE  Inv'
    BY <1>5, TakeKeepsInv
<1>6. CASE UNCHANGED vars
  <2>1. UNCHANGED <<resolver, task>>
      BY <1>6 DEF vars
  <2> QED
      BY <2>1, FrameKeepsInv
<1> QED
    BY <1>1, <1>2, <1>3, <1>4, <1>5, <1>6 DEF Next

\* No task has a resolver at first.
LEMMA InitEstablishesInv == Init => Inv
<1> SUFFICES ASSUME Init
             PROVE  Inv
    OBVIOUS
<1>1. \E S : resolver \in Seq(S)
  <2>1. resolver \in Seq({})
      BY DEF Init
  <2> QED
      BY <2>1
<1>2. task = [t \in Task |-> Idle]
    BY DEF Init
<1>3. \A t \in Task : task[t].pc = "idle"
    BY <1>2 DEF Idle
<1> QED
    BY <1>1, <1>2, <1>3 DEF Inv, TaskOK

\* All tasks that share a resolver run on one configuration, however their first
\* lookups, the writes of the files and the steps of reading them interleave.
THEOREM TasksShareOneReading == Spec => []OneReading
<1>1. Init => Inv
    BY InitEstablishesInv
<1>2. Inv /\ [Next]_vars => Inv'
    BY NextKeepsInv
<1>3. Inv => OneReading
    BY DEF Inv, TaskOK, OneReading
<1> QED
    BY <1>1, <1>2, <1>3, PTL DEF Spec

-----------------------------------------------------------------------------
(* What is read, while it is written. *)

\* What the source is, of a platform that can be read or of one that cannot.
IsHeld(s) == s = Unreadable \/ (s.readable = TRUE /\ IsSource(platform, s))

\* What a resolver read, and whether it is a version there was.
HasRead(x, versions) == IsHeld(x.read) /\ (x.torn \/ IsVersion(x.read, versions))

\* A resolver at each stage of its building: how far it has read, of what, and what it
\* made of that.
Stage(x, versions, files) ==
    \/ x.phase = "unbuilt"
    \/ x.phase = "reading" /\ x.read \in versions
    \/ /\ x.phase = "listed" /\ platform = "windows" /\ x.read.readable
       /\ IsHeld(x.read) /\ IsVersion(x.read, versions)
    \/ x.phase = "configured" /\ HasRead(x, versions) /\ x.config = Parsed(x.read)
    \/ /\ x.phase = "opened" /\ HasRead(x, versions) /\ x.config = Parsed(x.read)
       /\ x.file \in files
    \/ /\ x.phase = "built" /\ HasRead(x, versions)
       /\ x.config = [Parsed(x.read) EXCEPT !.hosts = EntriesOf(x.file)]
       /\ x.file \in HostsFiles /\ (x.fileTorn \/ x.file \in files)

ResolverOK(r) ==
    /\ source \in seen[r].sources /\ hosts \in seen[r].hosts
    /\ \A s \in seen[r].sources : IsHeld(s)
    /\ seen[r].hosts \subseteq HostsFiles
    /\ Stage(resolver[r], seen[r].sources, seen[r].hosts)

SourceOK == /\ platform \in DOMAIN Sources
            /\ IsHeld(source) /\ hosts \in HostsFiles
            /\ source \in Sources[platform] \/ (platform = "unix" /\ Len(source.lines) <= MaxLines)

ReadInv == /\ SourceOK
           /\ \E S : seen \in Seq(S)
           /\ Len(seen) = Len(resolver)
           /\ \A r \in DOMAIN resolver : ResolverOK(r)

\* The fields of a configuration that a reader returns, before its hosts are read.
IsParsed(c) ==
    /\ c = [servers |-> c.servers, search |-> c.search, ndots |-> c.ndots, hosts |-> <<>>]
    /\ c.servers \in Seq(Servers)
    /\ "--" \notin Range(c.search) \/ platform # "unix"
    /\ c.ndots \in Nat \cup {Unset}

\* A reader returns a configuration that means its source, and the default if it fails.
LEMMA SourcesAreRead ==
    ASSUME platform \in DOMAIN Sources, NEW s, IsHeld(s), NEW entries
    PROVE  IsParsed(Parsed(s)) /\ Means([Parsed(s) EXCEPT !.hosts = entries], s)
<1>1. PICK c : c = Parsed(s)
    OBVIOUS
<1>2. PICK config : config = [c EXCEPT !.hosts = entries]
    OBVIOUS
<1>3. SUFFICES IsParsed(c) /\ Means(config, s)
    BY <1>1, <1>2
<1>4. c = [servers |-> c.servers, search |-> c.search, ndots |-> c.ndots, hosts |-> <<>>]
      => /\ config.servers = c.servers /\ config.search = c.search /\ config.ndots = c.ndots
         /\ config.hosts = entries /\ [config EXCEPT !.hosts = <<>>] = c
    <2> SUFFICES ASSUME c = [servers |-> c.servers, search |-> c.search, ndots |-> c.ndots,
                             hosts |-> <<>>]
                 PROVE  /\ config.servers = c.servers /\ config.search = c.search
                        /\ config.ndots = c.ndots /\ config.hosts = entries
                        /\ [config EXCEPT !.hosts = <<>>] = c
        OBVIOUS
    <2>1. PICK a, b, d : c = [servers |-> a, search |-> b, ndots |-> d, hosts |-> <<>>]
        OBVIOUS
    <2>2. config = [servers |-> a, search |-> b, ndots |-> d, hosts |-> entries]
        BY <1>2, <2>1
    <2> QED
        BY <2>1, <2>2
<1>5. Default = [servers |-> <<>>, search |-> <<>>, ndots |-> Unset, hosts |-> <<>>]
    BY DEF Default
<1>6. CASE s = Unreadable
    <2>1. ~s.readable
        BY <1>6 DEF Unreadable
    <2>2. c = Default
        BY <1>1, <2>1 DEF Parsed
    <2>3. IsParsed(c)
        BY <1>5, <2>2 DEF IsParsed, Range
    <2>4. [config EXCEPT !.hosts = <<>>] = Default
        BY <1>4, <1>5, <2>2
    <2> QED
        BY <2>1, <2>3, <2>4 DEF Means
<1>7. CASE platform = "unix" /\ s.readable = TRUE /\ IsSource(platform, s)
    <2>1. PICK lines \in Seq(Seq(STRING)) : lines = s.lines
        BY <1>7 DEF IsSource
    <2>2. c = ParseResolvConf(lines)
        BY <1>1, <1>7, <2>1 DEF Parsed
    <2>3. c \in Configs /\ MeansResolvConf(c, lines)
        BY <2>2, ResolvConfIsRead
    <2>4. /\ c = [servers |-> c.servers, search |-> c.search, ndots |-> c.ndots, hosts |-> <<>>]
          /\ c.servers \in Seq(Servers) /\ c.search \in Seq(STRING \ {"--"})
          /\ c.ndots \in Nat \cup {Unset}
        BY <2>3 DEF Configs
    <2>5. "--" \notin Range(c.search)
        <3>1. PICK t \in Seq(STRING \ {"--"}) : t = c.search
            BY <2>4
        <3>2. \A i \in DOMAIN t : t[i] # "--"
            OBVIOUS
        <3> QED
            BY <3>1, <3>2 DEF Range
    <2>6. IsParsed(c)
        BY <2>4, <2>5 DEF IsParsed
    <2>7. MeansResolvConf(config, lines)
        BY <1>4, <2>3, <2>4 DEF MeansResolvConf
    <2> QED
        BY <1>7, <2>1, <2>6, <2>7 DEF Means
<1>8. CASE platform = "windows" /\ s.readable = TRUE /\ IsSource(platform, s)
    <2>1. c = ReadWindows(s.adapters, s.list, s.domain)
        BY <1>1, <1>8 DEF Parsed
    <2>2. \E servers, search : c = [Default EXCEPT !.servers = servers, !.search = search]
        BY <2>1 DEF ReadWindows
    <2>3. /\ c = [servers |-> c.servers, search |-> c.search, ndots |-> c.ndots, hosts |-> <<>>]
          /\ c.ndots = Unset
        BY <1>5, <2>2
    <2>4. config.servers \in Seq(Servers) /\ MeansAdapters(config, s)
        BY <1>4, <1>8, <2>1, <2>3, AdaptersAreRead
    <2>5. IsParsed(c)
        BY <1>4, <1>8, <2>3, <2>4 DEF IsParsed
    <2> QED
        BY <1>8, <2>4, <2>5 DEF Means
<1>9. CASE platform = "apple" /\ s.readable = TRUE /\ IsSource(platform, s)
    <2>1. c = ReadApple(s.addresses, s.domains)
        BY <1>1, <1>9 DEF Parsed
    <2>2. \E servers : c = [Default EXCEPT !.servers = servers, !.search = s.domains]
        BY <2>1 DEF ReadApple
    <2>3. /\ c = [servers |-> c.servers, search |-> c.search, ndots |-> c.ndots, hosts |-> <<>>]
          /\ c.ndots = Unset /\ c.search = s.domains
        BY <1>5, <2>2
    <2>4. PICK servers : servers = c.servers
        OBVIOUS
    <2>5. /\ servers \in Seq(Servers)
          /\ Range(servers) = {OnDnsPort(Ip[w]) : w \in Range(s.addresses) \cap DOMAIN Ip}
        BY <1>9, <2>1, <2>4, ResolversOfAppleAreRead
    <2>6. IsParsed(c)
        BY <1>9, <2>3, <2>4, <2>5 DEF IsParsed
    <2> QED
        BY <1>4, <1>9, <2>3, <2>4, <2>5, <2>6 DEF Means
<1>10. CASE platform = "android" /\ s.readable = TRUE /\ IsSource(platform, s)
    <2>1. c = ReadAndroid(s.arrays)
        BY <1>1, <1>10 DEF Parsed
    <2>2. \E servers : c = [Default EXCEPT !.servers = servers]
        BY <2>1 DEF ReadAndroid
    <2>3. /\ c = [servers |-> c.servers, search |-> c.search, ndots |-> c.ndots, hosts |-> <<>>]
          /\ c.ndots = Unset
        BY <1>5, <2>2
    <2>4. PICK servers : servers = c.servers
        OBVIOUS
    <2>5. /\ s.arrays \in Seq(Range(s.arrays))
          /\ \A a \in Range(s.arrays) : a.length \in {4, 16} => a.ip \in Range(Ip)
        BY <1>10 DEF IsSource
    <2>6. /\ servers \in Seq(Servers)
          /\ Range(servers) =
                 {OnDnsPort(a.ip) : a \in {a \in Range(s.arrays) : a.length \in {4, 16}}}
        BY <2>1, <2>4, <2>5, ArraysAreRead
    <2>7. IsParsed(c)
        BY <1>10, <2>3, <2>4, <2>6 DEF IsParsed
    <2> QED
        BY <1>4, <1>10, <2>3, <2>4, <2>6, <2>7 DEF Means
<1> QED
    BY <1>6, <1>7, <1>8, <1>9, <1>10, SystemConfigAssumption DEF IsHeld

\* A hosts file has entries whose addresses are addresses, and means them.
LEMMA FilesAreRead ==
    ASSUME NEW h \in HostsFiles, NEW config, config.hosts = EntriesOf(h)
    PROVE  MeansHosts(config, h) /\ \A entry \in Range(config.hosts) : entry.ip \in Range(Ip)
<1>1. CASE h = Unreadable
    <2>1. h.readable = FALSE /\ config.hosts = <<>>
        BY <1>1 DEF Unreadable, EntriesOf
    <2>2. Range(<<>>) = {}
        BY DEF Range
    <2> QED
        BY <2>1, <2>2, NoHostsAreRead
<1>2. CASE h.readable = TRUE /\ h.lines \in Seq(Seq(STRING))
    <2>1. config.hosts = ParseHosts(h)
        BY <1>2 DEF EntriesOf
    <2>2. MeansHosts(config, h) /\ config.hosts \in Seq(Entry)
        BY <1>2, <2>1, HostsAreRead
    <2>3. PICK entries \in Seq(Entry) : entries = config.hosts
        BY <2>2
    <2>4. \A i \in DOMAIN entries : entries[i] \in Entry
        OBVIOUS
    <2>5. \A entry \in Entry : entry.ip \in Range(Ip)
        BY DEF Entry, Range
    <2> QED
        BY <2>2, <2>3, <2>4, <2>5 DEF Range
<1> QED
    BY <1>1, <1>2, SystemConfigAssumption

\* The properties follow from what is known of each resolver.
LEMMA ReadingsAreMeant ==
    ASSUME Inv, ReadInv
    PROVE  TypeOK /\ RunsOnAReading
<1>0. platform \in DOMAIN Sources
    BY DEF ReadInv, SourceOK
<1>1. ASSUME NEW s, IsHeld(s)
      PROVE  ConfigOK(Parsed(s))
    <2>1. PICK c : c = Parsed(s)
        OBVIOUS
    <2>2. IsParsed(c)
        BY <1>0, <1>1, <2>1, SourcesAreRead
    <2>3. Range(c.servers) \subseteq Servers /\ c.hosts = <<>> /\ Range(<<>>) = {}
        BY <2>2 DEF IsParsed, Range
    <2> QED
        BY <2>1, <2>2, <2>3 DEF ConfigOK, IsParsed
<1>2. ASSUME NEW s, IsHeld(s), NEW h \in HostsFiles, NEW config,
             config = [Parsed(s) EXCEPT !.hosts = EntriesOf(h)]
      PROVE  ConfigOK(config) /\ Means(config, s) /\ MeansHosts(config, h)
    <2>1. PICK c : c = Parsed(s)
        OBVIOUS
    <2>2. PICK entries : entries = EntriesOf(h)
        OBVIOUS
    <2>3. config = [c EXCEPT !.hosts = entries]
        BY <1>2, <2>1, <2>2
    <2>4. IsParsed(c) /\ Means(config, s)
        BY <1>0, <1>2, <2>1, <2>3, SourcesAreRead
    <2>5. /\ config.hosts = entries /\ config.servers = c.servers
          /\ config.search = c.search /\ config.ndots = c.ndots
        BY <2>3, <2>4 DEF IsParsed
    <2>6. MeansHosts(config, h) /\ \A entry \in Range(config.hosts) : entry.ip \in Range(Ip)
        BY <2>2, <2>5, FilesAreRead
    <2>7. Range(c.servers) \subseteq Servers
        BY <2>4 DEF IsParsed, Range
    <2>8. ConfigOK(config)
        BY <2>4, <2>5, <2>6, <2>7 DEF ConfigOK, IsParsed
    <2> QED
        BY <2>4, <2>6, <2>8
<1>3. ASSUME NEW r \in DOMAIN resolver
      PROVE  LET x == resolver[r]
             IN /\ x.phase \in {"unbuilt", "reading", "listed", "configured", "opened", "built"}
                /\ x.phase \in {"configured", "opened", "built"} => ConfigOK(x.config)
                /\ x.phase = "built" =>
                      /\ Means(x.config, x.read)
                      /\ x.torn \/ IsVersion(x.read, seen[r].sources)
                      /\ MeansHosts(x.config, x.file)
                      /\ x.fileTorn \/ x.file \in seen[r].hosts
    <2>1. PICK x, versions, files :
             x = resolver[r] /\ versions = seen[r].sources /\ files = seen[r].hosts
        OBVIOUS
    <2>2. Stage(x, versions, files)
        BY <2>1 DEF ReadInv, ResolverOK
    <2>3. CASE x.phase \in {"unbuilt", "reading", "listed"}
        BY <2>1, <2>3
    <2>4. CASE x.phase \in {"configured", "opened"}
        <3>1. IsHeld(x.read) /\ x.config = Parsed(x.read)
            BY <2>2, <2>4 DEF Stage, HasRead
        <3>2. ConfigOK(x.config)
            BY <1>1, <3>1
        <3> QED
            BY <2>1, <2>4, <3>2
    <2>5. CASE x.phase = "built"
        <3>1. /\ IsHeld(x.read) /\ x.file \in HostsFiles
              /\ x.config = [Parsed(x.read) EXCEPT !.hosts = EntriesOf(x.file)]
            BY <2>2, <2>5 DEF Stage, HasRead
        <3>2. /\ x.torn \/ IsVersion(x.read, versions)
              /\ x.fileTorn \/ x.file \in files
            BY <2>2, <2>5 DEF Stage, HasRead
        <3>3. ConfigOK(x.config) /\ Means(x.config, x.read) /\ MeansHosts(x.config, x.file)
            BY <1>2, <3>1
        <3> QED
            BY <2>1, <2>5, <3>2, <3>3
    <2> QED
        BY <2>2, <2>3, <2>4, <2>5 DEF Stage
<1>4. DOMAIN seen = DOMAIN resolver
    <2>1. PICK S : seen \in Seq(S)
        BY DEF ReadInv
    <2>2. PICK T : resolver \in Seq(T)
        BY DEF Inv
    <2> QED
        BY <2>1, <2>2 DEF ReadInv
<1>5. \A t \in Task : task[t].pc \in {"idle", "waiting", "using"}
    BY DEF Inv, TaskOK
<1>6. TypeOK
    BY <1>3, <1>4, <1>5 DEF TypeOK, ReadInv, SourceOK
<1>7. RunsOnAReading
    BY <1>3 DEF RunsOnAReading
<1> QED
    BY <1>6, <1>7

\* A version there was stays one.
LEMMA VersionsStay ==
    ASSUME NEW s, NEW versions, NEW more, versions \subseteq more, IsVersion(s, versions)
    PROVE  IsVersion(s, more)
    BY DEF IsVersion

\* A stage stays what it is while there are more versions.
LEMMA StageStays ==
    ASSUME NEW x, NEW versions, NEW more, NEW files, NEW others,
           versions \subseteq more, files \subseteq others, Stage(x, versions, files)
    PROVE  Stage(x, more, others)
<1>1. \A s : IsVersion(s, versions) => IsVersion(s, more)
    BY VersionsStay
<1>2. HasRead(x, versions) => HasRead(x, more)
    BY <1>1 DEF HasRead
<1> QED
    BY <1>1, <1>2 DEF Stage

\* A stage is what it is on one platform.
LEMMA StageOfPlatform ==
    ASSUME NEW x, NEW versions, NEW files, Stage(x, versions, files), UNCHANGED platform
    PROVE  Stage(x, versions, files)'
<1>1. \A s : IsHeld(s)' <=> IsHeld(s)
    BY DEF IsHeld
<1>2. \A s, v : IsVersion(s, v)' <=> IsVersion(s, v)
    BY DEF IsVersion
<1>3. \A s : Parsed(s)' = Parsed(s)
    BY DEF Parsed
<1>4. HasRead(x, versions)' <=> HasRead(x, versions)
    BY <1>1, <1>2 DEF HasRead
<1> QED
    BY <1>1, <1>2, <1>3, <1>4 DEF Stage

\* What is known of a resolver is known after a step that leaves the platform, and by
\* which the resolver has got to a stage and seen the files as they are.
LEMMA ResolverStays ==
    ASSUME NEW r, NEW x, NEW versions, NEW files, UNCHANGED platform,
           resolver'[r] = x, seen'[r].sources = versions, seen'[r].hosts = files,
           source' \in versions, hosts' \in files, files \subseteq HostsFiles,
           \A s \in versions : IsHeld(s), Stage(x, versions, files)
    PROVE  ResolverOK(r)'
<1>1. \A s \in versions : IsHeld(s)'
    BY DEF IsHeld
<1>2. Stage(x, versions, files)'
    BY StageOfPlatform
<1> QED
    BY <1>1, <1>2 DEF ResolverOK, Stage, HasRead, IsVersion, Parsed, IsHeld

\* Whatever a file becomes, every resolver there is sees it, and keeps what it has.
LEMMA RewritesKeepReadInv ==
    ASSUME Inv, ReadInv, NEW file, NEW s, NEW h, Rewrites(file, s, h), IsHeld(s),
           h \in HostsFiles,
           s \in Sources[platform] \/ (platform = "unix" /\ Len(s.lines) <= MaxLines)
    PROVE  ReadInv'
<1>1. source' = s /\ hosts' = h /\ UNCHANGED <<platform, resolver>>
    BY DEF Rewrites
<1>2. seen' = [r \in DOMAIN seen |-> [sources |-> seen[r].sources \cup {s},
                                      hosts |-> seen[r].hosts \cup {h}]]
    BY DEF Rewrites, See
<1>3. PICK S : seen \in Seq(S)
    BY DEF ReadInv
<1>4. PICK n \in Nat : n = Len(seen) /\ DOMAIN seen = 1..n
    BY <1>3
<1>5. PICK T : T = {[sources |-> seen[r].sources \cup {s}, hosts |-> seen[r].hosts \cup {h}] : r \in 1..n}
    OBVIOUS
<1>6. seen' \in Seq(T) /\ Len(seen') = n
    <2>1. PICK g : g = [r \in 1..n |-> [sources |-> seen[r].sources \cup {s},
                                        hosts |-> seen[r].hosts \cup {h}]]
        OBVIOUS
    <2>2. \A r \in 1..n : g[r] \in T
        BY <1>5, <2>1
    <2>3. g \in Seq(T) /\ Len(g) = n
        BY <2>1, <2>2
    <2> QED
        BY <1>2, <1>4, <2>1, <2>3
<1>7. SourceOK'
    BY <1>1 DEF ReadInv, SourceOK, IsHeld
<1>8. PICK U : resolver \in Seq(U)
    BY DEF Inv
<1>9. DOMAIN resolver = 1..n
    BY <1>4, <1>8 DEF ReadInv
<1>10. ASSUME NEW r \in DOMAIN resolver
       PROVE  ResolverOK(r)'
    <2>1. ResolverOK(r) /\ r \in DOMAIN seen
        BY <1>4, <1>9 DEF ReadInv
    <2>2. PICK x, versions, files :
             x = resolver[r] /\ versions = seen[r].sources /\ files = seen[r].hosts
        OBVIOUS
    <2>3. PICK more, others : more = versions \cup {s} /\ others = files \cup {h}
        OBVIOUS
    <2>4. resolver'[r] = x /\ seen'[r].sources = more /\ seen'[r].hosts = others
        BY <1>1, <1>2, <2>1, <2>2, <2>3
    <2>5. /\ Stage(x, versions, files) /\ files \subseteq HostsFiles
          /\ \A v \in versions : IsHeld(v)
        BY <2>1, <2>2 DEF ResolverOK
    <2>6. Stage(x, more, others)
        BY <2>3, <2>5, StageStays
    <2>7. /\ source' \in more /\ hosts' \in others /\ others \subseteq HostsFiles
          /\ \A v \in more : IsHeld(v)
        BY <1>1, <2>3, <2>5
    <2> QED
        BY <1>1, <2>4, <2>6, <2>7, ResolverStays
<1> QED
    BY <1>1, <1>4, <1>6, <1>7, <1>10 DEF ReadInv

\* A resolver that is changed alone, to a stage there is.
LEMMA ReplacingKeepsReadInv ==
    ASSUME Inv, ReadInv, NEW r, NEW x, Replaced(r, x),
           Stage(x, seen[r].sources, seen[r].hosts)
    PROVE  ReadInv'
<1>1. /\ r \in DOMAIN resolver /\ resolver' = [resolver EXCEPT ![r] = x]
      /\ UNCHANGED <<platform, source, hosts, seen>>
    BY DEF Replaced
<1>2. SourceOK'
    BY <1>1 DEF ReadInv, SourceOK, IsHeld
<1>3. PICK S : resolver \in Seq(S)
    BY DEF Inv
<1>4. DOMAIN resolver' = DOMAIN resolver /\ Len(resolver') = Len(resolver)
    BY <1>1, <1>3
<1>5. ASSUME NEW q \in DOMAIN resolver
      PROVE  ResolverOK(q)'
    <2>1. PICK y, versions, files :
             y = resolver'[q] /\ versions = seen[q].sources /\ files = seen[q].hosts
        OBVIOUS
    <2>2. y = IF q = r THEN x ELSE resolver[q]
        BY <1>1, <1>3, <2>1
    <2>3. /\ source \in versions /\ hosts \in files /\ files \subseteq HostsFiles
          /\ \A s \in versions : IsHeld(s)
          /\ Stage(resolver[q], versions, files)
        BY <2>1 DEF ReadInv, ResolverOK
    <2>4. Stage(y, versions, files)
        <3>1. CASE q = r
            BY <2>1, <2>2, <3>1
        <3>2. CASE q # r
            BY <2>2, <2>3, <3>2
        <3> QED
            BY <3>1, <3>2
    <2>5. /\ resolver'[q] = y /\ seen'[q].sources = versions /\ seen'[q].hosts = files
          /\ source' \in versions /\ hosts' \in files
        BY <1>1, <2>1, <2>3
    <2> QED
        BY <1>1, <2>3, <2>4, <2>5, ResolverStays
<1>6. (\E T : seen \in Seq(T))' /\ (Len(seen) = Len(resolver))'
    BY <1>1, <1>4 DEF ReadInv
<1> QED
    BY <1>2, <1>4, <1>5, <1>6 DEF ReadInv

\* What Windows answers about the search list or the domain is of a version, if it is an
\* answer, and the rest of the reading is as it was.
LEMMA WindowsAnswers ==
    ASSUME NEW versions, source \in versions, \A v \in versions : IsHeld(v),
           platform = "windows", NEW y, IsHeld(y), y.readable, IsVersion(y, versions), NEW s,
           \/ \E list \in {<<>>} \cup (IF source.readable THEN {source.list} ELSE {}) :
                 s = [y EXCEPT !.list = list]
           \/ \E domain \in {NoDomain} \cup (IF source.readable THEN {source.domain} ELSE {}) :
                 s = [y EXCEPT !.domain = domain]
    PROVE  IsHeld(s) /\ s.readable /\ IsVersion(s, versions)
<1>1. PICK a, l, d : y = [readable |-> TRUE, adapters |-> a, list |-> l, domain |-> d]
    BY DEF IsHeld, IsSource, Unreadable
<1>2. /\ a \in Seq([up : BOOLEAN, servers : Seq(Range(Ip) \cup SiteLocal)])
      /\ l \in Seq(STRING)
    BY <1>1 DEF IsHeld, IsSource, Unreadable
<1>3. /\ \E v \in versions : v.readable /\ a = v.adapters
      /\ l = <<>> \/ \E v \in versions : v.readable /\ l = v.list
      /\ d = NoDomain \/ \E v \in versions : v.readable /\ d = v.domain
    <2>1. CASE y \in versions
        BY <1>1, <2>1
    <2>2. CASE y \notin versions
        BY <1>1, <2>2 DEF IsVersion
    <2> QED
        BY <2>1, <2>2
<1>4. ASSUME NEW list \in {<<>>} \cup (IF source.readable THEN {source.list} ELSE {}),
             s = [y EXCEPT !.list = list]
      PROVE  IsHeld(s) /\ s.readable /\ IsVersion(s, versions)
    <2>1. s = [readable |-> TRUE, adapters |-> a, list |-> list, domain |-> d]
        BY <1>1, <1>4
    <2>2. list = <<>> \/ (source.readable /\ list = source.list)
        OBVIOUS
    <2>3. list \in Seq(STRING)
        <3>1. IsHeld(source)
            OBVIOUS
        <3>2. source.readable => source.list \in Seq(STRING)
            BY <3>1 DEF IsHeld, IsSource, Unreadable
        <3>3. <<>> \in Seq(STRING)
            OBVIOUS
        <3> QED
            BY <2>2, <3>2, <3>3
    <2>4. IsHeld(s)
        BY <1>2, <2>1, <2>3 DEF IsHeld, IsSource
    <2>5. IsVersion(s, versions)
        BY <1>3, <2>1, <2>2 DEF IsVersion
    <2> QED
        BY <2>1, <2>4, <2>5
<1>5. ASSUME NEW domain \in {NoDomain} \cup (IF source.readable THEN {source.domain} ELSE {}),
             s = [y EXCEPT !.domain = domain]
      PROVE  IsHeld(s) /\ s.readable /\ IsVersion(s, versions)
    <2>1. s = [readable |-> TRUE, adapters |-> a, list |-> l, domain |-> domain]
        BY <1>1, <1>5
    <2>2. domain = NoDomain \/ (source.readable /\ domain = source.domain)
        OBVIOUS
    <2>3. IsHeld(s)
        BY <1>2, <2>1 DEF IsHeld, IsSource
    <2>4. IsVersion(s, versions)
        BY <1>3, <2>1, <2>2 DEF IsVersion
    <2> QED
        BY <2>1, <2>3, <2>4
<1> QED
    BY <1>4, <1>5

\* What a reading ends with is of a version, unless it is torn.
LEMMA ReadingsAreOfVersions ==
    ASSUME platform \in DOMAIN Sources, NEW versions, NEW files, source \in versions,
           \A v \in versions : IsHeld(v), NEW y, Stage(y, versions, files),
           \/ y.phase = "listed"
           \/ y.phase = "reading" /\ (platform # "windows" \/ ~y.read.readable),
           NEW s \in SourceReadings(y)
    PROVE  /\ IsHeld(s)
           /\ (platform = "unix" /\ y.since # writes.source) \/ IsVersion(s, versions)
<1>1. CASE y.phase = "listed"
    <2>1. /\ platform = "windows" /\ y.read.readable
          /\ IsHeld(y.read) /\ IsVersion(y.read, versions)
        BY <1>1 DEF Stage
    <2>2. PICK z : z = y.read
        OBVIOUS
    <2>3. \E domain \in {NoDomain} \cup (IF source.readable THEN {source.domain} ELSE {}) :
             s = [z EXCEPT !.domain = domain]
        BY <2>1, <2>2 DEF SourceReadings
    <2>4. /\ platform = "windows" /\ z.readable /\ IsHeld(z) /\ IsVersion(z, versions)
        BY <2>1, <2>2
    <2> QED
        BY <2>3, <2>4, WindowsAnswers
<1>2. CASE y.phase = "reading" /\ (platform # "windows" \/ ~y.read.readable)
    <2>1. y.read \in versions /\ IsHeld(y.read) /\ IsHeld(source)
        BY <1>2 DEF Stage
    <2>2. CASE platform = "unix" /\ y.read.readable /\ y.since # writes.source
        <3>1. s \in {y.read, source} \cup Torn
            BY <2>2 DEF SourceReadings
        <3>2. \A v \in Torn : IsHeld(v)
            BY <2>2, SystemConfigAssumption DEF IsHeld
        <3> QED
            BY <2>1, <2>2, <3>1, <3>2
    <2>3. CASE platform = "android" /\ y.read.readable /\ y.since # writes.source
        <3>1. s \in {y.read, source, Unreadable}
            BY <2>3 DEF SourceReadings
        <3> QED
            BY <2>1, <2>3, <3>1 DEF IsVersion, IsHeld
    <2>4. CASE ~(platform \in {"unix", "android"} /\ y.read.readable /\ y.since # writes.source)
        <3>1. s = y.read
            BY <1>2, <2>4 DEF SourceReadings
        <3> QED
            BY <2>1, <3>1 DEF IsVersion
    <2> QED
        BY <2>2, <2>3, <2>4
<1> QED
    BY <1>1, <1>2

\* A new resolver has seen the files as they are, and the others what they had.
LEMMA NewResolverKeepsReadInv ==
    ASSUME Inv, ReadInv, NewResolver
    PROVE  ReadInv'
<1>1. PICK x : x = [sources |-> {source}, hosts |-> {hosts}]
    OBVIOUS
<1>2. PICK y : y = Unbuilt
    OBVIOUS
<1>3. /\ resolver' = Append(resolver, y) /\ seen' = Append(seen, x)
      /\ UNCHANGED <<platform, source, hosts>>
    BY <1>1, <1>2 DEF NewResolver
<1>4. PICK S : seen \in Seq(S)
    BY DEF ReadInv
<1>5. PICK T : resolver \in Seq(T)
    BY DEF Inv
<1>6. PICK n \in Nat : n = Len(seen) /\ n = Len(resolver)
    BY <1>4 DEF ReadInv
<1>7. PICK U : U = S \cup {x}
    OBVIOUS
<1>8. PICK V : V = T \cup {y}
    OBVIOUS
<1>9. seen \in Seq(U) /\ resolver \in Seq(V) /\ x \in U /\ y \in V
    BY <1>4, <1>5, <1>7, <1>8
<1>10. /\ seen' \in Seq(U) /\ Len(seen') = n + 1
       /\ \A r \in 1..n : seen'[r] = seen[r]
       /\ seen'[n + 1] = x
    <2>1. PICK s \in Seq(U) : s = seen
        BY <1>9
    <2>2. PICK z : z = Append(s, x)
        OBVIOUS
    <2>3. z \in Seq(U) /\ Len(z) = n + 1 /\ (\A r \in 1..n : z[r] = s[r]) /\ z[n + 1] = x
        <3>1. n = Len(s)
            BY <1>6, <2>1
        <3>2. /\ z \in Seq(U) /\ Len(z) = Len(s) + 1
              /\ (\A r \in 1..Len(s) : z[r] = s[r]) /\ z[Len(s) + 1] = x
            BY <1>9, <2>2, AppendProperties
        <3> QED
            BY <3>1, <3>2
    <2> QED
        BY <1>3, <2>1, <2>2, <2>3
<1>11. /\ resolver' \in Seq(V) /\ Len(resolver') = n + 1
       /\ \A r \in 1..n : resolver'[r] = resolver[r]
       /\ resolver'[n + 1] = y
    BY <1>3, <1>6, <1>9, AppendProperties
<1>12. SourceOK'
    BY <1>3 DEF ReadInv, SourceOK, IsHeld
<1>13. ASSUME NEW r \in DOMAIN resolver'
       PROVE  ResolverOK(r)'
    <2>1. r \in 1..(n + 1)
        BY <1>11
    <2>2. PICK z, versions, files :
             z = resolver'[r] /\ versions = seen'[r].sources /\ files = seen'[r].hosts
        OBVIOUS
    <2>3. /\ source \in versions /\ hosts \in files /\ files \subseteq HostsFiles
          /\ \A s \in versions : IsHeld(s)
          /\ Stage(z, versions, files)
        <3>1. CASE r \in 1..n
            <4>1. ResolverOK(r)
                BY <1>5, <1>6, <3>1 DEF ReadInv
            <4>2. z = resolver[r] /\ versions = seen[r].sources /\ files = seen[r].hosts
                BY <1>10, <1>11, <2>2, <3>1
            <4> QED
                BY <4>1, <4>2 DEF ResolverOK
        <3>2. CASE r = n + 1
            <4>1. z.phase = "unbuilt"
                BY <1>2, <1>11, <2>2, <3>2 DEF Unbuilt
            <4>2. versions = {source} /\ files = {hosts}
                BY <1>1, <1>10, <2>2, <3>2
            <4>3. IsHeld(source) /\ hosts \in HostsFiles
                BY DEF ReadInv, SourceOK
            <4> QED
                BY <4>1, <4>2, <4>3 DEF Stage
        <3> QED
            BY <2>1, <3>1, <3>2
    <2> QED
        BY <1>3, <2>2, <2>3, ResolverStays
<1> QED
    BY <1>10, <1>11, <1>12, <1>13 DEF ReadInv

\* A step that leaves the files and the resolvers alone.
LEMMA FrameKeepsReadInv ==
    ASSUME ReadInv, UNCHANGED <<platform, source, hosts, seen, resolver>>
    PROVE  ReadInv'
<1>1. SourceOK'
    BY DEF ReadInv, SourceOK, IsHeld
<1>2. ASSUME NEW r \in DOMAIN resolver
      PROVE  ResolverOK(r)'
    <2>1. PICK x, versions, files :
             x = resolver[r] /\ versions = seen[r].sources /\ files = seen[r].hosts
        OBVIOUS
    <2>2. /\ source \in versions /\ hosts \in files /\ files \subseteq HostsFiles
          /\ \A s \in versions : IsHeld(s)
          /\ Stage(x, versions, files)
        BY <2>1 DEF ReadInv, ResolverOK
    <2>3. /\ resolver'[r] = x /\ seen'[r].sources = versions /\ seen'[r].hosts = files
          /\ source' \in versions /\ hosts' \in files
        BY <2>1, <2>2
    <2> QED
        BY <2>2, <2>3, ResolverStays
<1> QED
    BY <1>1, <1>2 DEF ReadInv

\* Every step keeps it.
LEMMA NextKeepsReadInv == Inv /\ ReadInv /\ [Next]_vars => ReadInv'
<1> SUFFICES ASSUME Inv, ReadInv, [Next]_vars
             PROVE  ReadInv'
    OBVIOUS
<1>0. /\ platform \in DOMAIN Sources /\ IsHeld(source) /\ hosts \in HostsFiles
      /\ source \in Sources[platform] \/ (platform = "unix" /\ Len(source.lines) <= MaxLines)
    BY DEF ReadInv, SourceOK
<1>1. CASE TruncateFile
    <2>1. PICK s : s = [readable |-> TRUE, lines |-> <<>>]
        OBVIOUS
    <2>2. platform = "unix" /\ Rewrites("source", s, hosts)
        BY <1>1, <2>1 DEF TruncateFile
    <2>3. IsHeld(s)
        <3>1. <<>> \in Seq(Seq(STRING))
            OBVIOUS
        <3> QED
            BY <2>1, <2>2, <3>1 DEF IsHeld, IsSource
    <2>4. Len(s.lines) <= MaxLines
        BY <2>1, SystemConfigAssumption
    <2> QED
        BY <1>0, <2>2, <2>3, <2>4, RewritesKeepReadInv
<1>2. CASE AppendLine
    <2>1. PICK line \in Lines :
             Rewrites("source", [source EXCEPT !.lines = Append(@, line)], hosts)
        BY <1>2 DEF AppendLine
    <2>2. PICK s : s = [source EXCEPT !.lines = Append(@, line)]
        OBVIOUS
    <2>3. platform = "unix" /\ source.readable /\ Len(source.lines) < MaxLines
        BY <1>2 DEF AppendLine
    <2>4. /\ source = [readable |-> TRUE, lines |-> source.lines]
          /\ source.lines \in Seq(Seq(STRING))
        BY <1>0, <2>3 DEF IsHeld, IsSource, Unreadable
    <2>5. PICK lines \in Seq(Seq(STRING)) : lines = source.lines
        BY <2>4
    <2>6. line \in Seq(STRING)
        BY SystemConfigAssumption
    <2>7. s = [readable |-> TRUE, lines |-> Append(lines, line)]
        <3>1. source = [readable |-> TRUE, lines |-> lines]
            BY <2>4, <2>5
        <3>2. PICK longer : longer = Append(lines, line)
            OBVIOUS
        <3>3. s = [source EXCEPT !.lines = longer]
            BY <2>2, <2>5, <3>2
        <3>4. s = [readable |-> TRUE, lines |-> longer]
            BY <3>1, <3>3
        <3> QED
            BY <3>2, <3>4
    <2>8. Append(lines, line) \in Seq(Seq(STRING)) /\ Len(Append(lines, line)) = Len(lines) + 1
        BY <2>6, AppendProperties
    <2>9. IsHeld(s)
        BY <2>3, <2>7, <2>8 DEF IsHeld, IsSource
    <2>10. Len(s.lines) <= MaxLines
        <3>1. MaxLines \in Nat /\ Len(lines) \in Nat
            BY SystemConfigAssumption
        <3> QED
            BY <2>3, <2>5, <2>7, <2>8, <3>1
    <2> QED
        BY <1>0, <2>1, <2>2, <2>3, <2>9, <2>10, RewritesKeepReadInv
<1>3. CASE ReplaceSource
    <2>1. PICK s \in Sources[platform] : Rewrites("source", s, hosts)
        BY <1>3 DEF ReplaceSource
    <2>2. IsHeld(s)
        BY <1>0, SystemConfigAssumption DEF IsHeld
    <2> QED
        BY <1>0, <2>1, <2>2, RewritesKeepReadInv
<1>4. CASE ReplaceHosts
    <2>1. PICK h \in HostsFiles : Rewrites("hosts", source, h)
        BY <1>4 DEF ReplaceHosts
    <2> QED
        BY <1>0, <2>1, RewritesKeepReadInv
<1>5. CASE NewResolver
    BY <1>5, NewResolverKeepsReadInv
<1>6. ASSUME NEW t \in Task, NEW r \in DOMAIN resolver, Use(t, r)
      PROVE  ReadInv'
    <2>1. UNCHANGED <<platform, source, hosts, seen, resolver>>
        BY <1>6 DEF Use
    <2> QED
        BY <2>1, FrameKeepsReadInv
<1>7. ASSUME NEW t \in Task, StartReading(t)
      PROVE  ReadInv'
    <2>1. PICK r, x : Replaced(r, x) /\ x.phase = "reading" /\ x.read = source
        BY <1>7, StartReadingReplaces
    <2>2. source \in seen[r].sources
        BY <2>1 DEF Replaced, ReadInv, ResolverOK
    <2>3. Stage(x, seen[r].sources, seen[r].hosts)
        BY <2>1, <2>2 DEF Stage
    <2> QED
        BY <2>1, <2>3, ReplacingKeepsReadInv
<1>8. ASSUME NEW t \in Task, ReadSearchList(t)
      PROVE  ReadInv'
    <2>1. PICK r, x :
             /\ Replaced(r, x)
             /\ resolver[r].phase = "reading" /\ resolver[r].read.readable
             /\ x.phase = "listed"
             /\ \E list \in {<<>>} \cup (IF source.readable THEN {source.list} ELSE {}) :
                   x.read = [resolver[r].read EXCEPT !.list = list]
        BY <1>8, ReadSearchListReplaces
    <2>2. PICK versions, files, y, s :
             /\ versions = seen[r].sources /\ files = seen[r].hosts
             /\ y = resolver[r].read /\ s = x.read
        OBVIOUS
    <2>3. /\ source \in versions /\ \A v \in versions : IsHeld(v)
          /\ Stage(resolver[r], versions, files)
        BY <2>1, <2>2 DEF Replaced, ReadInv, ResolverOK
    <2>4. y \in versions
        BY <2>1, <2>2, <2>3 DEF Stage
    <2>5. platform = "windows" /\ IsHeld(y) /\ y.readable /\ IsVersion(y, versions)
        BY <1>8, <2>1, <2>2, <2>3, <2>4, ReadSearchListReplaces DEF IsVersion
    <2>6. \E list \in {<<>>} \cup (IF source.readable THEN {source.list} ELSE {}) :
             s = [y EXCEPT !.list = list]
        BY <2>1, <2>2
    <2>7. IsHeld(s) /\ s.readable /\ IsVersion(s, versions)
        BY <2>3, <2>5, <2>6, WindowsAnswers
    <2>8. Stage(x, seen[r].sources, seen[r].hosts)
        BY <2>1, <2>2, <2>5, <2>7 DEF Stage
    <2> QED
        BY <2>1, <2>8, ReplacingKeepsReadInv
<1>9. ASSUME NEW t \in Task, FinishReading(t)
      PROVE  ReadInv'
    <2>1. PICK r, x, s :
             /\ Replaced(r, x)
             /\ \/ resolver[r].phase = "listed"
                \/ /\ resolver[r].phase = "reading"
                   /\ platform # "windows" \/ ~resolver[r].read.readable
             /\ s \in SourceReadings(resolver[r])
             /\ x.phase = "configured" /\ x.config = Parsed(s) /\ x.read = s
             /\ x.torn = (platform = "unix" /\ resolver[r].since # writes.source)
        BY <1>9, FinishReadingReplaces
    <2>2. PICK versions, files, y :
             versions = seen[r].sources /\ files = seen[r].hosts /\ y = resolver[r]
        OBVIOUS
    <2>3. /\ source \in versions /\ \A v \in versions : IsHeld(v)
          /\ Stage(y, versions, files)
        BY <2>1, <2>2 DEF Replaced, ReadInv, ResolverOK
    <2>4. /\ \/ y.phase = "listed"
             \/ y.phase = "reading" /\ (platform # "windows" \/ ~y.read.readable)
          /\ s \in SourceReadings(y)
        BY <2>1, <2>2
    <2>5. /\ IsHeld(s)
          /\ (platform = "unix" /\ y.since # writes.source) \/ IsVersion(s, versions)
        BY <1>0, <2>3, <2>4, ReadingsAreOfVersions
    <2>6. HasRead(x, versions)
        BY <2>1, <2>2, <2>5 DEF HasRead
    <2>7. Stage(x, seen[r].sources, seen[r].hosts)
        BY <2>1, <2>2, <2>6 DEF Stage
    <2> QED
        BY <2>1, <2>7, ReplacingKeepsReadInv
<1>10. ASSUME NEW t \in Task, OpenHosts(t)
       PROVE  ReadInv'
    <2>1. PICK r, x : /\ Replaced(r, x) /\ resolver[r].phase = "configured"
                      /\ x.phase = "opened" /\ x.config = resolver[r].config
                      /\ x.read = resolver[r].read /\ x.torn = resolver[r].torn
                      /\ x.file = hosts
        BY <1>10, OpenHostsReplaces
    <2>2. PICK versions, files, y :
             versions = seen[r].sources /\ files = seen[r].hosts /\ y = resolver[r]
        OBVIOUS
    <2>3. hosts \in files /\ Stage(y, versions, files)
        BY <2>1, <2>2 DEF Replaced, ReadInv, ResolverOK
    <2>4. HasRead(y, versions) /\ y.config = Parsed(y.read)
        BY <2>1, <2>2, <2>3 DEF Stage
    <2>5. HasRead(x, versions) /\ x.config = Parsed(x.read)
        BY <2>1, <2>2, <2>4 DEF HasRead
    <2>6. Stage(x, seen[r].sources, seen[r].hosts)
        BY <2>1, <2>2, <2>3, <2>5 DEF Stage
    <2> QED
        BY <2>1, <2>6, ReplacingKeepsReadInv
<1>11. ASSUME NEW t \in Task, ReadHosts(t)
       PROVE  ReadInv'
    <2>1. PICK r, x, h : /\ Replaced(r, x) /\ resolver[r].phase = "opened"
                         /\ h \in HostsReadings(resolver[r])
                         /\ x.phase = "built"
                         /\ x.config = [resolver[r].config EXCEPT !.hosts = EntriesOf(h)]
                         /\ x.read = resolver[r].read /\ x.torn = resolver[r].torn
                         /\ x.file = h
                         /\ x.fileTorn = (resolver[r].since # writes.hosts)
        BY <1>11, ReadHostsReplaces
    <2>2. PICK versions, files, y :
             versions = seen[r].sources /\ files = seen[r].hosts /\ y = resolver[r]
        OBVIOUS
    <2>3. files \subseteq HostsFiles /\ Stage(y, versions, files)
        BY <2>1, <2>2 DEF Replaced, ReadInv, ResolverOK
    <2>4. HasRead(y, versions) /\ y.config = Parsed(y.read) /\ y.file \in files
        BY <2>1, <2>2, <2>3 DEF Stage
    <2>5. HasRead(x, versions) /\ x.config = [Parsed(x.read) EXCEPT !.hosts = EntriesOf(x.file)]
        BY <2>1, <2>2, <2>4 DEF HasRead
    <2>6. h \in HostsFiles /\ (y.since # writes.hosts \/ h \in files)
        BY <1>0, <2>1, <2>2, <2>3, <2>4 DEF HostsReadings
    <2>7. x.fileTorn \/ x.file \in files
        BY <2>1, <2>2, <2>6
    <2>8. Stage(x, seen[r].sources, seen[r].hosts)
        BY <2>1, <2>2, <2>5, <2>6, <2>7 DEF Stage
    <2> QED
        BY <2>1, <2>8, ReplacingKeepsReadInv
<1>12. ASSUME NEW t \in Task, Take(t)
       PROVE  ReadInv'
    <2>1. UNCHANGED <<platform, source, hosts, seen, resolver>>
        BY <1>12 DEF Take
    <2> QED
        BY <2>1, FrameKeepsReadInv
<1>13. CASE UNCHANGED vars
    <2>1. UNCHANGED <<platform, source, hosts, seen, resolver>>
        BY <1>13 DEF vars
    <2> QED
        BY <2>1, FrameKeepsReadInv
<1> QED
    BY <1>1, <1>2, <1>3, <1>4, <1>5, <1>6, <1>7, <1>8, <1>9, <1>10, <1>11,
       <1>12, <1>13 DEF Next

\* Both invariants hold throughout: what tasks hold, and what resolvers were made of.
THEOREM SystemConfigInvariance == Spec => [](Inv /\ ReadInv)
<1>1. Init => Inv
    BY InitEstablishesInv
<1>2. Init => ReadInv
    <2> SUFFICES ASSUME Init
                 PROVE  ReadInv
        OBVIOUS
    <2>1. seen \in Seq({}) /\ seen = <<>> /\ resolver = <<>> /\ DOMAIN resolver = {}
        BY DEF Init
    <2>2. SourceOK
        BY SystemConfigAssumption DEF Init, SourceOK, IsHeld
    <2> QED
        BY <2>1, <2>2 DEF ReadInv
<1>3. Inv /\ ReadInv /\ [Next]_vars => Inv' /\ ReadInv'
    BY NextKeepsInv, NextKeepsReadInv
<1> QED
    BY <1>1, <1>2, <1>3, PTL DEF Spec

\* What a resolver runs on are addresses and names, never a placeholder that a file of
\* the system holds in their place, whatever is written and however it is read.
THEOREM ConfigurationsAreTyped == Spec => []TypeOK
<1>1. Inv /\ ReadInv => TypeOK
    BY ReadingsAreMeant
<1> QED
    BY <1>1, SystemConfigInvariance, PTL

\* A resolver runs on what it read, as the reader's grammar means it, and what it read
\* of a file that nobody wrote meanwhile is the file as it was at some moment since the
\* resolver was made. Of Windows each of the three answers is of such a moment.
THEOREM ResolversRunOnAReading == Spec => []RunsOnAReading
<1>1. Inv /\ ReadInv => RunsOnAReading
    BY ReadingsAreMeant
<1> QED
    BY <1>1, SystemConfigInvariance, PTL

=============================================================================
