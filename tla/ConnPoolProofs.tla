--------------------------- MODULE ConnPoolProofs ---------------------------
(***************************************************************************)
(* Proofs about ConnPool, for any number of queries, connections and keys  *)
(* and any cap and intervals: Inv is inductive, and every safety property  *)
(* follows from it.                                                        *)
(***************************************************************************)
EXTENDS ConnPool, FiniteSetTheorems, SequenceTheorems, TLAPS

-----------------------------------------------------------------------------
(* Sets of numbers, and what retain leaves.                                *)

\* The size of an interval.
LEMMA IntervalFacts ==
    ASSUME NEW n \in Nat
    PROVE  IsFiniteSet(1..n) /\ Cardinality(1..n) = n
    BY FS_Interval

\* The ranks of a finite set of numbers run from 1 to its size: each is taken once.
LEMMA RankFacts ==
    ASSUME NEW S, NEW n \in Nat, S \subseteq 1..n
    PROVE  /\ IsFiniteSet(S) /\ Cardinality(S) \in Nat
           /\ \A m \in 1..Cardinality(S) : Nth(S, m) \in S /\ Rank(S, Nth(S, m)) = m
<1>0. S \subseteq Nat
    OBVIOUS
<1>1. IsFiniteSet(S) /\ Cardinality(S) \in Nat
  <2>1. IsFiniteSet(1..n)
      BY FS_Interval
  <2>2. S \in SUBSET (1..n)
      OBVIOUS
  <2>3. IsFiniteSet(S)
      BY <2>1, <2>2, FS_Subset
  <2> QED
      BY <2>3, FS_CardinalityType
<1>2. ASSUME NEW i \in S
      PROVE  /\ IsFiniteSet({j \in S : j <= i})
             /\ Rank(S, i) \in 1..Cardinality(S)
  <2>1. PICK B : B = {j \in S : j <= i}
      OBVIOUS
  <2>2. B \in SUBSET S /\ i \in B
      BY <2>1
  <2>3. IsFiniteSet(B) /\ Cardinality(B) <= Cardinality(S)
      BY <1>1, <2>2, FS_Subset
  <2>4. Cardinality(B) \in Nat /\ Cardinality(B) # 0
      BY <2>2, <2>3, FS_CardinalityType, FS_EmptySet
  <2> QED
      BY <1>1, <2>1, <2>3, <2>4 DEF Rank
<1>3. ASSUME NEW i \in S, NEW j \in S, i < j
      PROVE  Rank(S, i) # Rank(S, j)
  <2>1. PICK A : A = {m \in S : m <= i}
      OBVIOUS
  <2>2. PICK B : B = {m \in S : m <= j}
      OBVIOUS
  <2>3. A \in SUBSET B /\ j \in B /\ j \notin A
    <3>1. i \in Nat /\ j \in Nat
        BY <1>0
    <3>2. \A m \in A : m \in S /\ m \in Nat /\ m <= i
        BY <1>0, <2>1
    <3>3. \A m \in A : m \in B
        BY <1>3, <2>2, <3>1, <3>2
    <3>4. j \in B /\ j \notin A
        BY <1>3, <2>2, <3>1, <3>2
    <3> QED
        BY <3>3, <3>4
  <2>4. IsFiniteSet(B)
      BY <1>2, <2>2
  <2>5. Cardinality(A) # Cardinality(B)
      BY <2>3, <2>4, FS_Subset
  <2> QED
      BY <2>1, <2>2, <2>5 DEF Rank
<1>4. PICK f : f = [i \in S |-> Rank(S, i)]
    OBVIOUS
<1>5. f \in [S -> 1..Cardinality(S)]
    BY <1>2, <1>4
<1>6. f \in Injection(S, 1..Cardinality(S))
  <2>1. \A i, j \in S : f[i] = f[j] => i = j
    <3> SUFFICES ASSUME NEW i \in S, NEW j \in S, i # j
                 PROVE  f[i] # f[j]
        OBVIOUS
    <3>1. i < j \/ j < i
        OBVIOUS
    <3> QED
        BY <1>3, <1>4, <3>1
  <2> QED
      BY <1>5, <2>1 DEF Injection, IsInjective
<1>7. IsFiniteSet(1..Cardinality(S)) /\ Cardinality(1..Cardinality(S)) = Cardinality(S)
    BY <1>1, FS_Interval
<1>8. f \in Surjection(S, 1..Cardinality(S))
    BY <1>6, <1>7, FS_Injection
<1>9. ASSUME NEW m \in 1..Cardinality(S)
      PROVE  \E i \in S : Rank(S, i) = m
    BY <1>4, <1>8 DEF Surjection
<1> QED
    BY <1>1, <1>9 DEF Nth

\* A finite set of numbers has a largest: the one of the last rank.
LEMMA MaxFacts ==
    ASSUME NEW S, NEW n \in Nat, S \subseteq 1..n, S # {}
    PROVE  Max(S) \in S /\ \A i \in S : i <= Max(S)
<1>1. /\ IsFiniteSet(S) /\ Cardinality(S) \in Nat
      /\ \A m \in 1..Cardinality(S) : Nth(S, m) \in S /\ Rank(S, Nth(S, m)) = m
    BY RankFacts
<1>2. Cardinality(S) # 0
    BY <1>1, FS_EmptySet
<1>7. PICK m \in 1..Cardinality(S) : m = Cardinality(S)
    BY <1>1, <1>2
<1>3. PICK x \in S : Rank(S, x) = Cardinality(S)
    BY <1>1, <1>7
<1>4. {j \in S : j <= x} = S
    BY <1>1, <1>3, FS_Subset DEF Rank
<1>5. \A i \in S : x >= i
    BY <1>4
<1>6. \E y \in S : \A i \in S : y >= i
    BY <1>5
<1> QED
    BY <1>6 DEF Max

Entry == [conn : Conn, age : Nat]

\* Each entry that is kept was there, is fresh and is kept once.
LEMMA KeptFacts ==
    ASSUME NEW entries \in Seq(Entry), NEW at, at = FreshAt(entries),
           NEW kept, kept = Kept(entries)
    PROVE  /\ kept \in Seq(Entry)
           /\ DOMAIN kept = 1..Cardinality(at) /\ Len(kept) <= Len(entries)
           /\ \A m \in DOMAIN kept :
                 Nth(at, m) \in at /\ kept[m] = entries[Nth(at, m)]
           /\ \A l, m \in DOMAIN kept : Nth(at, l) = Nth(at, m) => l = m
<1>1. at \subseteq 1..Len(entries) /\ Len(entries) \in Nat
    BY DEF FreshAt
<1>2. /\ IsFiniteSet(at) /\ Cardinality(at) \in Nat
      /\ \A m \in 1..Cardinality(at) : Nth(at, m) \in at /\ Rank(at, Nth(at, m)) = m
    BY <1>1, RankFacts
<1>3. kept = [m \in 1..Cardinality(at) |-> entries[Nth(at, m)]]
    BY DEF Kept
<1>4. DOMAIN kept = 1..Cardinality(at)
    BY <1>3
<1>5. \A m \in DOMAIN kept : Nth(at, m) \in at /\ kept[m] = entries[Nth(at, m)]
    BY <1>2, <1>3
<1>6. kept \in Seq(Entry)
  <2>1. \A m \in 1..Cardinality(at) : entries[Nth(at, m)] \in Entry
      BY <1>1, <1>2, ElementOfSeq
  <2>2. kept \in [1..Cardinality(at) -> Entry]
      BY <1>3, <2>1
  <2> QED
      BY <1>2, <2>2, SeqDef
<1>7. Len(kept) <= Len(entries)
  <2>1. IsFiniteSet(1..Len(entries)) /\ Cardinality(1..Len(entries)) = Len(entries)
      BY <1>1, IntervalFacts
  <2>2. at \in SUBSET (1..Len(entries))
      BY <1>1
  <2>3. Cardinality(at) <= Len(entries)
      BY <2>1, <2>2, FS_Subset
  <2>4. Len(kept) = Cardinality(at)
      BY <1>2, <1>4, <1>6
  <2> QED
      BY <2>3, <2>4
<1>8. \A l, m \in DOMAIN kept : Nth(at, l) = Nth(at, m) => l = m
    BY <1>2, <1>4
<1> QED
    BY <1>4, <1>5, <1>6, <1>7, <1>8

-----------------------------------------------------------------------------
(* Custody, of any pool I, connections C and queries Q.                    *)

Holds(Q, q) == Q[q].pc \in {"pooled", "fresh"}

\* What is pooled or held is open, and under its own key.
Kindred(I, C, Q) ==
    /\ \A k \in Key : \A i \in DOMAIN I[k] : /\ I[k][i].conn \in Conn
                                             /\ C[I[k][i].conn].state # "closed"
                                             /\ C[I[k][i].conn].key = k
    /\ \A q \in Query : Holds(Q, q) => /\ Q[q].conn \in Conn /\ Q[q].key \in Key
                                       /\ C[Q[q].conn].state # "closed"
                                       /\ C[Q[q].conn].key = Q[q].key

\* No connection is at two places, in two hands, or pooled and held.
Alone(I, Q) ==
    /\ \A k \in Key : \A i, j \in DOMAIN I[k] : I[k][i].conn = I[k][j].conn => i = j
    /\ \A q, r \in Query : Holds(Q, q) /\ Holds(Q, r) /\ Q[q].conn = Q[r].conn => q = r
    /\ \A q \in Query, k \in Key : \A i \in DOMAIN I[k] :
          Holds(Q, q) => I[k][i].conn # Q[q].conn

\* An open connection is pooled or held.
Found(I, C, Q) ==
    \A c \in Conn : C[c].state # "closed" =>
        \/ \E k \in Key : \E i \in DOMAIN I[k] : I[k][i].conn = c
        \/ \E q \in Query : Holds(Q, q) /\ Q[q].conn = c

InCustody(I, C, Q) == Kindred(I, C, Q) /\ Alone(I, Q) /\ Found(I, C, Q)

\* The connections C and D are open alike and under the same keys.
Alike(C, D) == \A c \in Conn : /\ D[c].state = "closed" <=> C[c].state = "closed"
                               /\ C[c].state # "closed" => D[c].key = C[c].key

\* Nothing that custody is about changes.
LEMMA Unmoved ==
    ASSUME NEW I, NEW J, NEW C, NEW D, NEW Q, NEW R, InCustody(I, C, Q), Alike(C, D),
           \A k \in Key : /\ DOMAIN J[k] = DOMAIN I[k]
                          /\ \A i \in DOMAIN I[k] : J[k][i].conn = I[k][i].conn,
           \A q \in Query : /\ Holds(R, q) <=> Holds(Q, q)
                            /\ Holds(Q, q) => R[q].conn = Q[q].conn /\ R[q].key = Q[q].key
    PROVE  InCustody(J, D, R)
<1>1. Kindred(J, D, R)
    BY DEF InCustody, Kindred, Alike
<1>2. Alone(J, R)
    BY DEF InCustody, Alone
<1>3. Found(J, D, R)
    BY DEF InCustody, Found, Alike
<1> QED
    BY <1>1, <1>2, <1>3 DEF InCustody

\* The entries of J are entries of I, each from a place of its own.
From(I, J, place) ==
    \A k \in Key :
        /\ \A i \in DOMAIN J[k] :
              place[k][i] \in DOMAIN I[k] /\ J[k][i].conn = I[k][place[k][i]].conn
        /\ \A i, j \in DOMAIN J[k] : place[k][i] = place[k][j] => i = j

Pooled(I, c) == \E k \in Key : \E i \in DOMAIN I[k] : I[k][i].conn = c
Leave(I, J, gone) == \A c \in Conn : c \in gone <=> Pooled(I, c) /\ ~Pooled(J, c)
Shut(C, D, gone) == \A c \in Conn : D[c] = IF c \in gone THEN Closed ELSE C[c]

\* Entries leave the pool, and their connections are closed.
LEMMA Thinned ==
    ASSUME NEW I, NEW J, NEW C, NEW D, NEW Q, NEW place, NEW gone, InCustody(I, C, Q),
           From(I, J, place), Leave(I, J, gone), Shut(C, D, gone)
    PROVE  InCustody(J, D, Q)
<1>0. \A c \in gone : c \in Conn => Pooled(I, c) /\ ~Pooled(J, c)
    BY DEF Leave
<1>1. Kindred(J, D, Q)
  <2>1. ASSUME NEW k \in Key, NEW i \in DOMAIN J[k]
        PROVE  /\ J[k][i].conn \in Conn
               /\ D[J[k][i].conn].state # "closed"
               /\ D[J[k][i].conn].key = k
    <3>1. PICK c : c = J[k][i].conn
        OBVIOUS
    <3>2. PICK h \in DOMAIN I[k] : I[k][h].conn = c
        BY <3>1 DEF From
    <3>3. c \in Conn /\ C[c].state # "closed" /\ C[c].key = k
        BY <3>2 DEF InCustody, Kindred
    <3>4. D[c] = C[c]
        BY <1>0, <3>1, <3>3 DEF Pooled, Shut
    <3> QED
        BY <3>1, <3>3, <3>4
  <2>2. ASSUME NEW q \in Query, Holds(Q, q)
        PROVE  /\ Q[q].conn \in Conn /\ Q[q].key \in Key
               /\ D[Q[q].conn].state # "closed"
               /\ D[Q[q].conn].key = Q[q].key
    <3>1. /\ Q[q].conn \in Conn /\ Q[q].key \in Key
          /\ C[Q[q].conn].state # "closed" /\ C[Q[q].conn].key = Q[q].key
        BY <2>2 DEF InCustody, Kindred
    <3>2. Q[q].conn \notin gone
        BY <1>0, <2>2, <3>1 DEF InCustody, Alone, Pooled
    <3> QED
        BY <3>1, <3>2 DEF Shut
  <2> QED
      BY <2>1, <2>2 DEF Kindred
<1>2. Alone(J, Q)
    BY DEF InCustody, Alone, From
<1>3. Found(J, D, Q)
  <2> SUFFICES ASSUME NEW c \in Conn, D[c].state # "closed",
                      ~\E k \in Key : \E i \in DOMAIN J[k] : J[k][i].conn = c
               PROVE  \E q \in Query : Holds(Q, q) /\ Q[q].conn = c
      BY DEF Found
  <2>1. c \notin gone
      BY DEF Closed, Shut
  <2>2. C[c].state # "closed" /\ ~\E k \in Key : \E i \in DOMAIN I[k] : I[k][i].conn = c
      BY <2>1 DEF Leave, Pooled, Shut
  <2> QED
      BY <2>2 DEF InCustody, Found
<1> QED
    BY <1>1, <1>2, <1>3 DEF InCustody

\* The last entry of a key goes into the hands of a query.
LEMMA Handed ==
    ASSUME NEW I, NEW J, NEW C, NEW D, NEW Q, NEW R, InCustody(I, C, Q), Alike(C, D),
           NEW k \in Key, NEW n \in Nat \ {0}, NEW q \in Query, ~Holds(Q, q),
           DOMAIN I[k] = 1..n, DOMAIN J[k] = 1..(n - 1),
           \A i \in 1..(n - 1) : J[k][i] = I[k][i],
           \A l \in Key \ {k} : J[l] = I[l],
           \A r \in Query \ {q} : R[r] = Q[r],
           Holds(R, q), R[q].conn = I[k][n].conn, R[q].key = k
    PROVE  InCustody(J, D, R)
<1>1. \A l \in Key : \A i \in DOMAIN J[l] : i \in DOMAIN I[l] /\ J[l][i] = I[l][i]
    OBVIOUS
<1>2. n \in DOMAIN I[k] /\ n \notin DOMAIN J[k]
    OBVIOUS
<1>3. \A r \in Query : Holds(R, r) => r = q \/ Holds(Q, r)
    BY DEF Holds
<1>4. Kindred(J, D, R)
    BY <1>1, <1>2, <1>3 DEF InCustody, Kindred, Alike
<1>5. Alone(J, R)
  <2>1. \A l \in Key : \A i, j \in DOMAIN J[l] : J[l][i].conn = J[l][j].conn => i = j
      BY <1>1 DEF InCustody, Alone
  <2>2. \A l \in Key : \A i \in DOMAIN J[l] : J[l][i].conn # R[q].conn
      BY <1>1, <1>2 DEF InCustody, Alone, Kindred
  <2>3. \A r \in Query, l \in Key : \A i \in DOMAIN J[l] :
           Holds(R, r) => J[l][i].conn # R[r].conn
      BY <1>1, <1>3, <2>2 DEF InCustody, Alone
  <2>4. \A r \in Query \ {q} : Holds(R, r) => R[r].conn # R[q].conn
      BY <1>2, <1>3 DEF InCustody, Alone
  <2>5. \A r, p \in Query : Holds(R, r) /\ Holds(R, p) /\ R[r].conn = R[p].conn => r = p
      BY <1>3, <2>4 DEF InCustody, Alone
  <2> QED
      BY <2>1, <2>3, <2>5 DEF Alone
<1>6. Found(J, D, R)
  <2> SUFFICES ASSUME NEW c \in Conn, C[c].state # "closed"
               PROVE  \/ \E l \in Key : \E i \in DOMAIN J[l] : J[l][i].conn = c
                      \/ \E r \in Query : Holds(R, r) /\ R[r].conn = c
      BY DEF Found, Alike
  <2>1. CASE \E l \in Key : \E i \in DOMAIN I[l] : I[l][i].conn = c
    <3>1. PICK l \in Key : \E i \in DOMAIN I[l] : I[l][i].conn = c
        BY <2>1
    <3>2. PICK i \in DOMAIN I[l] : I[l][i].conn = c
        BY <3>1
    <3>3. CASE l = k /\ i = n
        BY <3>2, <3>3
    <3>4. CASE ~(l = k /\ i = n)
      <4>1. i \in DOMAIN J[l] /\ J[l][i] = I[l][i]
          BY <3>2, <3>4
      <4> QED
          BY <3>2, <4>1
    <3> QED
        BY <3>3, <3>4
  <2>2. CASE \E r \in Query : Holds(Q, r) /\ Q[r].conn = c
      BY <2>2 DEF Holds
  <2> QED
      BY <2>1, <2>2 DEF InCustody, Found
<1> QED
    BY <1>4, <1>5, <1>6 DEF InCustody

\* A query lets go of its connection, which is closed.
LEMMA Released ==
    ASSUME NEW I, NEW C, NEW D, NEW Q, NEW R, InCustody(I, C, Q),
           NEW q \in Query, Holds(Q, q), ~Holds(R, q),
           \A r \in Query \ {q} : R[r] = Q[r],
           \A c \in Conn : D[c] = IF c = Q[q].conn THEN Closed ELSE C[c]
    PROVE  InCustody(I, D, R)
<1>1. \A r \in Query : Holds(R, r) => r # q /\ R[r] = Q[r] /\ Holds(Q, r)
    BY DEF Holds
<1>2. \A k \in Key : \A i \in DOMAIN I[k] : I[k][i].conn # Q[q].conn
    BY DEF InCustody, Alone
<1>3. \A r \in Query : Holds(R, r) => R[r].conn # Q[q].conn
    BY <1>1 DEF InCustody, Alone
<1>4. Kindred(I, D, R)
    BY <1>1, <1>2, <1>3 DEF InCustody, Kindred
<1>5. Alone(I, R)
    BY <1>1 DEF InCustody, Alone
<1>6. Found(I, D, R)
  <2> SUFFICES ASSUME NEW c \in Conn, D[c].state # "closed",
                      ~\E k \in Key : \E i \in DOMAIN I[k] : I[k][i].conn = c
               PROVE  \E r \in Query : Holds(R, r) /\ R[r].conn = c
      BY DEF Found
  <2>1. c # Q[q].conn /\ C[c].state # "closed"
      BY DEF Closed
  <2>2. PICK r \in Query : Holds(Q, r) /\ Q[r].conn = c
      BY <2>1 DEF InCustody, Found
  <2>3. r # q
      BY <2>1, <2>2
  <2> QED
      BY <2>2, <2>3 DEF Holds
<1> QED
    BY <1>4, <1>5, <1>6 DEF InCustody

\* A query's connection becomes the last entry of its key.
LEMMA Returned ==
    ASSUME NEW I, NEW J, NEW C, NEW D, NEW Q, NEW R, InCustody(I, C, Q), Alike(C, D),
           NEW q \in Query, Holds(Q, q), ~Holds(R, q),
           \A r \in Query \ {q} : R[r] = Q[r],
           NEW k \in Key, k = Q[q].key, NEW n \in Nat,
           DOMAIN I[k] = 1..n, DOMAIN J[k] = 1..(n + 1),
           \A i \in 1..n : J[k][i] = I[k][i],
           J[k][n + 1].conn = Q[q].conn,
           \A l \in Key \ {k} : J[l] = I[l]
    PROVE  InCustody(J, D, R)
<1>1. \A r \in Query : Holds(R, r) => r # q /\ R[r] = Q[r] /\ Holds(Q, r)
    BY DEF Holds
<1>2. \A l \in Key : \A i \in DOMAIN J[l] :
         \/ i \in DOMAIN I[l] /\ J[l][i] = I[l][i]
         \/ l = k /\ i = n + 1 /\ J[l][i].conn = Q[q].conn
    OBVIOUS
<1>3. \A l \in Key : \A i \in DOMAIN I[l] :
         i \in DOMAIN J[l] /\ J[l][i] = I[l][i] /\ I[l][i].conn # Q[q].conn
    BY DEF InCustody, Alone
<1>4. \A r \in Query : Holds(R, r) => R[r].conn # Q[q].conn
    BY <1>1 DEF InCustody, Alone
<1>5. Kindred(J, D, R)
    BY <1>1, <1>2 DEF InCustody, Kindred, Alike
<1>6. Alone(J, R)
  <2>1. \A l \in Key : \A i, j \in DOMAIN J[l] : J[l][i].conn = J[l][j].conn => i = j
      BY <1>2, <1>3 DEF InCustody, Alone
  <2>2. \A r \in Query, l \in Key : \A i \in DOMAIN J[l] :
           Holds(R, r) => J[l][i].conn # R[r].conn
      BY <1>1, <1>2, <1>4 DEF InCustody, Alone
  <2>3. \A r, p \in Query : Holds(R, r) /\ Holds(R, p) /\ R[r].conn = R[p].conn => r = p
      BY <1>1 DEF InCustody, Alone
  <2> QED
      BY <2>1, <2>2, <2>3 DEF Alone
<1>7. Found(J, D, R)
  <2> SUFFICES ASSUME NEW c \in Conn, C[c].state # "closed"
               PROVE  \/ \E l \in Key : \E i \in DOMAIN J[l] : J[l][i].conn = c
                      \/ \E r \in Query : Holds(R, r) /\ R[r].conn = c
      BY DEF Found, Alike
  <2>1. CASE \E l \in Key : \E i \in DOMAIN I[l] : I[l][i].conn = c
      BY <1>3, <2>1
  <2>2. CASE \E r \in Query : Holds(Q, r) /\ Q[r].conn = c
    <3>1. PICK r \in Query : Holds(Q, r) /\ Q[r].conn = c
        BY <2>2
    <3>2. CASE r = q
      <4>1. n + 1 \in DOMAIN J[k] /\ J[k][n + 1].conn = c
          BY <3>1, <3>2
      <4> QED
          BY <4>1
    <3>3. CASE r # q
        BY <3>1, <3>3 DEF Holds
    <3> QED
        BY <3>2, <3>3
  <2> QED
      BY <2>1, <2>2 DEF InCustody, Found
<1> QED
    BY <1>5, <1>6, <1>7 DEF InCustody

\* A query gets a connection that was closed, opened under its key.
LEMMA Dialed ==
    ASSUME NEW I, NEW C, NEW D, NEW Q, NEW R, InCustody(I, C, Q),
           NEW q \in Query, ~Holds(Q, q), Holds(R, q),
           NEW c \in Conn, C[c].state = "closed", D[c].state # "closed",
           R[q].conn = c, R[q].key \in Key, D[c].key = R[q].key,
           \A r \in Query \ {q} : R[r] = Q[r],
           \A d \in Conn \ {c} : D[d] = C[d]
    PROVE  InCustody(I, D, R)
<1>1. \A r \in Query : Holds(R, r) => r = q \/ (R[r] = Q[r] /\ Holds(Q, r))
    BY DEF Holds
<1>2. /\ \A k \in Key : \A i \in DOMAIN I[k] : I[k][i].conn # c
      /\ \A r \in Query : Holds(Q, r) => Q[r].conn # c
    BY DEF InCustody, Kindred
<1>3. Kindred(I, D, R)
    BY <1>1, <1>2 DEF InCustody, Kindred
<1>4. Alone(I, R)
    BY <1>1, <1>2 DEF InCustody, Alone
<1>5. Found(I, D, R)
  <2> SUFFICES ASSUME NEW d \in Conn, D[d].state # "closed"
               PROVE  \/ \E k \in Key : \E i \in DOMAIN I[k] : I[k][i].conn = d
                      \/ \E r \in Query : Holds(R, r) /\ R[r].conn = d
      BY DEF Found
  <2>1. CASE d = c
      BY <2>1
  <2>2. CASE d # c
      BY <2>2 DEF InCustody, Found, Holds
  <2> QED
      BY <2>1, <2>2
<1> QED
    BY <1>3, <1>4, <1>5 DEF InCustody

-----------------------------------------------------------------------------
(* The invariant.                                                          *)

\* What PoolAssumption says of each constant.
LEMMA Constants == /\ MaxIdlePerKey \in Nat \ {0}
                   /\ IdleTimeout \in Nat \ {0}
                   /\ PruneInterval \in Nat \ {0}
    BY PoolAssumption

OpenConn == [state : {"open", "reset"}, key : Key, owed : SUBSET Query, frames : Seq(Query),
             stray : BOOLEAN]

PoolTyped(I) == /\ I \in [Key -> Seq(Entry)]
                /\ \A k \in Key : Len(I[k]) <= MaxIdlePerKey
ConnTyped(C) == C \in [Conn -> {Closed} \cup OpenConn]
QueryTyped(Q) ==
    /\ Q = [q \in Query |-> Q[q]]
    /\ \A q \in Query :
          /\ Q[q].pc \in {"unused", "pooled", "dialing", "fresh", "answered", "failed", "dropped"}
          /\ Q[q].pc \in {"pooled", "fresh"} => Q[q].conn \in Conn
          /\ Q[q].pc \in {"pooled", "dialing", "fresh"} => Q[q].key \in Key
PrunerTyped(P) == P \in [pc : {"unborn", "gone"}] \cup [pc : {"asleep"}, left : 0..PruneInterval]

Typed == /\ PoolTyped(idle) /\ ConnTyped(conn) /\ QueryTyped(query) /\ PrunerTyped(pruner)
         /\ pool \in {"alive", "dropped"}

\* While a connection is pooled the pruning task sleeps, and wakes in time for it.
AgesOK == \A k \in Key : \A i \in DOMAIN idle[k] :
             /\ pruner.pc = "asleep"
             /\ idle[k][i].age + pruner.left < IdleTimeout + PruneInterval

\* A dropped pool has no connections and no queries; the task ends after its pool only.
DroppedOK == /\ pool = "dropped" => /\ \A k \in Key : idle[k] = <<>>
                                    /\ \A q \in Query : ~InFlight(q)
             /\ pruner.pc = "gone" => pool = "dropped"

\* A query on a fresh connection, or one that failed, has dialed once.
DialsOK == \A q \in Query : query[q].pc \in {"fresh", "failed"} => query[q].dials = 1

Inv == Typed /\ InCustody(idle, conn, query) /\ AgesOK /\ DroppedOK /\ DialsOK

\* Closing connections closes those and no others.
LEMMA ClosingFacts ==
    ASSUME ConnTyped(conn), NEW cs
    PROVE  ConnTyped(Closing(cs)) /\ Shut(conn, Closing(cs), cs)
    BY DEF ConnTyped, Closing, Shut

\* A connection that is open stays so, under its key, when its frames or what it owes
\* change.
LEMMA TouchedFacts ==
    ASSUME NEW C, ConnTyped(C), NEW c \in Conn, C[c].state # "closed",
           NEW x \in OpenConn, x.key = C[c].key, NEW D, D = [C EXCEPT ![c] = x]
    PROVE  ConnTyped(D) /\ Alike(C, D)
<1>1. ConnTyped(D)
    BY DEF ConnTyped
<1>2. x.state # "closed"
    BY DEF OpenConn
<1> QED
    BY <1>1, <1>2 DEF Alike, ConnTyped

\* What an open connection is.
LEMMA OpenFacts ==
    ASSUME NEW C, ConnTyped(C), NEW c \in Conn, C[c].state # "closed"
    PROVE  C[c] \in OpenConn
    BY DEF ConnTyped, Closed

\* A step of one query gives it a new record.
LEMMA QueryFacts ==
    ASSUME QueryTyped(query), NEW q \in Query, NEW x, query' = [query EXCEPT ![q] = x],
           x.pc \in {"unused", "pooled", "dialing", "fresh", "answered", "failed", "dropped"},
           x.pc \in {"pooled", "fresh"} => x.conn \in Conn,
           x.pc \in {"pooled", "dialing", "fresh"} => x.key \in Key
    PROVE  /\ QueryTyped(query')
           /\ query'[q] = x
           /\ \A r \in Query \ {q} : query'[r] = query[r]
<1>1. query' = [r \in Query |-> IF r = q THEN x ELSE query[r]]
    BY DEF QueryTyped
<1> QED
    BY <1>1 DEF QueryTyped

-----------------------------------------------------------------------------
(* The actions of a query.                                                 *)

\* A key keeps its n oldest entries, and the connections of the others are closed.
Cut(k, n) == [idle EXCEPT ![k] = SubSeq(idle[k], 1, n)]
Beyond(k, n) == {idle[k][i].conn : i \in {j \in DOMAIN idle[k] : j > n}}

\* Cutting a key's entries keeps custody.
LEMMA CutFacts ==
    ASSUME Inv, NEW k \in Key, NEW n \in 0..Len(idle[k])
    PROVE  /\ PoolTyped(Cut(k, n)) /\ DOMAIN Cut(k, n)[k] = 1..n
           /\ \A i \in 1..n : Cut(k, n)[k][i] = idle[k][i]
           /\ \A l \in Key \ {k} : Cut(k, n)[l] = idle[l]
           /\ ConnTyped(Closing(Beyond(k, n)))
           /\ InCustody(Cut(k, n), Closing(Beyond(k, n)), query)
<1>15. PICK J : J = Cut(k, n)
    OBVIOUS
<1>16. PICK cs : cs = Beyond(k, n)
    OBVIOUS
<1>1. PoolTyped(idle) /\ ConnTyped(conn) /\ InCustody(idle, conn, query)
    BY DEF Inv, Typed
<1>2. PICK s \in Seq(Entry) : s = idle[k]
    BY <1>1 DEF PoolTyped
<1>3. PICK t : t = SubSeq(s, 1, n)
    OBVIOUS
<1>4. /\ Len(s) \in Nat /\ DOMAIN s = 1..Len(s) /\ n \in 0..Len(s)
      /\ \A i \in 1..n : s[i] \in Entry
    BY <1>2
<1>5. /\ t \in Seq(Entry) /\ Len(t) = n
      /\ \A i \in 1..n : t[i] = s[i]
    BY <1>3, <1>4, SubSeqProperties
<1>6. DOMAIN t = 1..n
    BY <1>4, <1>5, LenProperties
<1>7. J[k] = t /\ \A l \in Key \ {k} : J[l] = idle[l]
    BY <1>1, <1>2, <1>3, <1>15 DEF PoolTyped, Cut
<1>8. PoolTyped(J)
    BY <1>1, <1>2, <1>3, <1>4, <1>5, <1>7, <1>15, Constants DEF PoolTyped, Cut
<1>9. PICK place : place = [l \in Key |-> [i \in Nat |-> i]]
    OBVIOUS
<1>10. /\ \A l \in Key : \A i \in DOMAIN J[l] : i \in Nat /\ i \in DOMAIN idle[l] /\ J[l][i] = idle[l][i]
  <2> SUFFICES ASSUME NEW l \in Key, NEW i \in DOMAIN J[l]
               PROVE  i \in Nat /\ i \in DOMAIN idle[l] /\ J[l][i] = idle[l][i]
      OBVIOUS
  <2>1. CASE l = k
      BY <1>2, <1>4, <1>5, <1>6, <1>7, <2>1
  <2>2. CASE l # k
    <3>1. idle[l] \in Seq(Entry) /\ J[l] = idle[l]
        BY <1>1, <1>7, <2>2 DEF PoolTyped
    <3> QED
        BY <3>1, LenProperties
  <2> QED
      BY <2>1, <2>2
<1>11. Leave(idle, J, cs)
  <2> SUFFICES ASSUME NEW c \in Conn
               PROVE  c \in cs <=> Pooled(idle, c) /\ ~Pooled(J, c)
      BY DEF Leave
  <2>0. cs = {idle[k][i].conn : i \in {j \in DOMAIN idle[k] : j > n}}
      BY <1>16 DEF Beyond
  <2>1. ASSUME c \in cs
        PROVE  Pooled(idle, c) /\ ~Pooled(J, c)
    <3>1. PICK j \in DOMAIN idle[k] : j > n /\ idle[k][j].conn = c
        BY <2>0, <2>1
    <3>6. Pooled(idle, c)
        BY <3>1 DEF Pooled
    <3>2. SUFFICES ASSUME NEW l \in Key, NEW i \in DOMAIN J[l], J[l][i].conn = c
                   PROVE  FALSE
        BY <3>6 DEF Pooled
    <3>3. i \in DOMAIN idle[l] /\ idle[l][i].conn = c
        BY <1>10, <3>2
    <3>4. l = k
        BY <1>1, <3>1, <3>3 DEF InCustody, Kindred
    <3>5. i = j
        BY <1>1, <3>1, <3>3, <3>4 DEF InCustody, Alone
    <3> QED
        BY <1>2, <1>4, <1>6, <1>7, <3>1, <3>2, <3>4, <3>5
  <2>2. ASSUME NEW l \in Key, NEW i \in DOMAIN idle[l], idle[l][i].conn = c,
               ~\E m \in Key : \E j \in DOMAIN J[m] : J[m][j].conn = c
        PROVE  c \in cs
    <3>1. l = k
        BY <1>7, <2>2
    <3>2. i > n
      <4>1. i \in 1..Len(s)
          BY <1>2, <1>4, <2>2, <3>1
      <4>2. SUFFICES ASSUME i <= n
                     PROVE  FALSE
          BY <1>4, <4>1
      <4>3. i \in 1..n
          BY <1>4, <4>1, <4>2
      <4>4. i \in DOMAIN J[k] /\ J[k][i] = idle[k][i]
          BY <1>2, <1>5, <1>6, <1>7, <4>3
      <4> QED
          BY <2>2, <3>1, <4>4
    <3> QED
        BY <2>0, <2>2, <3>1, <3>2
  <2> QED
      BY <2>1, <2>2 DEF Pooled
<1>12. ConnTyped(Closing(cs)) /\ Shut(conn, Closing(cs), cs)
    BY <1>1, ClosingFacts
<1>13. From(idle, J, place)
    BY <1>9, <1>10 DEF From
<1>14. InCustody(J, Closing(cs), query)
    BY <1>1, <1>11, <1>12, <1>13, Thinned
<1> QED
    BY <1>2, <1>5, <1>6, <1>7, <1>8, <1>12, <1>14, <1>15, <1>16

\* A connection is taken or dialed for: what is skipped is stale and closed.
LEMMA CheckoutKeepsInv ==
    ASSUME Inv, NEW q \in Query, NEW k \in Key, Checkout(q, k)
    PROVE  Inv'
<1>1. /\ PoolTyped(idle) /\ ConnTyped(conn) /\ QueryTyped(query) /\ PrunerTyped(pruner)
      /\ pool = "alive" /\ ~InFlight(q) /\ pool' = pool /\ pruner' = pruner
    BY DEF Inv, Typed, Checkout, InFlight
<1>2. PICK i : i = Taken(k)
    OBVIOUS
<1>3. PICK n \in Nat : n = Len(idle[k]) /\ DOMAIN idle[k] = 1..n
    BY <1>1 DEF PoolTyped
<1>4. PICK cs : cs = Discarded(k)
    OBVIOUS
<1>5. cs = Beyond(k, i)
    BY <1>2, <1>4 DEF Discarded, Beyond
<1>6. idle' = [idle EXCEPT ![k] = SubSeq(idle[k], 1, i - 1)]
    BY <1>1, <1>2 DEF Checkout, PoolTyped
<1>7. i \in 0..n /\ (i = 0 \/ i \in 1..n)
  <2>1. CASE FreshAt(idle[k]) = {}
      BY <1>2, <2>1 DEF Taken
  <2>2. CASE FreshAt(idle[k]) # {}
    <3>1. FreshAt(idle[k]) \subseteq 1..n
        BY <1>3 DEF FreshAt
    <3> QED
        BY <1>2, <2>2, <3>1, MaxFacts DEF Taken
  <2> QED
      BY <2>1, <2>2
<1>8. PICK J : J = Cut(k, i)
    OBVIOUS
<1>9. PICK C : C = Closing(cs)
    OBVIOUS
<1>10. /\ PoolTyped(J) /\ DOMAIN J[k] = 1..i
       /\ \A m \in 1..i : J[k][m] = idle[k][m]
       /\ \A l \in Key \ {k} : J[l] = idle[l]
       /\ ConnTyped(C)
       /\ InCustody(J, C, query)
  <2>1. i \in 0..Len(idle[k])
      BY <1>3, <1>7
  <2> QED
      BY <1>5, <1>8, <1>9, <2>1, CutFacts
<1>11. CASE i = 0
  <2>1. PICK x : x = [pc |-> "dialing", key |-> k, dials |-> 0]
      OBVIOUS
  <2>2. query' = [query EXCEPT ![q] = x] /\ conn' = C
      BY <1>2, <1>4, <1>9, <1>11, <2>1 DEF Checkout
  <2>3. /\ QueryTyped(query') /\ query'[q] = x
        /\ \A r \in Query \ {q} : query'[r] = query[r]
      BY <1>1, <2>1, <2>2, QueryFacts
  <2>4. idle' = J
    <3>1. SubSeq(idle[k], 1, i - 1) = <<>> /\ SubSeq(idle[k], 1, i) = <<>>
        BY <1>11, SubSeqEmpty
    <3> QED
        BY <1>6, <1>8, <3>1 DEF Cut
  <2>5. InCustody(idle', conn', query')
    <3>1. \A r \in Query : /\ Holds(query', r) <=> Holds(query, r)
                           /\ Holds(query, r) => /\ query'[r].conn = query[r].conn
                                                 /\ query'[r].key = query[r].key
        BY <1>1, <2>1, <2>3 DEF Holds, InFlight
    <3>2. Alike(C, C)
        BY DEF Alike
    <3> QED
        BY <1>10, <2>2, <2>4, <3>1, <3>2, Unmoved
  <2>6. AgesOK'
    <3>1. \A l \in Key : \A m \in DOMAIN J[l] : m \in DOMAIN idle[l] /\ J[l][m] = idle[l][m]
        BY <1>3, <1>7, <1>10
    <3> QED
        BY <1>1, <2>4, <3>1 DEF Inv, AgesOK
  <2>7. DroppedOK' /\ DialsOK'
      BY <1>1, <2>1, <2>3 DEF Inv, DroppedOK, DialsOK
  <2> QED
      BY <1>1, <1>10, <2>2, <2>3, <2>4, <2>5, <2>6, <2>7 DEF Inv, Typed
<1>12. CASE i \in 1..n
  <2>1. PICK c : c = idle[k][i].conn
      OBVIOUS
  <2>2. PICK x : x = [pc |-> "pooled", key |-> k, dials |-> 0, conn |-> c]
      OBVIOUS
  <2>3. query' = [query EXCEPT ![q] = x] /\ conn' = Writing(C, c, q)
      BY <1>2, <1>4, <1>9, <1>12, <2>1, <2>2 DEF Checkout
  <2>4. J[k][i].conn = c /\ c \in Conn /\ C[c].state # "closed"
      BY <1>10, <1>12, <2>1 DEF InCustody, Kindred
  <2>5. /\ QueryTyped(query') /\ query'[q] = x
        /\ \A r \in Query \ {q} : query'[r] = query[r]
    <3>1. x.pc = "pooled" /\ x.conn \in Conn /\ x.key \in Key
        BY <2>2, <2>4
    <3> QED
        BY <1>1, <2>3, <3>1, QueryFacts
  <2>6. ConnTyped(conn') /\ Alike(C, conn')
    <3>1. C[c] \in OpenConn
        BY <1>10, <2>4, OpenFacts
    <3>2. PICK y : y = [C[c] EXCEPT !.owed = @ \cup {q}]
        OBVIOUS
    <3>3. y = [state |-> C[c].state, key |-> C[c].key, owed |-> C[c].owed \cup {q},
               frames |-> C[c].frames, stray |-> C[c].stray]
        BY <3>1, <3>2 DEF OpenConn
    <3>4. y \in OpenConn /\ y.key = C[c].key
        BY <3>1, <3>3 DEF OpenConn
    <3>5. conn' = [C EXCEPT ![c] = y]
        BY <1>10, <2>3, <2>4, <3>2 DEF Writing, ConnTyped
    <3> QED
        BY <1>10, <2>4, <3>4, <3>5, TouchedFacts
  <2>7. /\ DOMAIN idle'[k] = 1..(i - 1)
        /\ \A m \in 1..(i - 1) : idle'[k][m] = J[k][m]
        /\ \A l \in Key \ {k} : idle'[l] = J[l]
        /\ PoolTyped(idle')
    <3>1. i - 1 \in 0..Len(idle[k])
        BY <1>3, <1>12
    <3>4. PICK h \in 0..Len(idle[k]) : h = i - 1
        BY <3>1
    <3>5. PICK K : K = Cut(k, h)
        OBVIOUS
    <3>7. /\ PoolTyped(K) /\ DOMAIN K[k] = 1..h
          /\ \A m \in 1..h : K[k][m] = idle[k][m]
          /\ \A l \in Key \ {k} : K[l] = idle[l]
        BY <3>5, CutFacts
    <3>3. /\ PoolTyped(idle') /\ DOMAIN idle'[k] = 1..(i - 1)
          /\ \A m \in 1..(i - 1) : idle'[k][m] = idle[k][m]
          /\ \A l \in Key \ {k} : idle'[l] = idle[l]
        BY <1>6, <3>4, <3>5, <3>7 DEF Cut
    <3> QED
        BY <1>10, <1>12, <3>3
  <2>8. InCustody(idle', conn', query')
    <3>1. ~Holds(query, q) /\ Holds(query', q)
        BY <1>1, <2>2, <2>5 DEF Holds, InFlight
    <3>2. i \in Nat \ {0} /\ query'[q].conn = J[k][i].conn /\ query'[q].key = k
        BY <1>12, <2>2, <2>4, <2>5
    <3>3. PICK n1 \in Nat \ {0} : n1 = i
        BY <3>2
    <3>4. PICK K : K = idle'
        OBVIOUS
    <3>5. /\ DOMAIN J[k] = 1..n1 /\ DOMAIN K[k] = 1..(n1 - 1)
          /\ \A m \in 1..(n1 - 1) : K[k][m] = J[k][m]
          /\ \A l \in Key \ {k} : K[l] = J[l]
        BY <1>10, <2>7, <3>3, <3>4
    <3>6. query'[q].conn = J[k][n1].conn
        BY <3>2, <3>3
    <3>7. InCustody(K, conn', query')
        BY <1>10, <2>5, <2>6, <3>1, <3>2, <3>5, <3>6, Handed
    <3> QED
        BY <3>4, <3>7
  <2>9. AgesOK'
    <3>1. ASSUME NEW l \in Key, NEW m \in DOMAIN idle'[l]
          PROVE  m \in DOMAIN idle[l] /\ idle'[l][m] = idle[l][m]
      <4>1. CASE l = k
        <5>1. m \in 1..(i - 1) /\ m \in 1..i /\ m \in 1..n
            BY <1>12, <2>7, <4>1
        <5> QED
            BY <1>3, <1>10, <2>7, <4>1, <5>1
      <4>2. CASE l # k
          BY <1>10, <2>7, <4>2
      <4> QED
          BY <4>1, <4>2
    <3> QED
        BY <1>1, <3>1 DEF Inv, AgesOK
  <2>10. DroppedOK' /\ DialsOK'
      BY <1>1, <2>2, <2>5 DEF Inv, DroppedOK, DialsOK
  <2> QED
      BY <1>1, <2>5, <2>6, <2>7, <2>8, <2>9, <2>10 DEF Inv, Typed
<1> QED
    BY <1>7, <1>11, <1>12

\* A query that has read its answer puts its connection back, over the cap in the
\* place of the oldest.
LEMMA ReadAnswerKeepsInv ==
    ASSUME Inv, NEW q \in Query, ReadAnswer(q)
    PROVE  Inv'
<1>1. /\ PoolTyped(idle) /\ ConnTyped(conn) /\ QueryTyped(query) /\ PrunerTyped(pruner)
      /\ InCustody(idle, conn, query) /\ Framing(q) /\ Holds(query, q) /\ pool' = pool
    BY DEF Inv, Typed, ReadAnswer, Framing, Holds
<1>2. PICK c : c = query[q].conn
    OBVIOUS
<1>3. PICK k : k = query[q].key
    OBVIOUS
<1>4. c \in Conn /\ k \in Key /\ conn[c].state # "closed" /\ conn[c] \in OpenConn
    BY <1>1, <1>2, <1>3, OpenFacts DEF InCustody, Kindred
<1>5. PICK e : e = [conn |-> c, age |-> 0]
    OBVIOUS
<1>6. PICK s \in Seq(Entry) : s = idle[k]
    BY <1>1, <1>4 DEF PoolTyped
<1>7. PICK n \in Nat : n = Len(s) /\ DOMAIN s = 1..n
    OBVIOUS
<1>8. PICK grown : grown = Append(s, e)
    OBVIOUS
<1>9. /\ e \in Entry
      /\ grown \in Seq(Entry) /\ grown # <<>> /\ Len(grown) = n + 1 /\ DOMAIN grown = 1..(n + 1)
      /\ \A i \in 1..n : grown[i] = s[i]
      /\ grown[n + 1] = e
  <2>1. e \in Entry
      BY <1>4, <1>5 DEF Entry
  <2>2. /\ grown \in Seq(Entry) /\ grown # <<>> /\ Len(grown) = n + 1
        /\ \A i \in 1..n : grown[i] = s[i]
        /\ grown[n + 1] = e
      BY <1>7, <1>8, <2>1, AppendProperties
  <2>3. DOMAIN grown = 1..(n + 1)
      BY <2>2, LenProperties
  <2> QED
      BY <2>1, <2>2, <2>3
<1>10. PICK f \in Seq(Query) : conn[c].frames # <<>> /\ f = Tail(conn[c].frames)
  <2>1. conn[c].frames \in Seq(Query) /\ conn[c].frames # <<>>
      BY <1>2, <1>4 DEF ReadAnswer, OpenConn
  <2> QED
      BY <2>1, HeadTailProperties
<1>11. PICK y : y = [conn[c] EXCEPT !.frames = f]
    OBVIOUS
<1>12. PICK read : read = [conn EXCEPT ![c] = y]
    OBVIOUS
<1>13. ConnTyped(read) /\ Alike(conn, read) /\ read[c] = y
  <2>1. y = [state |-> conn[c].state, key |-> conn[c].key, owed |-> conn[c].owed,
            frames |-> f, stray |-> conn[c].stray]
      BY <1>4, <1>11 DEF OpenConn
  <2>2. y \in OpenConn /\ y.key = conn[c].key
      BY <1>4, <2>1 DEF OpenConn
  <2> QED
      BY <1>1, <1>4, <1>12, <2>2, TouchedFacts DEF ConnTyped
<1>14. PICK x : x = [pc |-> "answered", frame |-> Head(conn[c].frames), stray |-> conn[c].stray]
    OBVIOUS
<1>15. query' = [query EXCEPT ![q] = x]
    BY <1>2, <1>14 DEF ReadAnswer
<1>16. /\ QueryTyped(query') /\ query'[q] = x
       /\ \A r \in Query \ {q} : query'[r] = query[r]
  <2>1. x.pc = "answered"
      BY <1>14
  <2> QED
      BY <1>1, <1>15, <2>1, QueryFacts
<1>17. ~Holds(query', q)
    BY <1>14, <1>16 DEF Holds
<1>18. PICK G : G = [idle EXCEPT ![k] = grown]
    OBVIOUS
<1>19. /\ G \in [Key -> Seq(Entry)] /\ G[k] = grown
       /\ \A l \in Key \ {k} : G[l] = idle[l]
    BY <1>1, <1>4, <1>9, <1>18 DEF PoolTyped
<1>20. PICK Q : Q = query'
    OBVIOUS
<1>21. InCustody(G, read, Q)
  <2>1. /\ DOMAIN idle[k] = 1..n /\ DOMAIN G[k] = 1..(n + 1)
        /\ \A i \in 1..n : G[k][i] = idle[k][i]
        /\ G[k][n + 1].conn = query[q].conn
      BY <1>2, <1>5, <1>6, <1>7, <1>9, <1>19
  <2>2. \A r \in Query \ {q} : Q[r] = query[r]
      BY <1>16, <1>20
  <2>3. ~Holds(Q, q)
      BY <1>17, <1>20
  <2>4. \A l \in Key \ {k} : G[l] = idle[l]
      BY <1>19
  <2>5. InCustody(idle, conn, query) /\ Alike(conn, read) /\ Holds(query, q)
      BY <1>1, <1>13
  <2> QED
      BY <1>3, <1>4, <2>1, <2>2, <2>3, <2>4, <2>5, Returned
<1>22. /\ idle' = [idle EXCEPT ![k] = IF Overfull(k) THEN Tail(grown) ELSE grown]
       /\ conn' = IF Overfull(k) THEN [read EXCEPT ![Head(grown).conn] = Closed] ELSE read
       /\ pruner' = IF pruner.pc = "unborn" THEN [pc |-> "asleep", left |-> PruneInterval]
                    ELSE pruner
  <2>1. conn[c].frames # <<>> /\ read = [conn EXCEPT ![c].frames = Tail(@)]
      BY <1>1, <1>4, <1>10, <1>11, <1>12 DEF ConnTyped
  <2> QED
      BY <1>1, <1>2, <1>3, <1>5, <1>6, <1>8, <2>1 DEF ReadAnswer, PoolTyped
<1>23. /\ PoolTyped(idle') /\ ConnTyped(conn') /\ InCustody(idle', conn', query')
       /\ \A l \in Key : \A i \in DOMAIN idle'[l] :
             \/ \E j \in DOMAIN idle[l] : idle'[l][i] = idle[l][j]
             \/ idle'[l][i] = e
  <2>1. CASE ~Overfull(k)
    <3>1. idle' = G /\ conn' = read
        BY <1>18, <1>22, <2>1
    <3>2. Len(grown) <= MaxIdlePerKey
        BY <1>6, <1>7, <1>9, <2>1, Constants DEF Overfull
    <3>3. \A l \in Key : Len(G[l]) <= MaxIdlePerKey
        BY <1>1, <1>19, <3>2 DEF PoolTyped
    <3>4. \A l \in Key : \A i \in DOMAIN G[l] :
             (\E j \in DOMAIN idle[l] : G[l][i] = idle[l][j]) \/ G[l][i] = e
      <4>1. \A i \in DOMAIN grown : (\E j \in DOMAIN s : grown[i] = s[j]) \/ grown[i] = e
          BY <1>7, <1>9
      <4> QED
          BY <1>6, <1>19, <4>1
    <3> QED
        BY <1>13, <1>19, <1>20, <1>21, <3>1, <3>3, <3>4 DEF PoolTyped
  <2>2. CASE Overfull(k)
    <3>1. PICK t : t = Tail(grown)
        OBVIOUS
    <3>2. /\ t \in Seq(Entry) /\ Len(t) = n /\ DOMAIN t = 1..n
          /\ \A i \in 1..n : t[i] = grown[i + 1]
      <4>1. /\ t \in Seq(Entry) /\ Len(t) = Len(grown) - 1
            /\ \A i \in 1..Len(t) : t[i] = grown[i + 1]
          BY <1>9, <3>1, HeadTailProperties
      <4>2. Len(t) = n
          BY <1>9, <4>1
      <4>3. DOMAIN t = 1..n
          BY <4>1, <4>2, LenProperties
      <4> QED
          BY <4>1, <4>2, <4>3
    <3>3. PICK d : d = grown[1].conn
        OBVIOUS
    <3>4. Head(grown).conn = d /\ 1 \in DOMAIN grown
        BY <1>9, <3>3
    <3>5. PICK J : J = [idle EXCEPT ![k] = t]
        OBVIOUS
    <3>6. /\ idle' = J /\ J \in [Key -> Seq(Entry)] /\ J[k] = t
          /\ \A l \in Key \ {k} : J[l] = idle[l]
        BY <1>1, <1>4, <1>22, <2>2, <3>1, <3>2, <3>5 DEF PoolTyped
    <3>7. d \in Conn
      <4>1. grown[1] \in Entry
          BY <1>9, ElementOfSeq
      <4> QED
          BY <3>3, <4>1 DEF Entry
    <3>8. PICK D : D = [read EXCEPT ![d] = Closed]
        OBVIOUS
    <3>9. conn' = D /\ ConnTyped(D) /\ Shut(read, D, {d})
        BY <1>13, <1>22, <2>2, <3>4, <3>7, <3>8 DEF ConnTyped, Shut
    <3>10. \A l \in Key : Len(J[l]) <= MaxIdlePerKey
      <4>1. n <= MaxIdlePerKey
          BY <1>1, <1>4, <1>6, <1>7 DEF PoolTyped
      <4> QED
          BY <1>1, <3>2, <3>6, <4>1 DEF PoolTyped
    <3>11. PICK place : place = [l \in Key |-> [i \in Nat |-> IF l = k THEN i + 1 ELSE i]]
        OBVIOUS
    <3>12. From(G, J, place)
      <4> SUFFICES ASSUME NEW l \in Key
                   PROVE  /\ \A i \in DOMAIN J[l] : /\ place[l][i] \in DOMAIN G[l]
                                                   /\ J[l][i].conn = G[l][place[l][i]].conn
                          /\ \A i, j \in DOMAIN J[l] : place[l][i] = place[l][j] => i = j
          BY DEF From
      <4>1. CASE l = k
        <5>1. \A i \in 1..n : place[l][i] = i + 1
            BY <3>11, <4>1
        <5> QED
            BY <1>9, <1>19, <3>2, <3>6, <4>1, <5>1
      <4>2. CASE l # k
        <5>1. J[l] = G[l] /\ J[l] \in Seq(Entry)
            BY <1>19, <3>6, <4>2
        <5>2. \A i \in DOMAIN J[l] : i \in Nat /\ place[l][i] = i
            BY <3>11, <4>2, <5>1, LenProperties
        <5> QED
            BY <5>1, <5>2
      <4> QED
          BY <4>1, <4>2
    <3>13. Leave(G, J, {d})
      <4> SUFFICES ASSUME NEW b \in Conn
                   PROVE  b = d <=> Pooled(G, b) /\ ~Pooled(J, b)
          BY DEF Leave
      <4>1. ASSUME b = d
            PROVE  Pooled(G, b) /\ ~Pooled(J, b)
        <5>1. 1 \in DOMAIN G[k] /\ G[k][1].conn = d
            BY <1>19, <3>3, <3>4
        <5>3. read[G[k][1].conn].key = k
            BY <1>4, <1>21, <5>1 DEF InCustody, Kindred
        <5>2. ASSUME NEW l \in Key, NEW i \in DOMAIN J[l], J[l][i].conn = d
              PROVE  FALSE
          <6>1. PICK j : j = place[l][i]
              OBVIOUS
          <6>2. j \in DOMAIN G[l] /\ G[l][j].conn = d
              BY <3>12, <5>2, <6>1 DEF From
          <6>7. read[G[l][j].conn].key = l
              BY <1>21, <6>2 DEF InCustody, Kindred
          <6>3. l = k
              BY <5>1, <5>3, <6>2, <6>7
          <6>4. j = 1
              BY <1>21, <5>1, <6>2, <6>3 DEF InCustody, Alone
          <6>5. i \in 1..n
              BY <3>2, <3>6, <6>3
          <6> QED
              BY <3>11, <6>1, <6>3, <6>4, <6>5
        <5>4. Pooled(G, d)
            BY <1>4, <5>1 DEF Pooled
        <5>5. ~Pooled(J, d)
            BY <5>2 DEF Pooled
        <5> QED
            BY <4>1, <5>4, <5>5
      <4>2. ASSUME Pooled(G, b), ~Pooled(J, b)
            PROVE  b = d
        <5>1. PICK l \in Key : \E i \in DOMAIN G[l] : G[l][i].conn = b
            BY <4>2 DEF Pooled
        <5>2. PICK i \in DOMAIN G[l] : G[l][i].conn = b
            BY <5>1
        <5>3. l = k
            BY <1>19, <3>6, <4>2, <5>2 DEF Pooled
        <5>4. i \in 1..(n + 1)
            BY <1>9, <1>19, <5>2, <5>3
        <5>5. CASE i = 1
            BY <1>19, <3>3, <5>2, <5>3, <5>5
        <5>6. CASE i # 1
          <6>1. PICK j \in 1..n : j + 1 = i
            <7>1. i - 1 \in 1..n /\ (i - 1) + 1 = i
                BY <5>4, <5>6
            <7> QED
                BY <7>1
          <6>2. j \in DOMAIN J[k] /\ J[k][j] = grown[i]
              BY <3>2, <3>6, <6>1
          <6> QED
              BY <1>19, <4>2, <5>2, <5>3, <6>2 DEF Pooled
        <5> QED
            BY <5>5, <5>6
      <4> QED
          BY <4>1, <4>2
    <3>14. InCustody(J, D, Q)
        BY <1>21, <3>9, <3>12, <3>13, Thinned
    <3>15. \A l \in Key : \A i \in DOMAIN J[l] :
              (\E j \in DOMAIN idle[l] : J[l][i] = idle[l][j]) \/ J[l][i] = e
      <4>1. \A i \in DOMAIN t : (\E j \in DOMAIN s : t[i] = s[j]) \/ t[i] = e
        <5> SUFFICES ASSUME NEW i \in 1..n
                     PROVE  (\E j \in DOMAIN s : t[i] = s[j]) \/ t[i] = e
            BY <3>2
        <5>1. t[i] = grown[i + 1]
            BY <3>2
        <5>2. CASE i = n
            BY <1>9, <5>1, <5>2
        <5>3. CASE i # n
          <6>1. i + 1 \in 1..n
              BY <5>3
          <6> QED
              BY <1>7, <1>9, <5>1, <6>1
        <5> QED
            BY <5>2, <5>3
      <4> QED
          BY <1>6, <3>6, <4>1
    <3> QED
        BY <1>20, <3>6, <3>9, <3>10, <3>14, <3>15 DEF PoolTyped
  <2> QED
      BY <2>1, <2>2
<1>24. pool = "alive" /\ pruner.pc # "gone"
    BY <1>1 DEF Inv, Typed, DroppedOK, Framing, InFlight
<1>25. PrunerTyped(pruner') /\ pruner'.pc = "asleep"
    BY <1>1, <1>22, <1>24, Constants DEF PrunerTyped
<1>26. AgesOK'
  <2> SUFFICES ASSUME NEW l \in Key, NEW i \in DOMAIN idle'[l]
               PROVE  idle'[l][i].age + pruner'.left < IdleTimeout + PruneInterval
      BY <1>25 DEF AgesOK
  <2>1. CASE \E j \in DOMAIN idle[l] : idle'[l][i] = idle[l][j]
    <3>1. PICK j \in DOMAIN idle[l] : idle'[l][i] = idle[l][j]
        BY <2>1
    <3>2. /\ pruner.pc = "asleep"
          /\ idle[l][j].age + pruner.left < IdleTimeout + PruneInterval
        BY DEF Inv, AgesOK
    <3> QED
        BY <1>22, <3>1, <3>2
  <2>2. CASE idle'[l][i] = e
    <3>1. pruner'.left \in 0..PruneInterval
        BY <1>25 DEF PrunerTyped
    <3>2. idle'[l][i].age = 0
        BY <1>5, <2>2
    <3> QED
        BY <3>1, <3>2, Constants
  <2> QED
      BY <1>23, <2>1, <2>2
<1>27. DroppedOK' /\ DialsOK'
    BY <1>1, <1>14, <1>16, <1>24, <1>25 DEF Inv, DroppedOK, DialsOK
<1> QED
    BY <1>1, <1>16, <1>23, <1>25, <1>26, <1>27 DEF Inv, Typed

\* A query lets go of its connection, which is closed: it dials anew, fails or ends.
LEMMA LettingGoKeepsInv ==
    ASSUME Inv, NEW q \in Query, Framing(q), NEW x,
           \/ x = [pc |-> "dialing", key |-> query[q].key, dials |-> 0]
           \/ x = [pc |-> "failed", dials |-> query[q].dials] /\ query[q].pc = "fresh"
           \/ x = [pc |-> "dropped"],
           query' = [query EXCEPT ![q] = x], conn' = Closing({query[q].conn}),
           UNCHANGED <<idle, pruner, pool>>
    PROVE  Inv'
<1>1. /\ ConnTyped(conn) /\ QueryTyped(query) /\ InCustody(idle, conn, query)
      /\ Holds(query, q) /\ query[q].pc \in {"pooled", "fresh"} /\ query[q].key \in Key
    BY DEF Inv, Typed, Framing, Holds, QueryTyped
<1>2. /\ x.pc \in {"dialing", "failed", "dropped"}
      /\ x.pc = "dialing" => x.key \in Key
      /\ x.pc = "failed" => x.dials = 1
    BY <1>1 DEF Inv, DialsOK
<1>3. /\ QueryTyped(query') /\ query'[q] = x
      /\ \A r \in Query \ {q} : query'[r] = query[r]
    BY <1>1, <1>2, QueryFacts
<1>4. ConnTyped(conn') /\ Shut(conn, conn', {query[q].conn})
    BY <1>1, ClosingFacts
<1>5. InCustody(idle, conn', query')
  <2>1. \A c \in Conn : conn'[c] = IF c = query[q].conn THEN Closed ELSE conn[c]
      BY <1>4 DEF Shut
  <2>2. ~Holds(query', q)
      BY <1>2, <1>3 DEF Holds
  <2>3. PICK D : D = conn'
      OBVIOUS
  <2>4. PICK R : R = query'
      OBVIOUS
  <2>5. /\ ~Holds(R, q) /\ \A r \in Query \ {q} : R[r] = query[r]
        /\ \A c \in Conn : D[c] = IF c = query[q].conn THEN Closed ELSE conn[c]
      BY <1>3, <2>1, <2>2, <2>3, <2>4
  <2>6. InCustody(idle, D, R)
      BY <1>1, <2>5, Released
  <2> QED
      BY <2>3, <2>4, <2>6
<1>6. AgesOK'
    BY DEF Inv, AgesOK
<1>7. DroppedOK'
  <2>1. pool = "alive"
      BY <1>1 DEF Inv, Typed, DroppedOK, InFlight
  <2> QED
      BY <2>1 DEF Inv, DroppedOK
<1>8. DialsOK'
    BY <1>2, <1>3 DEF Inv, DialsOK
<1> QED
    BY <1>3, <1>4, <1>5, <1>6, <1>7, <1>8 DEF Inv, Typed

\* A connection that fails is closed, and its query dials or fails.
LEMMA ReadFailsKeepsInv ==
    ASSUME Inv, NEW q \in Query, ReadFails(q)
    PROVE  Inv'
<1>1. PICK x : x = AfterFailure(q)
    OBVIOUS
<1>2. Framing(q) /\ query[q].pc \in {"pooled", "fresh"}
    BY DEF ReadFails, Framing
<1>3. \/ x = [pc |-> "dialing", key |-> query[q].key, dials |-> 0]
      \/ x = [pc |-> "failed", dials |-> query[q].dials] /\ query[q].pc = "fresh"
    BY <1>1, <1>2 DEF AfterFailure
<1>4. /\ query' = [query EXCEPT ![q] = x] /\ conn' = Closing({query[q].conn})
      /\ UNCHANGED <<idle, pruner, pool>>
    BY <1>1 DEF ReadFails
<1> QED
    BY <1>2, <1>3, <1>4, LettingGoKeepsInv

\* A step of a query that has no connection and gets none.
LEMMA EmptyHandedKeepsInv ==
    ASSUME Inv, NEW q \in Query, query[q].pc = "dialing",
           NEW x, x = [pc |-> "failed", dials |-> 1] \/ x = [pc |-> "dropped"],
           query' = [query EXCEPT ![q] = x], UNCHANGED <<idle, conn, pruner, pool>>
    PROVE  Inv'
<1>1. QueryTyped(query) /\ InCustody(idle, conn, query)
    BY DEF Inv, Typed
<1>2. x.pc \in {"failed", "dropped"} /\ (x.pc = "failed" => x.dials = 1)
    OBVIOUS
<1>3. /\ QueryTyped(query') /\ query'[q] = x
      /\ \A r \in Query \ {q} : query'[r] = query[r]
    BY <1>1, <1>2, QueryFacts
<1>4. InCustody(idle, conn, query')
  <2>1. \A r \in Query : /\ Holds(query', r) <=> Holds(query, r)
                         /\ Holds(query, r) => /\ query'[r].conn = query[r].conn
                                               /\ query'[r].key = query[r].key
      BY <1>2, <1>3 DEF Holds
  <2>2. Alike(conn, conn)
      BY DEF Alike
  <2> QED
      BY <1>1, <2>1, <2>2, Unmoved
<1>5. AgesOK'
    BY DEF Inv, AgesOK
<1>6. DroppedOK'
    BY <1>2, <1>3 DEF Inv, DroppedOK, InFlight
<1>7. DialsOK'
    BY <1>2, <1>3 DEF Inv, DialsOK
<1> QED
    BY <1>3, <1>4, <1>5, <1>6, <1>7 DEF Inv, Typed

\* A query that is dropped closes what it holds.
LEMMA CancelKeepsInv ==
    ASSUME Inv, NEW q \in Query, Cancel(q)
    PROVE  Inv'
<1>1. PICK x : x = [pc |-> "dropped"]
    OBVIOUS
<1>2. CASE Framing(q)
    BY <1>1, <1>2, LettingGoKeepsInv DEF Cancel
<1>3. CASE ~Framing(q)
  <2>1. query[q].pc = "dialing"
      BY <1>3 DEF Cancel, InFlight, Framing
  <2> QED
      BY <1>1, <1>3, <2>1, EmptyHandedKeepsInv DEF Cancel
<1> QED
    BY <1>2, <1>3

\* A new connection goes to the query that dialed it.
LEMMA DialSucceedsKeepsInv ==
    ASSUME Inv, NEW q \in Query, NEW c \in Conn, DialSucceeds(q, c)
    PROVE  Inv'
<1>1. /\ ConnTyped(conn) /\ QueryTyped(query) /\ InCustody(idle, conn, query)
      /\ query[q].pc = "dialing" /\ query[q].key \in Key /\ conn[c].state = "closed"
    BY DEF Inv, Typed, QueryTyped, DialSucceeds
<1>2. PICK k : k = query[q].key
    OBVIOUS
<1>3. PICK x : x = [pc |-> "fresh", key |-> k, dials |-> 1, conn |-> c]
    OBVIOUS
<1>4. query' = [query EXCEPT ![q] = x]
    BY <1>1, <1>2, <1>3 DEF DialSucceeds, QueryTyped
<1>5. x.pc = "fresh" /\ x.conn = c /\ x.key = k /\ x.dials = 1
    BY <1>3
<1>6. /\ QueryTyped(query') /\ query'[q] = x
      /\ \A r \in Query \ {q} : query'[r] = query[r]
    BY <1>1, <1>2, <1>4, <1>5, QueryFacts
<1>7. PICK y : y = [state |-> "open", key |-> k, owed |-> {q}, frames |-> <<>>, stray |-> FALSE]
    OBVIOUS
<1>8. conn' = [conn EXCEPT ![c] = y]
  <2>1. y = [Opened(k) EXCEPT !.owed = {q}]
    <3>1. PICK o : o = [state |-> "open", key |-> k, owed |-> {}, frames |-> <<>>, stray |-> FALSE]
        OBVIOUS
    <3>3. o \in OpenConn
        BY <1>1, <1>2, <3>1 DEF OpenConn
    <3>4. PICK own : own = {q}
        OBVIOUS
    <3>5. PICK z : z = [o EXCEPT !.owed = own]
        OBVIOUS
    <3>6. z = [state |-> o.state, key |-> o.key, owed |-> own, frames |-> o.frames,
              stray |-> o.stray]
        BY <3>3, <3>5 DEF OpenConn
    <3>2. [o EXCEPT !.owed = {q}] = y
        BY <1>7, <3>1, <3>4, <3>5, <3>6
    <3> QED
        BY <3>1, <3>2 DEF Opened
  <2> QED
      BY <1>2, <2>1 DEF DialSucceeds
<1>9. y \in OpenConn
    BY <1>1, <1>2, <1>7 DEF OpenConn
<1>10. /\ ConnTyped(conn') /\ conn'[c] = y
       /\ \A d \in Conn \ {c} : conn'[d] = conn[d]
    BY <1>1, <1>8, <1>9 DEF ConnTyped
<1>11. InCustody(idle, conn', query')
  <2>1. ~Holds(query, q) /\ Holds(query', q)
      BY <1>1, <1>5, <1>6 DEF Holds
  <2>2. /\ query'[q].conn = c /\ query'[q].key \in Key
        /\ conn'[c].state # "closed" /\ conn'[c].key = query'[q].key
      BY <1>1, <1>2, <1>5, <1>6, <1>7, <1>10
  <2> QED
      BY <1>1, <1>6, <1>10, <2>1, <2>2, Dialed
<1>12. AgesOK'
    BY DEF Inv, AgesOK, DialSucceeds
<1>13. DroppedOK'
  <2>1. pool = "alive"
      BY <1>1 DEF Inv, Typed, DroppedOK, InFlight
  <2> QED
      BY <2>1 DEF Inv, DroppedOK, DialSucceeds
<1>14. DialsOK'
    BY <1>5, <1>6 DEF Inv, DialsOK
<1>15. PoolTyped(idle') /\ PrunerTyped(pruner') /\ pool' \in {"alive", "dropped"} /\ idle' = idle
    BY DEF Inv, Typed, DialSucceeds
<1> QED
    BY <1>6, <1>10, <1>11, <1>12, <1>13, <1>14, <1>15 DEF Inv, Typed

\* Every step of a query keeps the invariant.
LEMMA RunKeepsInv ==
    ASSUME Inv, NEW q \in Query, Run(q)
    PROVE  Inv'
<1>1. CASE \E k \in Key : Checkout(q, k)
    BY <1>1, CheckoutKeepsInv
<1>2. CASE ReadAnswer(q)
    BY <1>2, ReadAnswerKeepsInv
<1>3. CASE ReadFails(q)
    BY <1>3, ReadFailsKeepsInv
<1>4. CASE \E c \in Conn : DialSucceeds(q, c)
    BY <1>4, DialSucceedsKeepsInv
<1>5. CASE DialFails(q)
  <2>1. PICK x : x = [pc |-> "failed", dials |-> 1]
      OBVIOUS
  <2> QED
      BY <1>5, <2>1, EmptyHandedKeepsInv DEF DialFails
<1>6. CASE Cancel(q)
    BY <1>6, CancelKeepsInv
<1> QED
    BY <1>1, <1>2, <1>3, <1>4, <1>5, <1>6 DEF Run

-----------------------------------------------------------------------------
(* The pruning task, the clock, the owner of the pool and the server.      *)

\* The connections of a key are those of its entries.
LEMMA ConnsFacts ==
    ASSUME NEW entries, NEW c
    PROVE  c \in Conns(entries) <=> \E i \in DOMAIN entries : entries[i].conn = c
    BY DEF Conns, Range

\* A sweep of every key at once, which closes what it removes.
LEMMA SweepKeepsCustody ==
    ASSUME Inv, NEW J, NEW place, PoolTyped(J), From(idle, J, place),
           NEW gone, gone = UNION {Conns(idle[k]) \ Conns(J[k]) : k \in Key}
    PROVE  ConnTyped(Closing(gone)) /\ InCustody(J, Closing(gone), query)
<1>1. ConnTyped(conn) /\ InCustody(idle, conn, query)
    BY DEF Inv, Typed
<1>2. PICK D : D = Closing(gone)
    OBVIOUS
<1>3. ConnTyped(D) /\ Shut(conn, D, gone)
    BY <1>1, <1>2, ClosingFacts
<1>4. Leave(idle, J, gone)
  <2> SUFFICES ASSUME NEW c \in Conn
               PROVE  c \in gone <=> Pooled(idle, c) /\ ~Pooled(J, c)
      BY DEF Leave
  <2>1. ASSUME c \in gone
        PROVE  Pooled(idle, c) /\ ~Pooled(J, c)
    <3>1. PICK k \in Key : c \in Conns(idle[k]) /\ c \notin Conns(J[k])
        BY <2>1
    <3>2. PICK i \in DOMAIN idle[k] : idle[k][i].conn = c
        BY <3>1, ConnsFacts
    <3>3. conn[idle[k][i].conn].key = k
        BY <1>1, <3>2 DEF InCustody, Kindred
    <3>4. ASSUME NEW l \in Key, NEW j \in DOMAIN J[l], J[l][j].conn = c
          PROVE  FALSE
      <4>1. PICK h \in DOMAIN idle[l] : idle[l][h].conn = c
          BY <3>4 DEF From
      <4>2. conn[idle[l][h].conn].key = l
          BY <1>1, <4>1 DEF InCustody, Kindred
      <4>3. l = k
          BY <3>2, <3>3, <4>1, <4>2
      <4> QED
          BY <3>1, <3>4, <4>3, ConnsFacts
    <3> QED
        BY <3>2, <3>4 DEF Pooled
  <2>2. ASSUME Pooled(idle, c), ~Pooled(J, c)
        PROVE  c \in gone
    <3>1. PICK k \in Key : c \in Conns(idle[k])
        BY <2>2, ConnsFacts DEF Pooled
    <3>2. c \notin Conns(J[k])
        BY <2>2, <3>1, ConnsFacts DEF Pooled
    <3> QED
        BY <3>1, <3>2
  <2> QED
      BY <2>1, <2>2
<1>5. InCustody(J, D, query)
    BY <1>1, <1>3, <1>4, Thinned
<1> QED
    BY <1>2, <1>3, <1>5

\* The task that wakes drops what is stale, and the rest is young enough to wait for
\* it again.
LEMMA WakeKeepsInv ==
    ASSUME Inv, Wake
    PROVE  Inv'
<1>1. /\ PoolTyped(idle) /\ ConnTyped(conn) /\ QueryTyped(query) /\ PrunerTyped(pruner)
      /\ pool \in {"alive", "dropped"} /\ InCustody(idle, conn, query)
      /\ query' = query /\ pool' = pool
    BY DEF Inv, Typed, Wake
<1>2. DialsOK'
    BY <1>1 DEF Inv, DialsOK
<1>3. CASE pool = "alive"
  <2>1. PICK J : J = [k \in Key |-> Kept(idle[k])]
      OBVIOUS
  <2>2. PICK gone : gone = UNION {Conns(idle[k]) \ Conns(J[k]) : k \in Key}
      OBVIOUS
  <2>3. /\ idle' = J /\ conn' = Closing(gone)
        /\ pruner' = [pc |-> "asleep", left |-> PruneInterval]
    <3>1. gone = UNION {Conns(idle[k]) \ Conns(Kept(idle[k])) : k \in Key}
        BY <2>1, <2>2
    <3> QED
        BY <1>3, <2>1, <3>1 DEF Wake
  <2>4. PICK place : place = [k \in Key |-> [i \in Nat |-> Nth(FreshAt(idle[k]), i)]]
      OBVIOUS
  <2>5. ASSUME NEW k \in Key
        PROVE  /\ J[k] \in Seq(Entry) /\ Len(J[k]) <= Len(idle[k])
               /\ \A i \in DOMAIN J[k] : /\ place[k][i] \in FreshAt(idle[k])
                                        /\ J[k][i] = idle[k][place[k][i]]
               /\ \A i, j \in DOMAIN J[k] : place[k][i] = place[k][j] => i = j
    <3>1. PICK s \in Seq(Entry) : s = idle[k]
        BY <1>1 DEF PoolTyped
    <3>2. PICK at : at = FreshAt(s)
        OBVIOUS
    <3>3. PICK kept : kept = Kept(s)
        OBVIOUS
    <3>4. /\ kept \in Seq(Entry) /\ Len(kept) <= Len(s)
          /\ \A m \in DOMAIN kept : Nth(at, m) \in at /\ kept[m] = s[Nth(at, m)]
          /\ \A l, m \in DOMAIN kept : Nth(at, l) = Nth(at, m) => l = m
        BY <3>2, <3>3, KeptFacts
    <3>5. \A i \in DOMAIN kept : i \in Nat /\ place[k][i] = Nth(at, i)
        BY <2>4, <3>1, <3>2, <3>4, LenProperties
    <3> QED
        BY <2>1, <3>1, <3>2, <3>3, <3>4, <3>5
  <2>6. PoolTyped(J)
    <3>1. \A k \in Key : Len(idle[k]) \in Nat /\ Len(J[k]) \in Nat
        BY <1>1, <2>5 DEF PoolTyped
    <3>2. \A k \in Key : Len(J[k]) <= MaxIdlePerKey
        BY <1>1, <2>5, <3>1, Constants DEF PoolTyped
    <3> QED
        BY <2>1, <2>5, <3>2 DEF PoolTyped
  <2>7. From(idle, J, place)
      BY <2>5 DEF From, FreshAt
  <2>8. ConnTyped(conn') /\ InCustody(idle', conn', query')
      BY <1>1, <2>2, <2>3, <2>6, <2>7, SweepKeepsCustody
  <2>9. AgesOK'
    <3> SUFFICES ASSUME NEW k \in Key, NEW i \in DOMAIN J[k]
                 PROVE  J[k][i].age + PruneInterval < IdleTimeout + PruneInterval
        BY <2>3 DEF AgesOK
    <3>1. J[k][i] \in Entry
        BY <2>5, LenProperties, ElementOfSeq
    <3>2. ~IsStale(J[k][i])
        BY <2>5 DEF FreshAt
    <3> QED
        BY <3>1, <3>2, Constants DEF IsStale, Entry
  <2>10. DroppedOK'
      BY <1>1, <1>3, <2>3 DEF DroppedOK
  <2>11. PrunerTyped(pruner')
      BY <2>3, Constants DEF PrunerTyped
  <2> QED
      BY <1>1, <1>2, <2>3, <2>6, <2>8, <2>9, <2>10, <2>11 DEF Inv, Typed
<1>4. CASE pool # "alive"
  <2>1. idle' = idle /\ conn' = conn /\ pruner' = [pc |-> "gone"] /\ pool = "dropped"
      BY <1>1, <1>4 DEF Wake
  <2>2. \A k \in Key : idle[k] = <<>>
      BY <2>1 DEF Inv, DroppedOK
  <2>3. AgesOK'
      BY <2>1, <2>2 DEF AgesOK
  <2>4. DroppedOK'
      BY <1>1, <2>1 DEF Inv, DroppedOK, InFlight
  <2>5. PrunerTyped(pruner')
      BY <2>1 DEF PrunerTyped
  <2> QED
      BY <1>1, <1>2, <2>1, <2>3, <2>4, <2>5 DEF Inv, Typed
<1> QED
    BY <1>3, <1>4

\* No sleep that is over is missed, so nothing outlives the bound on its age.
LEMMA TickKeepsInv ==
    ASSUME Inv, Tick
    PROVE  Inv'
<1>1. /\ PoolTyped(idle) /\ ConnTyped(conn) /\ QueryTyped(query) /\ PrunerTyped(pruner)
      /\ pool \in {"alive", "dropped"} /\ InCustody(idle, conn, query)
      /\ query' = query /\ pool' = pool /\ conn' = conn
    BY DEF Inv, Typed, Tick
<1>2. PICK J : J = idle'
    OBVIOUS
<1>3. ASSUME NEW k \in Key
      PROVE  /\ J[k] \in Seq(Entry) /\ Len(J[k]) = Len(idle[k]) /\ DOMAIN J[k] = DOMAIN idle[k]
             /\ \A i \in DOMAIN idle[k] : /\ idle[k][i].age \in Nat
                                         /\ J[k][i].conn = idle[k][i].conn
                                         /\ J[k][i].age = idle[k][i].age + 1
  <2>1. PICK s \in Seq(Entry) : s = idle[k]
      BY <1>1 DEF PoolTyped
  <2>2. PICK n \in Nat : n = Len(s) /\ DOMAIN s = 1..n
      OBVIOUS
  <2>3. \A i \in 1..n : s[i] \in Entry
      BY <2>2
  <2>4. J[k] = [i \in 1..n |-> [s[i] EXCEPT !.age = @ + 1]]
      BY <1>2, <2>1, <2>2 DEF Tick
  <2>5. ASSUME NEW i \in 1..n
        PROVE  /\ [s[i] EXCEPT !.age = @ + 1] = [conn |-> s[i].conn, age |-> s[i].age + 1]
               /\ [conn |-> s[i].conn, age |-> s[i].age + 1] \in Entry
      BY <2>3 DEF Entry
  <2>6. \A i \in 1..n : J[k][i] = [conn |-> s[i].conn, age |-> s[i].age + 1] /\ J[k][i] \in Entry
      BY <2>4, <2>5
  <2>11. ASSUME NEW i \in 1..n
         PROVE  s[i].age \in Nat /\ J[k][i].conn = s[i].conn /\ J[k][i].age = s[i].age + 1
    <3>1. s[i].age \in Nat
        BY <2>3 DEF Entry
    <3>2. PICK b : b = s[i].conn
        OBVIOUS
    <3>3. PICK a : a = s[i].age + 1
        OBVIOUS
    <3>4. PICK x : x = [conn |-> b, age |-> a]
        OBVIOUS
    <3>5. x.conn = b /\ x.age = a
        BY <3>4
    <3>6. J[k][i] = x
        BY <2>6, <3>2, <3>3, <3>4
    <3> QED
        BY <3>1, <3>2, <3>3, <3>5, <3>6
  <2>7. DOMAIN J[k] = 1..n
      BY <2>4
  <2>8. J[k] \in [1..n -> Entry]
      BY <2>4, <2>6
  <2>9. J[k] \in Seq(Entry)
      BY <2>8, SeqDef
  <2>10. Len(J[k]) = n
      BY <2>7, <2>9, LenProperties
  <2> QED
      BY <2>1, <2>2, <2>7, <2>9, <2>10, <2>11
<1>4. PoolTyped(J)
  <2>1. J = [k \in Key |-> J[k]]
    <3>1. J = [k \in Key |-> [i \in DOMAIN idle[k] |-> [idle[k][i] EXCEPT !.age = @ + 1]]]
        BY <1>2 DEF Tick
    <3> QED
        BY <3>1
  <2> QED
      BY <1>1, <1>3, <2>1 DEF PoolTyped
<1>5. InCustody(J, conn, query)
  <2>1. \A k \in Key : /\ DOMAIN J[k] = DOMAIN idle[k]
                       /\ \A i \in DOMAIN idle[k] : J[k][i].conn = idle[k][i].conn
      BY <1>3
  <2>2. Alike(conn, conn)
      BY DEF Alike
  <2> QED
      BY <1>1, <2>1, <2>2, Unmoved
<1>6. /\ PrunerTyped(pruner') /\ pruner'.pc = pruner.pc
      /\ pruner.pc = "asleep" => pruner'.left = pruner.left - 1
  <2>1. CASE pruner.pc = "asleep"
    <3>1. pruner \in [pc : {"asleep"}, left : 0..PruneInterval] /\ pruner.left > 0
        BY <1>1, <2>1 DEF PrunerTyped, Tick
    <3>2. pruner' = [pc |-> "asleep", left |-> pruner.left - 1]
        BY <2>1, <3>1 DEF Tick
    <3>3. pruner.left - 1 \in 0..PruneInterval
        BY <3>1, Constants
    <3> QED
        BY <2>1, <3>2, <3>3 DEF PrunerTyped
  <2>2. CASE pruner.pc # "asleep"
      BY <1>1, <2>2 DEF Tick
  <2> QED
      BY <2>1, <2>2
<1>7. AgesOK'
  <2> SUFFICES ASSUME NEW k \in Key, NEW i \in DOMAIN J[k]
               PROVE  /\ pruner'.pc = "asleep"
                      /\ J[k][i].age + pruner'.left < IdleTimeout + PruneInterval
      BY <1>2 DEF AgesOK
  <2>1. /\ pruner.pc = "asleep"
        /\ idle[k][i].age + pruner.left < IdleTimeout + PruneInterval
      BY <1>3 DEF Inv, AgesOK
  <2>2. J[k][i].age = idle[k][i].age + 1 /\ idle[k][i].age \in Nat
      BY <1>3
  <2>3. pruner.left \in Nat
      BY <1>1, <2>1 DEF PrunerTyped
  <2> QED
      BY <1>6, <2>1, <2>2, <2>3, Constants
<1>8. DroppedOK'
  <2>1. ASSUME pool = "dropped", NEW k \in Key
        PROVE  J[k] = <<>>
    <3>1. idle[k] = <<>>
        BY <2>1 DEF Inv, DroppedOK
    <3>2. Len(J[k]) = 0 /\ J[k] \in Seq(Entry)
        BY <1>3, <3>1
    <3> QED
        BY <3>2, EmptySeq
  <2> QED
      BY <1>1, <1>2, <1>6, <2>1 DEF Inv, DroppedOK, InFlight
<1>9. DialsOK'
    BY <1>1 DEF Inv, DialsOK
<1> QED
    BY <1>1, <1>2, <1>4, <1>5, <1>6, <1>7, <1>8, <1>9 DEF Inv, Typed

\* What was pooled is closed with the pool.
LEMMA DropPoolKeepsInv ==
    ASSUME Inv, DropPool
    PROVE  Inv'
<1>1. /\ PoolTyped(idle) /\ ConnTyped(conn) /\ QueryTyped(query) /\ PrunerTyped(pruner)
      /\ query' = query /\ pruner' = pruner /\ pool' = "dropped"
      /\ \A q \in Query : ~InFlight(q)
    BY DEF Inv, Typed, DropPool
<1>2. PICK J : J = [k \in Key |-> <<>>]
    OBVIOUS
<1>3. PICK gone : gone = UNION {Conns(idle[k]) \ Conns(J[k]) : k \in Key}
    OBVIOUS
<1>4. \A k \in Key : J[k] = <<>> /\ DOMAIN J[k] = {}
    BY <1>2
<1>5. idle' = J /\ conn' = Closing(gone)
  <2>1. \A k \in Key : Conns(J[k]) = {}
      BY <1>4, ConnsFacts
  <2>2. gone = UNION {Conns(idle[k]) : k \in Key}
      BY <1>3, <2>1
  <2> QED
      BY <1>2, <2>2 DEF DropPool
<1>6. PoolTyped(J)
    BY <1>2, Constants, EmptySeq DEF PoolTyped
<1>7. PICK place : place = [k \in Key |-> <<>>]
    OBVIOUS
<1>8. From(idle, J, place)
    BY <1>4 DEF From
<1>9. ConnTyped(conn') /\ InCustody(idle', conn', query')
    BY <1>1, <1>3, <1>5, <1>6, <1>8, SweepKeepsCustody
<1>10. AgesOK' /\ DroppedOK'
    BY <1>1, <1>4, <1>5 DEF AgesOK, DroppedOK, InFlight
<1>11. DialsOK'
    BY <1>1 DEF Inv, DialsOK
<1> QED
    BY <1>1, <1>5, <1>6, <1>9, <1>10, <1>11 DEF Inv, Typed

\* The server answers on a connection or resets it, wherever that connection is.
LEMMA ServerKeepsInv ==
    ASSUME Inv, NEW c \in Conn, conn[c].state = "open", NEW x \in OpenConn,
           x.key = conn[c].key, conn' = [conn EXCEPT ![c] = x],
           UNCHANGED <<idle, query, pruner, pool>>
    PROVE  Inv'
<1>1. ConnTyped(conn) /\ InCustody(idle, conn, query)
    BY DEF Inv, Typed
<1>2. PICK D : D = conn'
    OBVIOUS
<1>3. ConnTyped(D) /\ Alike(conn, D)
    BY <1>1, <1>2, TouchedFacts
<1>4. InCustody(idle, D, query)
    BY <1>1, <1>3, Unmoved
<1>5. InCustody(idle', conn', query')
    BY <1>2, <1>4
<1>6. PoolTyped(idle') /\ QueryTyped(query') /\ PrunerTyped(pruner') /\ pool' \in {"alive", "dropped"}
    BY DEF Inv, Typed
<1>7. AgesOK' /\ DroppedOK' /\ DialsOK'
    BY DEF Inv, AgesOK, DroppedOK, DialsOK, InFlight
<1> QED
    BY <1>2, <1>3, <1>5, <1>6, <1>7 DEF Inv, Typed

\* Every step keeps the invariant.
LEMMA NextKeepsInv == Inv /\ [Next]_vars => Inv'
<1> SUFFICES ASSUME Inv, [Next]_vars
             PROVE  Inv'
    OBVIOUS
<1>1. CASE \E q \in Query : Run(q)
    BY <1>1, RunKeepsInv
<1>2. ASSUME NEW c \in Conn, Answers(c)
      PROVE  Inv'
  <2>1. ConnTyped(conn) /\ conn[c].state = "open"
      BY <1>2 DEF Inv, Typed, Answers
  <2>2. conn[c] \in OpenConn
      BY <2>1, OpenFacts
  <2>3. PICK q \in conn[c].owed :
            conn' = [conn EXCEPT ![c].frames = Append(@, q), ![c].owed = @ \ {q}]
      BY <1>2 DEF Answers
  <2>4. PICK owed : owed = conn[c].owed \ {q}
      OBVIOUS
  <2>5. PICK f : f = Append(conn[c].frames, q)
      OBVIOUS
  <2>6. f \in Seq(Query) /\ owed \in SUBSET Query
    <3>1. q \in Query /\ conn[c].frames \in Seq(Query) /\ owed \in SUBSET Query
        BY <2>2, <2>4 DEF OpenConn
    <3> QED
        BY <2>5, <3>1, AppendProperties
  <2>7. PICK x : x = [conn[c] EXCEPT !.frames = f, !.owed = owed]
      OBVIOUS
  <2>8. x = [state |-> conn[c].state, key |-> conn[c].key, owed |-> owed, frames |-> f,
             stray |-> conn[c].stray]
      BY <2>2, <2>7 DEF OpenConn
  <2>9. x \in OpenConn /\ x.key = conn[c].key
      BY <2>2, <2>6, <2>8 DEF OpenConn
  <2>10. conn' = [conn EXCEPT ![c] = x]
      BY <2>1, <2>3, <2>4, <2>5, <2>7 DEF ConnTyped
  <2> QED
      BY <1>2, <2>1, <2>9, <2>10, ServerKeepsInv DEF Answers
<1>8. ASSUME NEW c \in Conn, Strays(c)
      PROVE  Inv'
  <2>1. ConnTyped(conn) /\ conn[c].state = "open"
      BY <1>8 DEF Inv, Typed, Strays
  <2>2. conn[c] \in OpenConn
      BY <2>1, OpenFacts
  <2>3. PICK q \in Query :
            conn' = [conn EXCEPT ![c].frames = Append(@, q), ![c].stray = TRUE]
      BY <1>8 DEF Strays
  <2>4. PICK f : f = Append(conn[c].frames, q)
      OBVIOUS
  <2>5. f \in Seq(Query)
    <3>1. conn[c].frames \in Seq(Query)
        BY <2>2 DEF OpenConn
    <3> QED
        BY <2>4, <3>1, AppendProperties
  <2>6. PICK x : x = [conn[c] EXCEPT !.frames = f, !.stray = TRUE]
      OBVIOUS
  <2>7. x = [state |-> conn[c].state, key |-> conn[c].key, owed |-> conn[c].owed,
             frames |-> f, stray |-> TRUE]
      BY <2>2, <2>6 DEF OpenConn
  <2>8. x \in OpenConn /\ x.key = conn[c].key
      BY <2>2, <2>5, <2>7 DEF OpenConn
  <2>9. conn' = [conn EXCEPT ![c] = x]
      BY <2>1, <2>3, <2>4, <2>6 DEF ConnTyped
  <2> QED
      BY <1>8, <2>1, <2>8, <2>9, ServerKeepsInv DEF Strays
<1>3. ASSUME NEW c \in Conn, Resets(c)
      PROVE  Inv'
  <2>1. ConnTyped(conn) /\ conn[c].state = "open"
      BY <1>3 DEF Inv, Typed, Resets
  <2>2. conn[c] \in OpenConn
      BY <2>1, OpenFacts
  <2>3. PICK x : x = [conn[c] EXCEPT !.state = "reset"]
      OBVIOUS
  <2>4. x = [state |-> "reset", key |-> conn[c].key, owed |-> conn[c].owed,
             frames |-> conn[c].frames, stray |-> conn[c].stray]
      BY <2>2, <2>3 DEF OpenConn
  <2>5. x \in OpenConn /\ x.key = conn[c].key
      BY <2>2, <2>4 DEF OpenConn
  <2>6. conn' = [conn EXCEPT ![c] = x]
      BY <1>3, <2>1, <2>3 DEF Resets, ConnTyped
  <2> QED
      BY <1>3, <2>1, <2>5, <2>6, ServerKeepsInv DEF Resets
<1>4. CASE Wake
    BY <1>4, WakeKeepsInv
<1>5. CASE Tick
    BY <1>5, TickKeepsInv
<1>6. CASE DropPool
    BY <1>6, DropPoolKeepsInv
<1>7. CASE UNCHANGED vars
    BY <1>7 DEF vars, Inv, Typed, AgesOK, DroppedOK, DialsOK, InFlight
<1> QED
    BY <1>1, <1>2, <1>3, <1>4, <1>5, <1>6, <1>7, <1>8 DEF Next

\* The pool is empty at first.
LEMMA InitInv == Init => Inv
<1> SUFFICES ASSUME Init
             PROVE  Inv
    OBVIOUS
<1>1. /\ \A k \in Key : idle[k] = <<>> /\ DOMAIN idle[k] = {}
      /\ \A c \in Conn : conn[c] = Closed
      /\ \A q \in Query : query[q] = Unused
    BY DEF Init
<1>2. Typed
  <2>1. PoolTyped(idle)
      BY Constants, EmptySeq DEF Init, PoolTyped
  <2>2. ConnTyped(conn) /\ QueryTyped(query)
      BY DEF Init, ConnTyped, QueryTyped, Unused
  <2>3. PrunerTyped(pruner) /\ pool = "alive"
      BY DEF Init, PrunerTyped
  <2> QED
      BY <2>1, <2>2, <2>3 DEF Typed
<1>3. InCustody(idle, conn, query)
    BY <1>1 DEF InCustody, Kindred, Alone, Found, Holds, Unused, Closed
<1>4. AgesOK /\ DialsOK
    BY <1>1 DEF AgesOK, DialsOK, Unused
<1>5. DroppedOK
    BY DEF Init, DroppedOK
<1> QED
    BY <1>2, <1>3, <1>4, <1>5 DEF Inv

-----------------------------------------------------------------------------
(* Whose answer a connection carries.                                      *)

At(Q, q, c) == Holds(Q, q) /\ Q[q].conn = c

\* A connection x in the hands of q owes it an answer, or carries it.
InTurn(x, q) == \/ x.owed = {q} /\ x.frames = <<>>
                \/ x.owed = {} /\ x.frames = <<q>>

\* On a connection that nobody holds nothing is owed and nothing unread.
TurnAt(x, Q, c) == /\ \A q \in Query : At(Q, q, c) => InTurn(x, q)
                   /\ (\A q \in Query : ~At(Q, q, c)) => x.owed = {} /\ x.frames = <<>>

\* So it is with every connection on which the server sent nothing unasked.
Turn(C, Q) == \A c \in Conn : C[c].state # "closed" /\ ~C[c].stray => TurnAt(C[c], Q, c)

TurnInv == Inv /\ Turn(conn, query) /\ AnswerIsOwn

\* A connection is left as it was, in the same hands, or its turn is kept.
LEMMA TurnKept ==
    ASSUME NEW C, NEW D, NEW Q, NEW R, Turn(C, Q),
           \A c \in Conn : D[c].state # "closed" =>
               \/ D[c] = C[c] /\ \A q \in Query : At(R, q, c) <=> At(Q, q, c)
               \/ ~D[c].stray => TurnAt(D[c], R, c)
    PROVE  Turn(D, R)
<1> SUFFICES ASSUME NEW c \in Conn, D[c].state # "closed", ~D[c].stray
             PROVE  TurnAt(D[c], R, c)
    BY DEF Turn
<1>1. CASE D[c] = C[c] /\ \A q \in Query : At(R, q, c) <=> At(Q, q, c)
  <2>1. TurnAt(C[c], Q, c)
      BY <1>1 DEF Turn
  <2> QED
      BY <1>1, <2>1 DEF TurnAt
<1>2. CASE ~D[c].stray => TurnAt(D[c], R, c)
    BY <1>2
<1> QED
    BY <1>1, <1>2

\* A step that only closes connections, or none, and gives none to a query.
LEMMA ClosingKeepsTurn ==
    ASSUME NEW C, NEW D, NEW Q, NEW R, Turn(C, Q),
           \A c \in Conn : D[c].state # "closed" => D[c] = C[c],
           \A c \in Conn : D[c].state # "closed" =>
               \A q \in Query : At(R, q, c) <=> At(Q, q, c)
    PROVE  Turn(D, R)
    BY TurnKept

\* A pooled connection that carried nothing unasked is handed over with nothing to
\* read and nothing owed but the query written to it.
LEMMA CheckoutKeepsTurn ==
    ASSUME TurnInv, NEW q \in Query, NEW k \in Key, Checkout(q, k)
    PROVE  Turn(conn', query')
<1>1. /\ PoolTyped(idle) /\ ConnTyped(conn) /\ QueryTyped(query) /\ Turn(conn, query)
      /\ InCustody(idle, conn, query) /\ ~Holds(query, q)
    BY DEF TurnInv, Inv, Typed, Checkout, Holds
<1>2. PICK cs : cs = Discarded(k)
    OBVIOUS
<1>3. PICK C : C = Closing(cs)
    OBVIOUS
<1>4. ConnTyped(C) /\ \A c \in Conn : C[c].state # "closed" => C[c] = conn[c]
    BY <1>1, <1>2, <1>3, ClosingFacts DEF Shut, Closed
<1>5. CASE Taken(k) = 0
  <2>1. /\ conn' = C
        /\ query' = [query EXCEPT ![q] = [pc |-> "dialing", key |-> k, dials |-> 0]]
      BY <1>2, <1>3, <1>5 DEF Checkout
  <2>2. \A r \in Query : \A c : At(query', r, c) <=> At(query, r, c)
      BY <1>1, <2>1 DEF At, Holds, QueryTyped
  <2>3. PICK R : R = query'
      OBVIOUS
  <2>4. \A c \in Conn : C[c].state # "closed" => \A r \in Query : At(R, r, c) <=> At(query, r, c)
      BY <2>2, <2>3
  <2>5. Turn(C, R)
      BY <1>1, <1>4, <2>4, ClosingKeepsTurn
  <2> QED
      BY <2>1, <2>3, <2>5
<1>6. CASE Taken(k) # 0
  <2>1. PICK c : c = idle[k][Taken(k)].conn
      OBVIOUS
  <2>2. /\ conn' = Writing(C, c, q)
        /\ query' = [query EXCEPT ![q] = [pc |-> "pooled", key |-> k, dials |-> 0, conn |-> c]]
      BY <1>2, <1>3, <1>6, <2>1 DEF Checkout
  <2>3. /\ At(query', q, c) /\ \A d : At(query', q, d) => d = c
        /\ \A r \in Query \ {q} : \A d : At(query', r, d) <=> At(query, r, d)
      BY <1>1, <2>2 DEF At, Holds, QueryTyped
  <2>4. Taken(k) \in DOMAIN idle[k]
    <3>1. PICK n \in Nat : n = Len(idle[k]) /\ DOMAIN idle[k] = 1..n
        BY <1>1 DEF PoolTyped
    <3>2. FreshAt(idle[k]) \subseteq 1..n /\ FreshAt(idle[k]) # {} /\ Taken(k) = Max(FreshAt(idle[k]))
        BY <1>6, <3>1 DEF FreshAt, Taken
    <3> QED
        BY <3>1, <3>2, MaxFacts
  <2>5. \A r \in Query : ~At(query, r, c)
      BY <1>1, <2>1, <2>4 DEF InCustody, Alone, At
  <2>6. c \in Conn
      BY <1>1, <2>1, <2>4 DEF InCustody, Kindred
  <2>7. PICK D : D = conn'
      OBVIOUS
  <2>8. \A d \in Conn \ {c} : D[d] = C[d]
      BY <1>4, <2>2, <2>7 DEF Writing, ConnTyped
  <2>9. D[c].state = C[c].state
      BY <1>4, <2>2, <2>6, <2>7 DEF Writing, ConnTyped
  <2>10. ASSUME D[c].state # "closed", ~D[c].stray
         PROVE  TurnAt(D[c], query', c)
    <3>1. C[c].state # "closed" /\ C[c] = conn[c] /\ C[c] \in OpenConn
        BY <1>4, <2>6, <2>9, <2>10, OpenFacts
    <3>2. D[c] = [C[c] EXCEPT !.owed = @ \cup {q}]
        BY <1>4, <2>2, <2>6, <2>7 DEF Writing, ConnTyped
    <3>3. D[c].owed = C[c].owed \cup {q} /\ D[c].frames = C[c].frames /\ D[c].stray = C[c].stray
        BY <3>1, <3>2 DEF OpenConn
    <3>4. conn[c].owed = {} /\ conn[c].frames = <<>>
        BY <1>1, <2>5, <2>6, <2>10, <3>1, <3>3 DEF Turn, TurnAt
    <3>5. InTurn(D[c], q)
        BY <3>1, <3>3, <3>4 DEF InTurn
    <3>6. \A r \in Query : At(query', r, c) => r = q
        BY <2>3, <2>5
    <3> QED
        BY <2>3, <3>5, <3>6 DEF TurnAt
  <2>11. ASSUME NEW d \in Conn, D[d].state # "closed", d # c
         PROVE  D[d] = conn[d] /\ \A r \in Query : At(query', r, d) <=> At(query, r, d)
    <3>1. D[d] = conn[d]
        BY <1>4, <2>8, <2>11
    <3>2. ~At(query, q, d) /\ ~At(query', q, d)
        BY <1>1, <2>3, <2>11 DEF At
    <3> QED
        BY <2>3, <3>1, <3>2
  <2>12. Turn(D, query')
    <3>1. PICK R : R = query'
        OBVIOUS
    <3>2. \A d \in Conn : D[d].state # "closed" =>
             \/ D[d] = conn[d] /\ \A r \in Query : At(R, r, d) <=> At(query, r, d)
             \/ ~D[d].stray => TurnAt(D[d], R, d)
        BY <2>10, <2>11, <3>1
    <3>3. Turn(D, R)
        BY <1>1, <3>2, TurnKept
    <3> QED
        BY <3>1, <3>3
  <2> QED
      BY <2>7, <2>12
<1> QED
    BY <1>5, <1>6

\* A query reads its own answer, unless something unasked came before it, and leaves
\* nothing on the connection it returns.
LEMMA ReadAnswerKeepsTurn ==
    ASSUME TurnInv, NEW q \in Query, ReadAnswer(q)
    PROVE  Turn(conn', query') /\ AnswerIsOwn'
<1>1. /\ PoolTyped(idle) /\ ConnTyped(conn) /\ QueryTyped(query) /\ Turn(conn, query)
      /\ InCustody(idle, conn, query) /\ Holds(query, q)
    BY DEF TurnInv, Inv, Typed, ReadAnswer, Framing, Holds
<1>2. PICK c : c = query[q].conn
    OBVIOUS
<1>3. c \in Conn /\ conn[c].state # "closed" /\ conn[c] \in OpenConn
    BY <1>1, <1>2, OpenFacts DEF InCustody, Kindred
<1>4. PICK x : x = [pc |-> "answered", frame |-> Head(conn[c].frames), stray |-> conn[c].stray]
    OBVIOUS
<1>5. query' = [query EXCEPT ![q] = x]
    BY <1>2, <1>4 DEF ReadAnswer
<1>6. query'[q] = x /\ \A r \in Query \ {q} : query'[r] = query[r]
    BY <1>1, <1>5 DEF QueryTyped
<1>7. PICK y : y = [conn[c] EXCEPT !.frames = Tail(@)]
    OBVIOUS
<1>8. PICK D : D = conn'
    OBVIOUS
<1>9. ASSUME NEW d \in Conn, D[d].state # "closed"
      PROVE  D[d] = IF d = c THEN y ELSE conn[d]
  <2>1. PICK read : read = [conn EXCEPT ![c].frames = Tail(@)]
      OBVIOUS
  <2>2. \E e : D = [read EXCEPT ![e] = Closed] \/ D = read
      BY <1>2, <1>8, <2>1 DEF ReadAnswer
  <2>3. PICK e : D = [read EXCEPT ![e] = Closed] \/ D = read
      BY <2>2
  <2>4. read = [b \in Conn |-> IF b = c THEN y ELSE conn[b]]
      BY <1>1, <1>3, <1>7, <2>1 DEF ConnTyped
  <2>5. D[d] = read[d] \/ D[d] = Closed
      BY <2>3, <2>4
  <2> QED
      BY <1>9, <2>4, <2>5 DEF Closed
<1>10. ~conn[c].stray => conn[c].frames = <<q>> /\ conn[c].owed = {}
  <2>1. conn[c].frames # <<>>
      BY <1>2 DEF ReadAnswer
  <2> QED
      BY <1>1, <1>2, <1>3, <2>1 DEF Turn, TurnAt, At, InTurn
<1>11. /\ \A d : ~At(query', q, d)
       /\ \A r \in Query \ {q} : \A d : At(query', r, d) <=> At(query, r, d)
    BY <1>4, <1>6 DEF At, Holds
<1>12. \A r \in Query \ {q} : ~At(query, r, c)
    BY <1>1, <1>2 DEF InCustody, Alone, At
<1>13. ASSUME D[c].state # "closed", ~D[c].stray
       PROVE  TurnAt(D[c], query', c)
  <2>1. D[c] = y
      BY <1>3, <1>9, <1>13
  <2>2. y.frames = Tail(conn[c].frames) /\ y.owed = conn[c].owed /\ y.stray = conn[c].stray
      BY <1>3, <1>7 DEF OpenConn
  <2>3. conn[c].frames = <<q>> /\ conn[c].owed = {}
      BY <1>10, <1>13, <2>1, <2>2
  <2>4. Tail(<<q>>) = <<>>
      OBVIOUS
  <2>5. \A r \in Query : ~At(query', r, c)
      BY <1>11, <1>12
  <2> QED
      BY <2>1, <2>2, <2>3, <2>4, <2>5 DEF TurnAt
<1>14. ASSUME NEW d \in Conn, D[d].state # "closed", d # c
       PROVE  D[d] = conn[d] /\ \A r \in Query : At(query', r, d) <=> At(query, r, d)
  <2>1. D[d] = conn[d]
      BY <1>9, <1>14
  <2>2. ~At(query, q, d)
      BY <1>2, <1>14 DEF At
  <2> QED
      BY <1>11, <2>1, <2>2
<1>15. Turn(D, query')
  <2>1. PICK R : R = query'
      OBVIOUS
  <2>2. \A d \in Conn : D[d].state # "closed" =>
           \/ D[d] = conn[d] /\ \A r \in Query : At(R, r, d) <=> At(query, r, d)
           \/ ~D[d].stray => TurnAt(D[d], R, d)
      BY <1>13, <1>14, <2>1
  <2>3. Turn(D, R)
      BY <1>1, <2>2, TurnKept
  <2> QED
      BY <2>1, <2>3
<1>16. AnswerIsOwn'
  <2>1. /\ x.frame = q \/ (x.stray /\ Matches(x.frame, q))
    <3>1. x.frame = Head(conn[c].frames) /\ x.stray = conn[c].stray
        BY <1>4
    <3>2. Matches(Head(conn[c].frames), q)
        BY <1>2 DEF ReadAnswer
    <3>3. Head(<<q>>) = q
        OBVIOUS
    <3>4. CASE conn[c].stray
        BY <3>1, <3>2, <3>4
    <3>5. CASE ~conn[c].stray
        BY <1>10, <3>1, <3>3, <3>5
    <3> QED
        BY <3>4, <3>5
  <2>2. \A r \in Query \ {q} : query'[r].pc = "answered" =>
            query'[r].frame = r \/ (query'[r].stray /\ Matches(query'[r].frame, r))
      BY <1>6 DEF TurnInv, AnswerIsOwn
  <2>3. query'[q].frame = q \/ (query'[q].stray /\ Matches(query'[q].frame, q))
      BY <1>6, <2>1
  <2> QED
      BY <2>2, <2>3 DEF AnswerIsOwn, Matches
<1> QED
    BY <1>8, <1>15, <1>16

\* A query that lets go of its connection closes it: what it was owed goes with it.
LEMMA LettingGoKeepsTurn ==
    ASSUME TurnInv, NEW q \in Query, ~Holds(query', q),
           \A r \in Query \ {q} : query'[r] = query[r],
           \A c \in Conn : conn'[c].state # "closed" => conn'[c] = conn[c] /\ ~At(query, q, c)
    PROVE  Turn(conn', query')
<1>1. ConnTyped(conn) /\ QueryTyped(query) /\ Turn(conn, query)
    BY DEF TurnInv, Inv, Typed
<1>3. ASSUME NEW c \in Conn, conn'[c].state # "closed"
      PROVE  conn'[c] = conn[c] /\ \A r \in Query : At(query', r, c) <=> At(query, r, c)
    BY <1>3 DEF At, Holds
<1>4. PICK D : D = conn'
    OBVIOUS
<1>5. PICK R : R = query'
    OBVIOUS
<1>7. /\ \A c \in Conn : D[c].state # "closed" => D[c] = conn[c]
      /\ \A c \in Conn : D[c].state # "closed" =>
             \A r \in Query : At(R, r, c) <=> At(query, r, c)
    BY <1>3, <1>4, <1>5
<1>6. Turn(D, R)
    BY <1>1, <1>7, ClosingKeepsTurn
<1> QED
    BY <1>4, <1>5, <1>6

\* A new connection owes nothing but the query that dialed it.
LEMMA DialSucceedsKeepsTurn ==
    ASSUME TurnInv, NEW q \in Query, NEW c \in Conn, DialSucceeds(q, c)
    PROVE  Turn(conn', query')
<1>1. /\ ConnTyped(conn) /\ QueryTyped(query) /\ Turn(conn, query)
      /\ InCustody(idle, conn, query) /\ conn[c].state = "closed" /\ ~Holds(query, q)
    BY DEF TurnInv, Inv, Typed, DialSucceeds, Holds
<1>2. PICK x : x = [pc |-> "fresh", key |-> query[q].key, dials |-> 1, conn |-> c]
    OBVIOUS
<1>3. query' = [query EXCEPT ![q] = x]
    BY <1>1, <1>2 DEF DialSucceeds, QueryTyped
<1>4. query'[q] = x /\ \A r \in Query \ {q} : query'[r] = query[r]
    BY <1>1, <1>3 DEF QueryTyped
<1>5. PICK y : y = [Opened(query[q].key) EXCEPT !.owed = {q}]
    OBVIOUS
<1>6. conn'[c] = y /\ \A d \in Conn \ {c} : conn'[d] = conn[d]
    BY <1>1, <1>5 DEF DialSucceeds, ConnTyped
<1>7. y.owed = {q} /\ y.frames = <<>>
    BY <1>5 DEF Opened
<1>8. /\ At(query', q, c) /\ \A d : At(query', q, d) => d = c
      /\ \A r \in Query \ {q} : \A d : At(query', r, d) <=> At(query, r, d)
    BY <1>2, <1>4 DEF At, Holds
<1>9. \A r \in Query : ~At(query, r, c)
    BY <1>1 DEF InCustody, Kindred, At
<1>10. TurnAt(y, query', c)
  <2>1. \A r \in Query : At(query', r, c) => r = q
      BY <1>8, <1>9
  <2> QED
      BY <1>7, <1>8, <2>1 DEF TurnAt, InTurn
<1>11. \A d \in Conn \ {c} : \A r \in Query : At(query', r, d) <=> At(query, r, d)
    BY <1>1, <1>8 DEF At
<1>12. PICK D : D = conn'
    OBVIOUS
<1>13. PICK R : R = query'
    OBVIOUS
<1>14. \A d \in Conn : D[d].state # "closed" =>
          \/ D[d] = conn[d] /\ \A r \in Query : At(R, r, d) <=> At(query, r, d)
          \/ ~D[d].stray => TurnAt(D[d], R, d)
    BY <1>6, <1>10, <1>11, <1>12, <1>13
<1>15. Turn(D, R)
    BY <1>1, <1>14, TurnKept
<1> QED
    BY <1>12, <1>13, <1>15

\* The server answers the one query it owes, sends what nobody asked for, or resets.
LEMMA ServerKeepsTurn ==
    ASSUME TurnInv, NEW c \in Conn, Answers(c) \/ Strays(c) \/ Resets(c)
    PROVE  Turn(conn', query')
<1>1. /\ ConnTyped(conn) /\ Turn(conn, query) /\ query' = query
      /\ conn[c].state = "open" /\ conn[c] \in OpenConn
    BY OpenFacts DEF TurnInv, Inv, Typed, Answers, Strays, Resets
<1>2. PICK D : D = conn'
    OBVIOUS
<1>3. \A d \in Conn \ {c} : D[d] = conn[d]
    BY <1>1, <1>2 DEF Answers, Strays, Resets, ConnTyped
<1>4. ~D[c].stray => TurnAt(D[c], query, c)
  <2>1. CASE Answers(c)
    <3>1. PICK q \in conn[c].owed :
              conn' = [conn EXCEPT ![c].frames = Append(@, q), ![c].owed = @ \ {q}]
        BY <2>1 DEF Answers
    <3>2. PICK y : y = [conn[c] EXCEPT !.frames = Append(@, q), !.owed = @ \ {q}]
        OBVIOUS
    <3>3. D[c] = y
        BY <1>1, <1>2, <3>1, <3>2 DEF ConnTyped
    <3>4. /\ y.frames = Append(conn[c].frames, q) /\ y.owed = conn[c].owed \ {q}
          /\ y.stray = conn[c].stray
        BY <1>1, <3>2 DEF OpenConn
    <3> SUFFICES ASSUME ~conn[c].stray
                 PROVE  TurnAt(y, query, c)
        BY <3>3, <3>4
    <3>5. TurnAt(conn[c], query, c)
        BY <1>1 DEF Turn
    <3>6. PICK r \in Query : At(query, r, c)
        BY <3>1, <3>5 DEF TurnAt
    <3>7. \A p \in Query : At(query, p, c) => p = q /\ conn[c].owed = {q} /\ conn[c].frames = <<>>
        BY <3>1, <3>5 DEF TurnAt, InTurn
    <3>9. Append(<<>>, q) = <<q>>
        OBVIOUS
    <3>8. y.owed = {} /\ y.frames = <<q>>
        BY <3>4, <3>6, <3>7, <3>9
    <3> QED
        BY <3>6, <3>7, <3>8 DEF TurnAt, InTurn
  <2>2. CASE Strays(c)
    <3>1. PICK q \in Query : conn' = [conn EXCEPT ![c].frames = Append(@, q), ![c].stray = TRUE]
        BY <2>2 DEF Strays
    <3>2. PICK y : y = [conn[c] EXCEPT !.frames = Append(@, q), !.stray = TRUE]
        OBVIOUS
    <3>3. D[c] = y
        BY <1>1, <1>2, <3>1, <3>2 DEF ConnTyped
    <3>4. y.stray
        BY <1>1, <3>2 DEF OpenConn
    <3> QED
        BY <3>3, <3>4
  <2>3. CASE Resets(c)
    <3>1. D[c].owed = conn[c].owed /\ D[c].frames = conn[c].frames /\ D[c].stray = conn[c].stray
      <4>1. PICK y : y = [conn[c] EXCEPT !.state = "reset"]
          OBVIOUS
      <4>2. D[c] = y
          BY <1>1, <1>2, <2>3, <4>1 DEF Resets, ConnTyped
      <4> QED
          BY <1>1, <4>1, <4>2 DEF OpenConn
    <3>2. ~conn[c].stray => TurnAt(conn[c], query, c)
        BY <1>1 DEF Turn
    <3> QED
        BY <3>1, <3>2 DEF TurnAt, InTurn
  <2> QED
      BY <2>1, <2>2, <2>3
<1>5. Turn(D, query)
    BY <1>1, <1>3, <1>4, TurnKept
<1> QED
    BY <1>1, <1>2, <1>5

\* A step of a query that reads no answer leaves those that were read.
LEMMA AnswersStay ==
    ASSUME TurnInv, NEW q \in Query, NEW x, x.pc # "answered", query' = [query EXCEPT ![q] = x]
    PROVE  AnswerIsOwn'
<1>1. query'[q] = x /\ \A r \in Query \ {q} : query'[r] = query[r]
    BY DEF TurnInv, Inv, Typed, QueryTyped
<1> QED
    BY <1>1 DEF TurnInv, AnswerIsOwn, Matches

\* Every step keeps each connection's turn and every answer.
LEMMA NextKeepsTurn == TurnInv /\ [Next]_vars => TurnInv'
<1> SUFFICES ASSUME TurnInv, [Next]_vars
             PROVE  Turn(conn', query') /\ AnswerIsOwn'
    BY NextKeepsInv DEF TurnInv
<1>1. ASSUME NEW q \in Query, NEW k \in Key, Checkout(q, k)
      PROVE  Turn(conn', query') /\ AnswerIsOwn'
  <2>1. \E x : x.pc # "answered" /\ query' = [query EXCEPT ![q] = x]
    <3>1. PICK c : c = idle[k][Taken(k)].conn
        OBVIOUS
    <3>2. PICK x : x = IF Taken(k) = 0 THEN [pc |-> "dialing", key |-> k, dials |-> 0]
                       ELSE [pc |-> "pooled", key |-> k, dials |-> 0, conn |-> c]
        OBVIOUS
    <3>3. query' = [query EXCEPT ![q] = x]
        BY <1>1, <3>1, <3>2 DEF Checkout
    <3>4. x.pc # "answered"
        BY <3>2
    <3> QED
        BY <3>3, <3>4
  <2>2. PICK x : x.pc # "answered" /\ query' = [query EXCEPT ![q] = x]
      BY <2>1
  <2>3. AnswerIsOwn'
      BY <2>2, AnswersStay
  <2> QED
      BY <1>1, <2>3, CheckoutKeepsTurn
<1>2. ASSUME NEW q \in Query, ReadAnswer(q)
      PROVE  Turn(conn', query') /\ AnswerIsOwn'
    BY <1>2, ReadAnswerKeepsTurn
<1>3. ASSUME NEW q \in Query, ReadFails(q) \/ DialFails(q) \/ Cancel(q)
      PROVE  Turn(conn', query') /\ AnswerIsOwn'
  <2>1. PICK x : x = IF ReadFails(q) THEN AfterFailure(q)
                     ELSE IF DialFails(q) THEN [pc |-> "failed", dials |-> 1]
                     ELSE [pc |-> "dropped"]
      OBVIOUS
  <2>2. AfterFailure(q).pc \in {"dialing", "failed"}
      BY DEF AfterFailure
  <2>3. x.pc \in {"dialing", "failed", "dropped"}
      BY <2>1, <2>2
  <2>4. /\ query' = [query EXCEPT ![q] = x]
        /\ \/ Framing(q) /\ conn' = Closing({query[q].conn})
           \/ ~Framing(q) /\ conn' = conn
      BY <1>3, <2>1 DEF ReadFails, DialFails, Cancel, Framing
  <2>5. x.pc # "answered"
      BY <2>3
  <2>6. AnswerIsOwn'
      BY <2>4, <2>5, AnswersStay
  <2>8. \A c \in Conn : conn'[c].state # "closed" => conn'[c] = conn[c] /\ ~At(query, q, c)
    <3>1. CASE Framing(q)
      <4>1. ConnTyped(conn) /\ conn' = Closing({query[q].conn})
          BY <2>4, <3>1 DEF TurnInv, Inv, Typed
      <4>2. Shut(conn, conn', {query[q].conn})
          BY <4>1, ClosingFacts
      <4> QED
          BY <4>2 DEF Shut, Closed, At
    <3>2. CASE ~Framing(q)
        BY <2>4, <3>2 DEF At, Holds, Framing
    <3> QED
        BY <3>1, <3>2
  <2>9. ~Holds(query', q) /\ \A r \in Query \ {q} : query'[r] = query[r]
      BY <2>3, <2>4 DEF TurnInv, Inv, Typed, QueryTyped, Holds
  <2>7. Turn(conn', query')
      BY <2>8, <2>9, LettingGoKeepsTurn
  <2> QED
      BY <2>6, <2>7
<1>4. ASSUME NEW q \in Query, NEW c \in Conn, DialSucceeds(q, c)
      PROVE  Turn(conn', query') /\ AnswerIsOwn'
  <2>1. PICK x : x = [pc |-> "fresh", key |-> query[q].key, dials |-> 1, conn |-> c]
      OBVIOUS
  <2>2. query' = [query EXCEPT ![q] = x]
      BY <1>4, <2>1 DEF DialSucceeds, TurnInv, Inv, Typed, QueryTyped
  <2> QED
      BY <1>4, <2>1, <2>2, DialSucceedsKeepsTurn, AnswersStay
<1>5. ASSUME NEW c \in Conn, Answers(c) \/ Strays(c) \/ Resets(c)
      PROVE  Turn(conn', query') /\ AnswerIsOwn'
  <2>1. query' = query
      BY <1>5 DEF Answers, Strays, Resets
  <2> QED
      BY <1>5, <2>1, ServerKeepsTurn DEF TurnInv, AnswerIsOwn, Matches
<1>6. ASSUME Wake \/ Tick \/ DropPool \/ UNCHANGED vars
      PROVE  Turn(conn', query') /\ AnswerIsOwn'
  <2>1. query' = query /\ ConnTyped(conn) /\ Turn(conn, query)
      BY <1>6 DEF Wake, Tick, DropPool, vars, TurnInv, Inv, Typed
  <2>2. conn' = conn \/ \E cs : conn' = Closing(cs)
      BY <1>6 DEF Wake, Tick, DropPool, vars
  <2>3. PICK D : D = conn'
      OBVIOUS
  <2>4. \A c \in Conn : D[c].state # "closed" => D[c] = conn[c]
      BY <2>1, <2>2, <2>3, ClosingFacts DEF Shut, Closed
  <2>5. Turn(D, query)
      BY <2>1, <2>4, ClosingKeepsTurn
  <2> QED
      BY <2>1, <2>3, <2>5 DEF TurnInv, AnswerIsOwn, Matches
<1> QED
    BY <1>1, <1>2, <1>3, <1>4, <1>5, <1>6 DEF Next, Run

-----------------------------------------------------------------------------
(* The theorems.                                                           *)

\* The invariant holds throughout the life of a pool.
THEOREM PoolInvariant == Spec => []Inv
<1> QED
    BY InitInv, NextKeepsInv, PTL DEF Spec

\* Every value of the pool keeps its type: a key never holds more than
\* MAX_IDLE_PER_KEY connections, and a query on a connection has one.
THEOREM PoolTypes == Spec => []TypeOK
<1>1. Inv => TypeOK
  <2> SUFFICES ASSUME Inv
               PROVE  TypeOK
      OBVIOUS
  <2>1. /\ PoolTyped(idle) /\ ConnTyped(conn) /\ QueryTyped(query) /\ PrunerTyped(pruner)
        /\ pool \in {"alive", "dropped"}
      BY DEF Inv, Typed
  <2>2. \A k \in Key : /\ Len(idle[k]) <= MaxIdlePerKey
                       /\ Range(idle[k]) \subseteq [conn : Conn, age : Nat]
    <3> SUFFICES ASSUME NEW k \in Key
                 PROVE  /\ Len(idle[k]) <= MaxIdlePerKey
                        /\ Range(idle[k]) \subseteq [conn : Conn, age : Nat]
        OBVIOUS
    <3>1. idle[k] \in Seq(Entry)
        BY <2>1 DEF PoolTyped
    <3>2. \A i \in DOMAIN idle[k] : idle[k][i] \in [conn : Conn, age : Nat]
        BY <3>1, LenProperties, ElementOfSeq DEF Entry
    <3> QED
        BY <2>1, <3>2 DEF PoolTyped, Range
  <2>3. \A q \in Query : /\ query[q].pc \in {"unused", "pooled", "dialing", "fresh",
                                               "answered", "failed", "dropped"}
                         /\ Framing(q) => query[q].conn \in Conn
                         /\ InFlight(q) => query[q].key \in Key
      BY <2>1 DEF QueryTyped, Framing, InFlight
  <2> QED
      BY <2>1, <2>2, <2>3 DEF TypeOK, ConnTyped, OpenConn, PrunerTyped
<1> QED
    BY <1>1, PoolInvariant, PTL

\* An open connection is pooled at one place or held by one query, under the key it
\* was made for, and a closed one is neither: none carries two queries, serves a name
\* it was not validated for, or leaks.
THEOREM PoolCustody == Spec => []Custody
<1>1. Inv => Custody
  <2> SUFFICES ASSUME Inv, NEW c \in Conn
               PROVE  /\ conn[c].state = "closed" => Places(c) = {} /\ Holders(c) = {}
                      /\ conn[c].state # "closed" =>
                            /\ Cardinality(Places(c)) + Cardinality(Holders(c)) = 1
                            /\ \A place \in Places(c) : place[1] = conn[c].key
                            /\ \A q \in Holders(c) : query[q].key = conn[c].key
      BY DEF Custody
  <2>1. InCustody(idle, conn, query) /\ PoolTyped(idle)
      BY DEF Inv, Typed
  <2>2. ASSUME NEW p \in Places(c)
        PROVE  /\ p = <<p[1], p[2]>> /\ p[1] \in Key /\ p[2] \in DOMAIN idle[p[1]]
               /\ idle[p[1]][p[2]].conn = c
               /\ conn[c].state # "closed" /\ p[1] = conn[c].key
    <3>1. /\ p \in Key \X (1..MaxIdlePerKey) /\ p[2] \in DOMAIN idle[p[1]]
          /\ idle[p[1]][p[2]].conn = c
        BY DEF Places
    <3>2. p = <<p[1], p[2]>> /\ p[1] \in Key
        BY <3>1
    <3> QED
        BY <2>1, <3>1, <3>2 DEF InCustody, Kindred
  <2>3. ASSUME NEW q \in Holders(c)
        PROVE  /\ q \in Query /\ Holds(query, q) /\ query[q].conn = c
               /\ conn[c].state # "closed" /\ query[q].key = conn[c].key
      BY <2>1 DEF Holders, Framing, Holds, InCustody, Kindred
  <2>4. ASSUME NEW p \in Places(c), NEW o \in Places(c)
        PROVE  p = o
    <3>1. p[1] = o[1]
        BY <2>2
    <3>2. p[2] = o[2]
        BY <2>1, <2>2, <3>1 DEF InCustody, Alone
    <3> QED
        BY <2>2, <3>1, <3>2
  <2>5. \A q, r \in Holders(c) : q = r
      BY <2>1, <2>3 DEF InCustody, Alone
  <2>6. Places(c) = {} \/ Holders(c) = {}
      BY <2>1, <2>2, <2>3 DEF InCustody, Alone
  <2>7. ASSUME conn[c].state # "closed"
        PROVE  Cardinality(Places(c)) + Cardinality(Holders(c)) = 1
    <3>1. CASE \E k \in Key : \E i \in DOMAIN idle[k] : idle[k][i].conn = c
      <4>1. PICK k \in Key : \E i \in DOMAIN idle[k] : idle[k][i].conn = c
          BY <3>1
      <4>2. PICK i \in DOMAIN idle[k] : idle[k][i].conn = c
          BY <4>1
      <4>3. i \in 1..MaxIdlePerKey
        <5>1. idle[k] \in Seq(Entry) /\ Len(idle[k]) <= MaxIdlePerKey
            BY <2>1 DEF PoolTyped
        <5>2. i \in 1..Len(idle[k]) /\ Len(idle[k]) \in Nat
            BY <5>1, LenProperties
        <5> QED
            BY <5>1, <5>2, Constants
      <4>4. <<k, i>> \in Places(c)
          BY <4>2, <4>3 DEF Places
      <4>5. Places(c) = {<<k, i>>} /\ Holders(c) = {}
          BY <2>4, <2>6, <4>4
      <4>6. Cardinality(Places(c)) = 1
          BY <4>5, FS_Singleton
      <4>7. Cardinality(Holders(c)) = 0
          BY <4>5, FS_EmptySet
      <4> QED
          BY <4>6, <4>7
    <3>2. CASE \E q \in Query : Holds(query, q) /\ query[q].conn = c
      <4>1. PICK q \in Query : Holds(query, q) /\ query[q].conn = c
          BY <3>2
      <4>2. q \in Holders(c)
          BY <4>1 DEF Holders, Framing, Holds
      <4>3. Holders(c) = {q} /\ Places(c) = {}
          BY <2>5, <2>6, <4>2
      <4>4. Cardinality(Holders(c)) = 1
          BY <4>3, FS_Singleton
      <4>5. Cardinality(Places(c)) = 0
          BY <4>3, FS_EmptySet
      <4> QED
          BY <4>4, <4>5
    <3> QED
        BY <2>1, <2>7, <3>1, <3>2 DEF InCustody, Found
  <2> QED
      BY <2>2, <2>3, <2>7
<1> QED
    BY <1>1, PoolInvariant, PTL

\* Nothing stays idle for the idle timeout and a pruning interval, whatever else the
\* pool is used for meanwhile.
THEOREM IdleIsBounded == Spec => []BoundedIdle
<1>1. Inv => BoundedIdle
  <2> SUFFICES ASSUME Inv, NEW k \in Key, NEW i \in DOMAIN idle[k]
               PROVE  idle[k][i].age < IdleTimeout + PruneInterval
      BY DEF BoundedIdle, Range
  <2>1. pruner.pc = "asleep" /\ idle[k][i].age + pruner.left < IdleTimeout + PruneInterval
      BY DEF Inv, AgesOK
  <2>2. pruner.left \in Nat
      BY <2>1 DEF Inv, Typed, PrunerTyped
  <2>3. idle[k][i].age \in Nat
    <3>1. idle[k] \in Seq(Entry)
        BY DEF Inv, Typed, PoolTyped
    <3>2. idle[k][i] \in Entry
        BY <3>1, LenProperties, ElementOfSeq
    <3> QED
        BY <3>2 DEF Entry
  <2> QED
      BY <2>1, <2>2, <2>3, Constants
<1> QED
    BY <1>1, PoolInvariant, PTL

\* A query that fails has dialed: a connection the pool held never decides for it.
THEOREM PoolFailsNoQuery == Spec => []FailsOnlyFresh
<1>1. Inv => FailsOnlyFresh
    BY DEF Inv, DialsOK, FailsOnlyFresh
<1> QED
    BY <1>1, PoolInvariant, PTL

\* A query that is answered has the answer to itself, whatever ids the others carry and
\* however the earlier users of its connection ended: only a server that sent a frame
\* nobody asked for on that connection can make it another's, and then one under the
\* same id to the same question.
THEOREM AnswersAreOwn == Spec => []AnswerIsOwn
<1>1. Init => TurnInv
  <2> SUFFICES ASSUME Init
               PROVE  TurnInv
      OBVIOUS
  <2>1. /\ \A c \in Conn : conn[c].state = "closed"
        /\ \A q \in Query : query[q].pc = "unused"
      BY DEF Init, Closed, Unused
  <2> QED
      BY <2>1, InitInv DEF TurnInv, Turn, AnswerIsOwn
<1>2. TurnInv => AnswerIsOwn
    BY DEF TurnInv
<1> QED
    BY <1>1, <1>2, NextKeepsTurn, PTL DEF Spec

\* A dropped pool's task only comes nearer its end, whenever the pool is dropped.
THEOREM PrunerFollowsPool == Spec => PrunerEnds
<1>1. ASSUME Inv, [Next]_vars, pool = "dropped", pruner' # pruner
      PROVE  pruner'.pc = "gone" \/ pruner'.left < pruner.left
  <2>1. \A q \in Query : ~InFlight(q)
      BY <1>1 DEF Inv, DroppedOK
  <2>2. CASE \E q \in Query : Run(q)
    <3>1. PICK q \in Query : Run(q)
        BY <2>2
    <3>2. ~InFlight(q) /\ ~Framing(q) /\ query[q].pc # "dialing"
        BY <2>1 DEF InFlight, Framing
    <3> QED
        BY <1>1, <3>1, <3>2 DEF Run, Checkout, ReadAnswer, ReadFails, DialSucceeds, DialFails,
                                Cancel
  <2>3. CASE Wake
      BY <1>1, <2>3 DEF Wake
  <2>4. CASE Tick
    <3>1. pruner.pc = "asleep"
        BY <1>1, <2>4 DEF Tick
    <3>2. pruner \in [pc : {"asleep"}, left : 0..PruneInterval] /\ pruner.left > 0
        BY <1>1, <2>4, <3>1 DEF Tick, Inv, Typed, PrunerTyped
    <3>3. pruner'.left = pruner.left - 1
        BY <2>4, <3>1, <3>2 DEF Tick
    <3> QED
        BY <3>2, <3>3
  <2>5. CASE DropPool \/ \E c \in Conn : Answers(c) \/ Strays(c) \/ Resets(c)
      BY <1>1, <2>5 DEF DropPool, Answers, Strays, Resets
  <2>6. CASE UNCHANGED vars
      BY <1>1, <2>6 DEF vars
  <2> QED
      BY <1>1, <2>2, <2>3, <2>4, <2>5, <2>6 DEF Next
<1>2. Inv /\ [Next]_vars =>
          [pool = "dropped" /\ pruner' # pruner
              => pruner'.pc = "gone" \/ pruner'.left < pruner.left]_vars
    BY <1>1
<1> QED
    BY <1>2, PoolInvariant, PTL DEF Spec, PrunerEnds

=============================================================================
