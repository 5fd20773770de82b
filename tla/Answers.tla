------------------------------ MODULE Answers ------------------------------
(***************************************************************************)
(* What is read from the answer section of a response: the alias chain     *)
(* from the name that was asked for, the records of the type on it, and    *)
(* how long they may be cached. A record is [name, class, type, data, ttl] *)
(* and the data of an alias, type "CNAME", is its target.                  *)
(***************************************************************************)
EXTENDS Places, SequencesExt

CONSTANTS Name,
          Fold,   \* each name with its letters in lower case
          Depth,  \* MAX_CNAME_DEPTH, of hops in a response and of queries
          U32Max  \* the largest TTL, with which the minimum starts

ASSUME AnswersAssumption ==
    /\ Fold \in [Name -> Name]
    /\ Depth \in Nat \ {0}
    /\ U32Max \in Nat

\* names_equal
NamesEqual(a, b) == Fold[a] = Fold[b]

IsCname(rr) == rr.type = "CNAME"

IsUnder(rr, n) == rr.class = "IN" /\ NamesEqual(rr.name, n)

\* The first record of class IN under a name, if it is an alias.
AliasUnder(answers, n) ==
    {answers[i] : i \in {i \in DOMAIN answers : /\ IsUnder(answers[i], n) /\ IsCname(answers[i])
                                               /\ \A j \in 1..(i - 1) : ~IsUnder(answers[j], n)}}

\* cname_chain, by the hops from its start: Depth at most, and none from a name whose
\* first record is no CNAME, where the chain ends.
Chain(answers, start) ==
    LET hop[i \in 0..Depth] ==
            IF i = 0 THEN start
            ELSE LET alias == AliasUnder(answers, hop[i - 1])
                 IN IF alias = {} THEN hop[i - 1] ELSE (CHOOSE rr \in alias : TRUE).data
    IN hop

\* Mutants: the class, or the chain, is ignored.
OnChainAnyClass(answers, start) ==
    UNION {{i \in DOMAIN answers : NamesEqual(answers[i].name, n)} : n \in Range(Chain(answers, start))}
OnChainAnyName(answers, start) == {i \in DOMAIN answers : answers[i].class = "IN"}

\* Where the records are that count: those of class IN on the chain.
OnChain(answers, start) ==
    UNION {{i \in DOMAIN answers : IsUnder(answers[i], n)} : n \in Range(Chain(answers, start))}

\* Those of the type that was asked for.
WantedAt(answers, start, type) == {i \in OnChain(answers, start) : answers[i].type = type}
Wanted(answers, start, type) == Picked(answers, WantedAt(answers, start, type))

\* unresolved_cname_target: the end of a chain with no record of the type on it,
\* unless that is the name asked for.
Unresolved(answers, start, type) ==
    LET end == Chain(answers, start)[Depth]
    IN IF WantedAt(answers, start, type) # {} \/ NamesEqual(end, start) THEN {} ELSE {end}

\* Mutant: the aliases do not bound the TTL.
LeastTtlFinal(answers, start, type) ==
    LET ttls == {rr.ttl : rr \in Range(Wanted(answers, start, type))}
    IN CHOOSE t \in ttls : \A other \in ttls : t <= other

\* parse_response: the least TTL of the wanted records and of the aliases on the
\* chain, where the largest of all counts as none at all.
LeastTtl(answers, start, type) ==
    LET read == {i \in OnChain(answers, start) : IsCname(answers[i]) \/ answers[i].type = type}
        ttls == {U32Max} \cup {answers[i].ttl : i \in read}
        least == CHOOSE t \in ttls : \A other \in ttls : t <= other
    IN IF least = U32Max THEN 0 ELSE least

=============================================================================
