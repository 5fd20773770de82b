------------------------------- MODULE Places -------------------------------
(***************************************************************************)
(* Sequences by their places: what a filter keeps of one, and what a loop  *)
(* within a loop appends to one.                                           *)
(***************************************************************************)
EXTENDS Integers, Sequences, FiniteSets

\* The members of a sequence at the places in I, in their order.
Picked(s, I) ==
    [k \in 1..Cardinality(I) |-> s[CHOOSE i \in I : Cardinality({j \in I : j < i}) = k - 1]]

\* The members of a sequence of sequences, one behind the other.
Joined(pieces) ==
    LET upTo[i \in 0..Len(pieces)] == IF i = 0 THEN <<>> ELSE upTo[i - 1] \o pieces[i]
    IN upTo[Len(pieces)]

=============================================================================
