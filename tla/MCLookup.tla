------------------------------ MODULE MCLookup ------------------------------
(***************************************************************************)
(* Small instances of Lookup for TLC. The host a expands to the candidates *)
(* ac and ab of its search domains and then to itself; ad is a with a      *)
(* trailing dot, which has no search list.                                 *)
(***************************************************************************)
EXTENDS Lookup, TLC

CONSTANTS p1, p2, v1, a, ac, ab, ad

OneTask == {p1}
TwoTasks == {p1, p2}
OneVersion == {v1}
Alike == Permutations(TwoTasks)

\* One host with a search list.
Searched == {a, ac}
SearchedHost == {a}
SearchedCandidates == (a :> <<ac, a>>)
SearchedKey == (a :> a)
SearchedSlot == (a :> 1 @@ ac :> 2)

\* A host in two spellings, with two names that collide.
Spelled == {a, ac, ab}
SpelledHosts == {a, ad}
SpelledCandidates == (a :> <<ac, ab, a>> @@ ad :> <<a>>)
SpelledKey == (a :> a @@ ad :> a)
SpelledSlot == (a :> 1 @@ ac :> 2 @@ ab :> 1)

\* TTLs beyond the caps.
LongTtl == {3}
ZeroOrLong == {0, 3}
LongSoa == {3}
OnlyNoSoa == {NoSoa}
=============================================================================
