----------------------------- MODULE MCConnPool -----------------------------
(***************************************************************************)
(* Small instances of ConnPool for TLC.                                    *)
(***************************************************************************)
EXTENDS ConnPool, TLC

CONSTANTS q1, q2, q3, c1, c2, c3, k1, k2

\* A request and its retry under one id, and a request of another id.
Copies == {q1, q2}
Calls == Copies \cup {q3}
SameId == [q \in Calls |-> IF q \in Copies THEN Copies ELSE {q}]

ThreeConns == {c1, c2, c3}
TwoKeys == {k1, k2}
Interchangeable == Permutations(Copies) \cup Permutations(ThreeConns) \cup Permutations(TwoKeys)
=============================================================================
