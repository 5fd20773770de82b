------------------------------- MODULE MCRace -------------------------------
(***************************************************************************)
(* Small instances of Race for TLC. Costs are levels of 50ms with a low    *)
(* cap, so that penalties and the cap are both met.                        *)
(***************************************************************************)
EXTENDS Race

CONSTANTS q1, q2

TwoQueries == {q1, q2}

\* Without a TLS config, the encrypted nameserver at place 1.
FirstNeedsTls == {1}
\* A success within a level and one of four levels.
FastAndSlow == {0, 4}
=============================================================================
