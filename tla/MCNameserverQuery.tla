------------------------- MODULE MCNameserverQuery -------------------------
(***************************************************************************)
(* NameserverQuery with the constants of the code, in units of 300ms: the  *)
(* interval is 300ms for a round trip up to 200ms, 600ms and 900ms for     *)
(* slower ones. The cap of 1s is not a multiple of the unit.               *)
(***************************************************************************)
EXTENDS NameserverQuery

Measured == {1, 2, 3}
=============================================================================
