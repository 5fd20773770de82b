------------------------------ MODULE MCCname ------------------------------
(***************************************************************************)
(* Every zone of three names, so chains of up to two aliases and loops of  *)
(* up to three, with a depth of two.                                       *)
(***************************************************************************)
EXTENDS Cname, TLC

CONSTANTS n1, n2, n3

ThreeNames == {n1, n2, n3}
SameCase == [n \in ThreeNames |-> n]
Ttls == n1 :> 2 @@ n2 :> 1 @@ n3 :> 3
=============================================================================
