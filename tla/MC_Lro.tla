-------------------------------- MODULE MC_Lro --------------------------------
(* One call of any kind, and up to three items of its own and of others: calls
   meet only in the items they make, so others stand for further callers. *)
EXTENDS Lro

CONSTANTS c1, n1, n2
=============================================================================
