--------------------------- MODULE MC_ItemLookup ---------------------------
(* A command of the CLI and a tool call, which ends without the cache upkeep, *)
(* two items and three names when all is calm, one and two when it is not.    *)
EXTENDS ItemLookup, TLC

CONSTANTS c1, c2, i1, i2, n1, n2, n3

Symmetric == Permutations(BusyNames)
=============================================================================
