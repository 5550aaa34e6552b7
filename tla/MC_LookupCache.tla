--------------------------- MODULE MC_LookupCache ---------------------------
(* Two processes on one cache file, with every method on a document of one
   workspace and two item keys. *)
EXTENDS LookupCache

CONSTANTS p1, p2, n1, w1, k1, g1

Entry == [id |-> g1, at |-> 0]

MCOps ==
    {[op |-> "put_workspace", name |-> n1, id |-> w1, at |-> 0],
     [op |-> "put_items", ws |-> w1, keys |-> {k1, g1}, entry |-> Entry],
     [op |-> "put_item", ws |-> w1, key |-> k1, entry |-> Entry],
     [op |-> "evict_item", ws |-> w1, key |-> k1],
     [op |-> "evict_workspace", key |-> w1],
     [op |-> "clear", scope |-> "items"],
     [op |-> "get"]}
=============================================================================
