--------------------------- MODULE MC_HttpClient ---------------------------
(* Two coroutines, one of each kind of method, on one client. *)
EXTENDS HttpClient, TLC

CONSTANTS c1, c2

MCCallers == {c1, c2}
MCMethods == {"GET", "POST"}
MCScopes == {"fabric"}

\* Callers are interchangeable: only equality between them is ever tested.
CallerSymmetry == Permutations(MCCallers)
=============================================================================
