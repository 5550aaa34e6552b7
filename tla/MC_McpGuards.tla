--------------------------- MODULE MC_McpGuards ---------------------------
(* Any call beside one that reads by name; two workspaces, two names.      *)
EXTENDS McpGuards, TLC

CONSTANTS c1, c2, w1, w2, n1, n2

Reader == [gate |-> "open", scope |-> "one", effect |-> "read"]

AnyRequest == UNION {{t} \X ArgsOf(t) : t \in Kinds}
MCRequests == [c \in {c1, c2} |-> IF c = c1 THEN AnyRequest ELSE {<<Reader, n1>>}]
MCEnvLists == {{}, {w1, n2}}
MCConfigLists == {{}, {n1}}
=============================================================================
