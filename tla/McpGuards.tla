----------------------------- MODULE McpGuards -----------------------------
(***************************************************************************)
(* Calls of MCP tools: the guards of mcp/_guards.py and mutating_tool      *)
(* around Resolver.workspace_id and the lookup cache that the calls share, *)
(* while workspaces get other names.                                       *)
(***************************************************************************)
EXTENDS CacheContent, McpTools

CONSTANTS
    Calls,          \* tool calls, each made once
    Requests,       \* Requests[c]: what call c may be, as pairs of kind and argument
    Guids, Names,   \* of workspaces
    NoArg,          \* argument of a tool that takes no workspace
    EnvLists,       \* values of FABRIC_MCP_WORKSPACES, as sets of entries
    ConfigLists,    \* values of [mcp] workspace_allowlist
    FetchSpan,      \* longest time from the server's answer to the timestamp
    MaxTime         \* bound of the clock

ArgsOf(t) == IF t.scope = "one" THEN Guids \cup Names ELSE {NoArg}

ASSUME McpAssumption ==
    /\ \A c \in Calls : \A r \in Requests[c] : r[1] \in Kinds /\ r[2] \in ArgsOf(r[1])
    /\ Guids \cap Names = {} /\ NoArg \notin Guids \cup Names
    /\ EnvLists \subseteq SUBSET (Guids \cup Names)
    /\ ConfigLists \subseteq SUBSET (Guids \cup Names)
    /\ FetchSpan \in Nat
    /\ MaxTime \in Nat /\ Ttl + FetchSpan < MaxTime

VARIABLES
    readonly,       \* FABRIC_MCP_READONLY
    destructive,    \* FABRIC_MCP_ALLOW_DESTRUCTIVE
    envList, configList,
    nameOf,         \* server: the display name of each workspace
    doc,            \* the cached document
    now,            \* the clock
    pc,             \* where each call is
    tool, arg,      \* its kind and its workspace argument
    ws,             \* the GUID it has resolved
    learnt,         \* when the server, or the cache, told it that GUID
    reach,          \* the workspaces its service call works on
    lastTrue        \* lastTrue[g][n]: last time workspace g was called n (history)

flags == <<readonly, destructive, envList, configList>>
callVars == <<pc, tool, arg, ws, learnt, reach>>
vars == <<flags, nameOf, doc, now, callVars, lastTrue>>

Places == {"idle", "lookup", "ask", "put", "found", "serve",
           "served", "gated", "denied", "failed"}
Over == {"served", "gated", "denied", "failed"}

NoKind == [gate |-> "open", scope |-> "none", effect |-> "read"]
Goto(c, place) == pc' = [pc EXCEPT ![c] = place]

-----------------------------------------------------------------------------
(* The guards. *)

\* resolve_workspace_allowlist: a list without entries counts as absent.
Allowed == IF envList # {} THEN envList ELSE configList
Restricted == Allowed # {}

MatchAtOnce(a) == ~ Restricted \/ a \in Allowed

\* assert_workspace_allowed before the lookup: a name is let through as long
\* as some entry is a GUID.
AllowedBefore(a) ==
    \/ ~ Restricted
    \/ a \in Allowed
    \/ a \in Names /\ Allowed \cap Guids # {}

ResolvedIsAllowed(a, g) == TRUE

\* assert_workspace_allowed after it.
AllowedAfter(a, g) == ~ Restricted \/ a \in Allowed \/ g \in Allowed

\* assert_writes_allowed, assert_destructive_allowed and assert_readonly_sql.
GateOpen(t) ==
    /\ readonly => t.gate = "open"
    /\ t.gate = "destructive" => destructive

\* The refusals before the first await that are about the workspace.
Admitted(t, a) ==
    /\ t.scope = "one" => AllowedBefore(a)
    /\ t.scope = "all" => ~ Restricted

\* _workspace_in_allowlist
InAllowlist(g) == ~ Restricted \/ g \in Allowed \/ nameOf[g] \in Allowed

-----------------------------------------------------------------------------
\* The clock starts so late that 0 in lastTrue is as good as never.
Start == Ttl + FetchSpan + 1

Init ==
    /\ readonly \in BOOLEAN /\ destructive \in BOOLEAN
    /\ envList \in EnvLists /\ configList \in ConfigLists
    /\ nameOf \in [Guids -> Names]
    /\ doc = EmptyDoc
    /\ now = Start
    /\ pc = [c \in Calls |-> "idle"]
    /\ tool = [c \in Calls |-> NoKind]
    /\ arg = [c \in Calls |-> NoArg]
    /\ ws = [c \in Calls |-> NoArg]
    /\ learnt = [c \in Calls |-> now]
    /\ reach = [c \in Calls |-> {}]
    /\ lastTrue = [g \in Guids |-> [n \in Names |-> IF nameOf[g] = n THEN now ELSE 0]]

\* mutating_tool, and the tool up to its first await.
Submit(c, t, a) ==
    /\ pc[c] = "idle"
    /\ tool' = [tool EXCEPT ![c] = t]
    /\ arg' = [arg EXCEPT ![c] = a]
    /\ Goto(c, IF ~ GateOpen(t) THEN "gated"
               ELSE IF ~ Admitted(t, a) THEN "denied"
               ELSE IF t.scope = "one" THEN "lookup" ELSE "serve")
    /\ UNCHANGED <<flags, nameOf, doc, now, ws, learnt, reach, lastTrue>>

\* Resolver.workspace_id found the GUID g.
Resolve(c, g, place) ==
    /\ ws' = [ws EXCEPT ![c] = g]
    /\ learnt' = [learnt EXCEPT ![c] = now]
    /\ Goto(c, place)
    /\ UNCHANGED <<flags, nameOf, doc, now, tool, arg, reach, lastTrue>>

\* A GUID is taken as it is.
TakeGuid(c) ==
    /\ pc[c] = "lookup"
    /\ arg[c] \in Guids
    /\ Resolve(c, arg[c], "found")

Hit(c) ==
    /\ pc[c] = "lookup"
    /\ \E e \in GetWorkspace(doc, arg[c], now) : Resolve(c, e.id, "found")

Miss(c) ==
    /\ pc[c] = "lookup"
    /\ arg[c] \in Names
    /\ GetWorkspace(doc, arg[c], now) = {}
    /\ Goto(c, "ask")
    /\ UNCHANGED <<flags, nameOf, doc, now, tool, arg, ws, learnt, reach, lastTrue>>

Called(n) == {g \in Guids : nameOf[g] = n}

\* GET /groups with the name as filter: exactly one workspace has it.
Answer(c) ==
    /\ pc[c] = "ask"
    /\ \E g \in Guids : Called(arg[c]) = {g} /\ Resolve(c, g, "put")

NotFoundOrAmbiguous(c) ==
    /\ pc[c] = "ask"
    /\ \A g \in Guids : Called(arg[c]) # {g}
    /\ Goto(c, "failed")
    /\ UNCHANGED <<flags, nameOf, doc, now, tool, arg, ws, learnt, reach, lastTrue>>

\* async_put_workspace
Put(c) ==
    /\ pc[c] = "put"
    /\ doc' = PutWorkspace(doc, arg[c], ws[c], now)
    /\ Goto(c, "found")
    /\ UNCHANGED <<flags, nameOf, now, tool, arg, ws, learnt, reach, lastTrue>>

\* The lookup of an item ends as well, and the second workspace check.
Authorize(c) ==
    /\ pc[c] = "found"
    /\ Goto(c, IF AllowedAfter(arg[c], ws[c]) THEN "serve" ELSE "denied")
    /\ UNCHANGED <<flags, nameOf, doc, now, tool, arg, ws, learnt, reach, lastTrue>>

\* The workspaces that the service call works on or the result shows.
Works(c) ==
    CASE tool[c].scope = "one" -> {ws[c]}
      [] tool[c].scope = "all" -> Guids
      [] tool[c].scope = "listed" -> {g \in Guids : InAllowlist(g)}
      [] OTHER -> {}

NoLateCheck(c) == TRUE
LateCheck(c) == tool[c].gate = "late" => destructive

\* The service call.
Serve(c) ==
    /\ pc[c] = "serve"
    /\ tool[c].scope # "cache"
    /\ IF LateCheck(c)
       THEN /\ Goto(c, "served")
            /\ reach' = [reach EXCEPT ![c] = Works(c)]
            /\ learnt' = [learnt EXCEPT ![c] = IF tool[c].scope = "one" THEN @ ELSE now]
       ELSE Goto(c, "gated") /\ UNCHANGED <<reach, learnt>>
    /\ UNCHANGED <<flags, nameOf, doc, now, tool, arg, ws, lastTrue>>

\* clear_cache with a scope.
ClearCache(c) ==
    /\ pc[c] = "serve"
    /\ tool[c].scope = "cache"
    /\ \E scope \in {"workspaces", "items", "all"} : doc' = Clear(doc, scope)
    /\ Goto(c, "served")
    /\ UNCHANGED <<flags, nameOf, now, tool, arg, ws, learnt, reach, lastTrue>>

\* Bad arguments, a missing item or connection string, an error of a request
\* or of the cache.
Fail(c) ==
    /\ pc[c] \in Places \ ({"idle"} \cup Over)
    /\ Goto(c, "failed")
    /\ UNCHANGED <<flags, nameOf, doc, now, tool, arg, ws, learnt, reach, lastTrue>>

\* Bound of the clock and of renames: they go on as long as a call does.
Underway == \E c \in Calls : pc[c] \notin Over

\* Someone gives a workspace another name.
Rename(g, n) ==
    /\ Underway
    /\ nameOf[g] # n
    /\ nameOf' = [nameOf EXCEPT ![g] = n]
    /\ lastTrue' = [lastTrue EXCEPT ![g][n] = now]
    /\ UNCHANGED <<flags, doc, now, callVars>>

\* No call waits longer than FetchSpan between the answer and its timestamp.
Tick ==
    /\ now < MaxTime /\ Underway
    /\ \A c \in Calls : pc[c] = "put" => now < learnt[c] + FetchSpan
    /\ now' = now + 1
    /\ lastTrue' = [g \in Guids |-> [n \in Names |->
                       IF nameOf[g] = n THEN now + 1 ELSE lastTrue[g][n]]]
    /\ UNCHANGED <<flags, nameOf, doc, callVars>>

Step(c) ==
    \/ \E r \in Requests[c] : Submit(c, r[1], r[2])
    \/ TakeGuid(c)
    \/ Hit(c)
    \/ Miss(c)
    \/ Answer(c)
    \/ NotFoundOrAmbiguous(c)
    \/ Put(c)
    \/ Authorize(c)
    \/ Serve(c)
    \/ ClearCache(c)
    \/ Fail(c)

Next ==
    \/ \E c \in Calls : Step(c)
    \/ \E g \in Guids, n \in Names : Rename(g, n)
    \/ Tick

Spec == Init /\ [][Next]_vars

-----------------------------------------------------------------------------
(* Properties. *)

Times == 0..MaxTime

TypeOK ==
    /\ readonly \in BOOLEAN /\ destructive \in BOOLEAN
    /\ envList \in EnvLists /\ configList \in ConfigLists
    /\ nameOf \in [Guids -> Names]
    /\ doc = [workspaces |-> doc.workspaces, items |-> EmptyMap]
    /\ DOMAIN doc.workspaces \subseteq Names
    /\ \A n \in DOMAIN doc.workspaces :
          doc.workspaces[n].id \in Guids /\ doc.workspaces[n].at \in Times
    /\ now \in Times
    /\ pc \in [Calls -> Places]
    /\ tool \in [Calls -> Kinds]
    /\ arg \in [Calls -> Guids \cup Names \cup {NoArg}]
    /\ ws \in [Calls -> Guids \cup {NoArg}]
    /\ learnt \in [Calls -> Times]
    /\ reach \in [Calls -> SUBSET Guids]
    /\ lastTrue \in [Guids -> [Names -> Times]]

\* Workspace g was called n not longer before t than a cache entry lives plus
\* the time a fetch takes.
CalledAround(g, n, t) == t <= lastTrue[g][n] + Ttl + FetchSpan

\* "FABRIC_MCP_READONLY ... block all mutating tools": whatever tool is called,
\* a server in read-only mode changes nothing but its own cache.
ReadOnlyChangesNothing ==
    \A c \in Calls : pc[c] = "served" /\ tool[c].effect \in {"change", "remove"} => ~ readonly

\* Nothing is removed, rebuilt or restored in place unless both flags allow
\* it, also where only the arguments or the table found make a call
\* destructive; execute_sql alone has no such check.
RemovalsNeedBothFlags ==
    \A c \in Calls :
        pc[c] = "served" /\ tool[c].effect = "remove" /\ tool[c].gate # "select" =>
            destructive /\ ~ readonly

\* Every workspace that a call works on or lists is on the allowlist by its
\* GUID or by a name it had when that name was last looked up, however calls,
\* the shared cache, its clearing and renames interleave.
OnlyListedWorkspaces ==
    \A c \in Calls : pc[c] = "served" /\ Restricted =>
        \A g \in reach[c] :
            g \in Allowed \/ \E n \in Allowed \cap Names : CalledAround(g, n, learnt[c])

\* A name is refused only when it is not listed itself and either no GUID is,
\* or it led, not too long ago, to a workspace whose GUID is not listed: a name
\* of a workspace that is listed by GUID is never turned away before the lookup.
NoHastyDenial ==
    \A c \in Calls : pc[c] = "denied" /\ arg[c] \in Names =>
        /\ arg[c] \notin Allowed
        /\ \/ Allowed \cap Guids = {}
           \/ ws[c] \in Guids \ Allowed /\ CalledAround(ws[c], arg[c], learnt[c])
=============================================================================
