-------------------------- MODULE McpGuardsProofs --------------------------
(***************************************************************************)
(* Proofs about McpGuards, for any number of calls, workspaces and names   *)
(* and any allowlist.  Two facts carry them: what the cache says of a name *)
(* was true not longer than FetchSpan before its timestamp, and a call     *)
(* that is past a guard still satisfies it, for flags do not change and    *)
(* lastTrue only grows.                                                    *)
(***************************************************************************)
EXTENDS McpGuards, TLAPS

NamesTimed ==
    \A g \in Guids, n \in Names :
        /\ lastTrue[g][n] <= now
        /\ nameOf[g] = n => lastTrue[g][n] = now

CacheWasRight ==
    \A n \in DOMAIN doc.workspaces :
        doc.workspaces[n].at <= lastTrue[doc.workspaces[n].id][n] + FetchSpan

\* The GUID of a call is its argument, or the argument was its name lately.
Resolved(c) ==
    /\ ws[c] \in Guids
    /\ \/ ws[c] = arg[c]
       \/ arg[c] \in Names /\ CalledAround(ws[c], arg[c], learnt[c])

\* Listed by its GUID or by a name of late.
Listed(g, t) ==
    \/ ~ Restricted
    \/ g \in Allowed
    \/ \E n \in Allowed \cap Names : CalledAround(g, n, t)

PastGate(c) ==
    pc[c] \in {"lookup", "ask", "put", "found", "serve", "served"} => GateOpen(tool[c])

OneOnly(c) ==
    /\ pc[c] \in {"lookup", "ask", "put", "found"} => tool[c].scope = "one"
    /\ pc[c] # "idle" => arg[c] \in ArgsOf(tool[c])
    /\ pc[c] \in {"ask", "put"} => arg[c] \in Names

Answered(c) ==
    pc[c] = "put" =>
        /\ ws[c] \in Guids
        /\ learnt[c] <= lastTrue[ws[c]][arg[c]]
        /\ now <= learnt[c] + FetchSpan

Found(c) == pc[c] = "found" => Resolved(c)

Serving(c) ==
    pc[c] = "serve" =>
        /\ tool[c].scope = "one" => Resolved(c) /\ AllowedAfter(arg[c], ws[c])
        /\ tool[c].scope = "all" => ~ Restricted

Served(c) ==
    pc[c] = "served" =>
        /\ LateCheck(c)
        /\ \A g \in reach[c] : Listed(g, learnt[c])

Denial(c) ==
    pc[c] = "denied" /\ arg[c] \in Names =>
        \/ ~ AllowedBefore(arg[c])
        \/ Resolved(c) /\ ~ AllowedAfter(arg[c], ws[c])

NotYet(c) == pc[c] # "served" => reach[c] = {}

CallInv(c) ==
    /\ NotYet(c)
    /\ PastGate(c)
    /\ OneOnly(c)
    /\ Answered(c)
    /\ Found(c)
    /\ Serving(c)
    /\ Served(c)
    /\ Denial(c)

IInv ==
    /\ TypeOK
    /\ NamesTimed
    /\ CacheWasRight
    /\ \A c \in Calls : CallInv(c)

-----------------------------------------------------------------------------
\* What a tool asserts goes with what its service does.
Fits(r) ==
    /\ r.effect \in {"change", "remove"} => r.gate # "open"
    /\ r.effect = "remove" => r.gate \in {"destructive", "late", "select"}
    /\ r.scope = "cache" => r.gate = "open"

LEMMA RowFits == \A r \in Rows : Fits(r)
<1> USE DEF Fits, Row, Reads
<1>1. \A r \in WorkspacesTools \cup WarehousesTools \cup SqlEndpointsTools
             \cup PermissionsReads \cup GrantTools : Fits(r)
    BY DEF WorkspacesTools, WarehousesTools, SqlEndpointsTools, PermissionsReads,
           GrantTools
<1>2. \A r \in SecurityPolicyTools \cup MaskTools \cup AuditTools
             \cup QueriesReads \cup KillTools : Fits(r)
    BY DEF SecurityPolicyTools, MaskTools, AuditTools, QueriesReads,
           KillTools
<1>3. \A r \in SqlExecTools \cup SnapshotsTools \cup RestoreTools
             \cup ViewsReads \cup ViewsWrites : Fits(r)
    BY DEF SqlExecTools, SnapshotsTools, RestoreTools, ViewsReads,
           ViewsWrites
<1>4. \A r \in ProceduresTools \cup FunctionsTools \cup SchemasTools
             \cup TablesReads \cup TablesCreates : Fits(r)
    BY DEF ProceduresTools, FunctionsTools, SchemasTools, TablesReads,
           TablesCreates
<1>5. \A r \in TablesStatus \cup TablesAlters \cup LoadTools
             \cup ImportTools \cup StatisticsTools : Fits(r)
    BY DEF TablesStatus, TablesAlters, LoadTools, ImportTools,
           StatisticsTools
<1>6. \A r \in SettingsTools \cup SqlPoolsTools \cup CacheTools
             \cup DbtTools \cup CapabilitiesTools : Fits(r)
    BY DEF SettingsTools, SqlPoolsTools, CacheTools, DbtTools,
           CapabilitiesTools
<1>. QED
    BY <1>1, <1>2, <1>3, <1>4, <1>5, <1>6 DEF Rows

LEMMA KindFits == \A t \in Kinds : Fits(t)
BY RowFits DEF Kinds, Fits

LEMMA NoKindIsKind == NoKind \in Kinds
<1> DEFINE r == Row("open", "none", "read", {"list_capabilities"})
<1>1. r \in Rows
    BY DEF Rows, CapabilitiesTools
<1>2. NoKind = [gate |-> r.gate, scope |-> r.scope, effect |-> r.effect]
    BY DEF NoKind, Row
<1>. QED
    BY <1>1, <1>2 DEF Kinds

LEMMA InitIInv == Init => IInv
<1> SUFFICES ASSUME Init PROVE IInv
    OBVIOUS
<1> USE McpAssumption, TtlAssumption DEF Init
<1>1. TypeOK
    BY NoKindIsKind DEF TypeOK, Times, Start, EmptyDoc, EmptyMap, Places
<1>2. NamesTimed
    BY DEF NamesTimed, Start
<1>3. CacheWasRight
    BY DEF CacheWasRight, EmptyDoc, EmptyMap
<1>4. ASSUME NEW c \in Calls PROVE CallInv(c)
    BY DEF CallInv, NotYet, PastGate, OneOnly, Answered, Found, Serving, Served, Denial
<1>. QED
    BY <1>1, <1>2, <1>3, <1>4 DEF IInv

-----------------------------------------------------------------------------
(* A step of another call, a rename and the clock leave a call as it is. *)

LEMMA CalledAroundStays ==
    ASSUME TypeOK, TypeOK', NEW g \in Guids, NEW n \in Names, NEW t \in Times,
           lastTrue[g][n] <= lastTrue'[g][n], CalledAround(g, n, t)
    PROVE  t <= lastTrue'[g][n] + Ttl + FetchSpan
BY McpAssumption, TtlAssumption DEF TypeOK, CalledAround, Times

LEMMA CallStays ==
    ASSUME TypeOK, TypeOK', UNCHANGED flags, NEW d \in Calls, CallInv(d),
           pc'[d] = pc[d], tool'[d] = tool[d], arg'[d] = arg[d], ws'[d] = ws[d],
           learnt'[d] = learnt[d], reach'[d] = reach[d],
           \A g \in Guids, n \in Names : lastTrue[g][n] <= lastTrue'[g][n],
           pc[d] = "put" => now' <= learnt[d] + FetchSpan
    PROVE  CallInv(d)'
<1> USE McpAssumption, TtlAssumption
<1>1. /\ UNCHANGED <<readonly, destructive, Allowed, Restricted>>
      /\ ws[d] \in Guids \cup {NoArg} /\ learnt[d] \in Times /\ reach[d] \subseteq Guids
    BY DEF flags, Allowed, Restricted, TypeOK
<1>2. Resolved(d) => Resolved(d)'
    BY <1>1, CalledAroundStays DEF Resolved, CalledAround
<1>3. ASSUME NEW g \in Guids, Listed(g, learnt[d]) PROVE Listed(g, learnt[d])'
    BY <1>1, <1>3, CalledAroundStays DEF Listed, CalledAround
<1>4. NotYet(d)' /\ PastGate(d)' /\ OneOnly(d)'
    BY <1>1 DEF CallInv, NotYet, PastGate, OneOnly, GateOpen
<1>5. Answered(d)'
    <2> SUFFICES ASSUME pc[d] = "put" PROVE Answered(d)'
        BY DEF Answered
    <2>1. arg[d] \in Names /\ ws[d] \in Guids /\ learnt[d] <= lastTrue[ws[d]][arg[d]]
        BY DEF CallInv, OneOnly, Answered
    <2>2. lastTrue[ws[d]][arg[d]] \in Nat /\ lastTrue'[ws[d]][arg[d]] \in Nat /\ learnt[d] \in Nat
        BY <1>1, <2>1 DEF TypeOK, Times
    <2>3. lastTrue[ws[d]][arg[d]] <= lastTrue'[ws[d]][arg[d]]
        BY <2>1
    <2>4. learnt[d] <= lastTrue'[ws[d]][arg[d]]
        BY <2>1, <2>2, <2>3
    <2>. QED
        BY <2>1, <2>4 DEF Answered
<1>6. Found(d)' /\ Serving(d)'
    BY <1>1, <1>2 DEF CallInv, Found, Serving, AllowedAfter
<1>7. Served(d)'
    BY <1>1, <1>3 DEF CallInv, Served, LateCheck
<1>8. Denial(d)'
    BY <1>1, <1>2 DEF CallInv, Denial, AllowedAfter, AllowedBefore
<1>. QED
    BY <1>4, <1>5, <1>6, <1>7, <1>8 DEF CallInv

-----------------------------------------------------------------------------
\* The step of a call that leaves flags, names, cache and clock alone keeps
\* the invariant if it keeps types and what concerns the call itself.
LEMMA CallStep ==
    ASSUME IInv, TypeOK', UNCHANGED <<flags, nameOf, doc, now, lastTrue>>, NEW c \in Calls,
           CallInv(c)',
           \A d \in Calls \ {c} :
              /\ pc'[d] = pc[d] /\ tool'[d] = tool[d] /\ arg'[d] = arg[d]
              /\ ws'[d] = ws[d] /\ learnt'[d] = learnt[d] /\ reach'[d] = reach[d]
    PROVE  IInv'
<1>1. NamesTimed' /\ CacheWasRight'
    BY DEF IInv, NamesTimed, CacheWasRight
<1>2. \A g \in Guids, n \in Names : lastTrue[g][n] <= lastTrue'[g][n]
    BY McpAssumption DEF IInv, TypeOK, Times
<1>3. ASSUME NEW d \in Calls \ {c} PROVE CallInv(d)'
    <2>1. CallInv(d)
        BY DEF IInv
    <2>2. pc[d] = "put" => now' <= learnt[d] + FetchSpan
        BY <2>1 DEF CallInv, Answered
    <2>. QED
        BY <1>2, <2>1, <2>2, CallStays DEF IInv
<1>. QED
    BY <1>1, <1>3 DEF IInv

LEMMA SubmitStep ==
    ASSUME IInv, NEW c \in Calls, NEW r \in Requests[c], Submit(c, r[1], r[2])
    PROVE  IInv'
<1> DEFINE t == r[1]
           a == r[2]
<1>1. t \in Kinds /\ a \in ArgsOf(t)
    BY McpAssumption
<1>2. TypeOK'
    BY <1>1, McpAssumption DEF IInv, TypeOK, Submit, Goto, Places, ArgsOf, flags
<1>3. /\ tool'[c] = t /\ arg'[c] = a
      /\ pc'[c] \in {"gated", "denied", "lookup", "serve"}
      /\ pc'[c] = "denied" => ~ Admitted(t, a)
      /\ pc'[c] \in {"lookup", "serve"} => GateOpen(t) /\ Admitted(t, a)
      /\ pc'[c] = "lookup" => t.scope = "one"
      /\ pc'[c] = "serve" => t.scope # "one"
    BY <1>1, <1>2 DEF IInv, TypeOK, Submit, Goto
<1>4. UNCHANGED <<readonly, destructive, Allowed, Restricted>>
    BY DEF Submit, flags, Allowed, Restricted
<1>5. a \in Names => t.scope = "one"
    BY <1>1, McpAssumption DEF ArgsOf
<1>6. CallInv(c)'
    <2>1. PastGate(c)' /\ OneOnly(c)'
        BY <1>1, <1>3, <1>4 DEF PastGate, OneOnly, GateOpen, ArgsOf
    <2>2. Answered(c)' /\ Found(c)' /\ Served(c)'
        BY <1>3 DEF Answered, Found, Served
    <2>5. NotYet(c)'
        BY DEF IInv, CallInv, NotYet, Submit
    <2>3. Serving(c)'
        BY <1>3, <1>4 DEF Serving, Admitted
    <2>4. Denial(c)'
        BY <1>3, <1>4, <1>5 DEF Denial, Admitted, AllowedBefore
    <2>. QED
        BY <2>1, <2>2, <2>3, <2>4, <2>5 DEF CallInv
<1>7. UNCHANGED <<flags, nameOf, doc, now, lastTrue>>
    BY DEF Submit
<1>8. \A d \in Calls \ {c} :
         /\ pc'[d] = pc[d] /\ tool'[d] = tool[d] /\ arg'[d] = arg[d]
         /\ ws'[d] = ws[d] /\ learnt'[d] = learnt[d] /\ reach'[d] = reach[d]
    BY DEF IInv, TypeOK, Submit, Goto
<1>. QED
    BY <1>2, <1>6, <1>7, <1>8, CallStep

\* TakeGuid, Hit and Answer.
LEMMA ResolveStep ==
    ASSUME IInv, NEW c \in Calls, NEW g \in Guids, NEW place \in {"found", "put"},
           pc[c] \in {"lookup", "ask"}, Resolve(c, g, place),
           place = "found" => g = arg[c] \/ (arg[c] \in Names /\ CalledAround(g, arg[c], now)),
           place = "put" => arg[c] \in Names /\ lastTrue[g][arg[c]] = now
    PROVE  IInv'
<1>1. TypeOK'
    BY DEF IInv, TypeOK, Resolve, Goto, Places, flags
<1>2. /\ pc'[c] = place /\ ws'[c] = g /\ learnt'[c] = now
      /\ UNCHANGED <<flags, nameOf, doc, now, lastTrue, tool, arg, reach>>
    BY DEF IInv, TypeOK, Resolve, Goto
<1>3. CallInv(c)
    BY DEF IInv
<1>4. NotYet(c)' /\ PastGate(c)' /\ OneOnly(c)'
    BY <1>2, <1>3 DEF CallInv, NotYet, PastGate, OneOnly, GateOpen, flags, ArgsOf
<1>5. Answered(c)'
    BY <1>2, McpAssumption DEF Answered, IInv, TypeOK, Times
<1>6. Found(c)'
    BY <1>2 DEF Found, Resolved, CalledAround
<1>7. Serving(c)' /\ Served(c)' /\ Denial(c)'
    BY <1>2 DEF Serving, Served, Denial
<1>8. CallInv(c)'
    BY <1>4, <1>5, <1>6, <1>7 DEF CallInv
<1>9. \A d \in Calls \ {c} :
         /\ pc'[d] = pc[d] /\ tool'[d] = tool[d] /\ arg'[d] = arg[d]
         /\ ws'[d] = ws[d] /\ learnt'[d] = learnt[d] /\ reach'[d] = reach[d]
    BY DEF IInv, TypeOK, Resolve, Goto
<1>. QED
    BY <1>1, <1>2, <1>8, <1>9, CallStep

LEMMA TakeGuidStep ==
    ASSUME IInv, NEW c \in Calls, TakeGuid(c)
    PROVE  IInv'
<1>1. PICK g \in Guids : g = arg[c] /\ Resolve(c, g, "found")
    BY DEF TakeGuid
<1>. QED
    BY <1>1, ResolveStep DEF TakeGuid

LEMMA HitStep ==
    ASSUME IInv, NEW c \in Calls, Hit(c)
    PROVE  IInv'
<1>1. PICK e \in GetWorkspace(doc, arg[c], now) : Resolve(c, e.id, "found")
    BY DEF Hit
<1>2. /\ arg[c] \in DOMAIN doc.workspaces
      /\ e = doc.workspaces[arg[c]] /\ now < e.at + Ttl
    BY DEF GetWorkspace, Fresh
<1>3. arg[c] \in Names /\ e.id \in Guids /\ e.at \in Times /\ now \in Times
    BY <1>2 DEF IInv, TypeOK
<1>4. e.at <= lastTrue[e.id][arg[c]] + FetchSpan
    BY <1>2 DEF IInv, CacheWasRight
<1>5. lastTrue[e.id][arg[c]] \in Nat
    BY <1>3 DEF IInv, TypeOK, Times
<1>6. CalledAround(e.id, arg[c], now)
    BY <1>2, <1>3, <1>4, <1>5, McpAssumption, TtlAssumption DEF CalledAround, Times
<1>. QED
    BY <1>1, <1>3, <1>6, ResolveStep DEF Hit

LEMMA AnswerStep ==
    ASSUME IInv, NEW c \in Calls, Answer(c)
    PROVE  IInv'
<1>1. PICK g \in Guids : Called(arg[c]) = {g} /\ Resolve(c, g, "put")
    BY DEF Answer
<1>2. arg[c] \in Names
    BY DEF Answer, IInv, CallInv, OneOnly
<1>3. nameOf[g] = arg[c]
    BY <1>1 DEF Called
<1>4. lastTrue[g][arg[c]] = now
    BY <1>2, <1>3 DEF IInv, NamesTimed
<1>. QED
    BY <1>1, <1>2, <1>4, ResolveStep DEF Answer

\* Miss, NotFoundOrAmbiguous, Fail and Authorize move a call and no more.
LEMMA MoveStep ==
    ASSUME IInv, NEW c \in Calls, NEW place \in {"ask", "failed", "serve", "denied"},
           Goto(c, place),
           UNCHANGED <<flags, nameOf, doc, now, tool, arg, ws, learnt, reach, lastTrue>>,
           place = "ask" => pc[c] = "lookup" /\ arg[c] \in Names,
           place = "serve" => pc[c] = "found" /\ AllowedAfter(arg[c], ws[c]),
           place = "denied" => pc[c] = "found" /\ ~ AllowedAfter(arg[c], ws[c]),
           pc[c] \notin {"idle", "served"}
    PROVE  IInv'
<1>1. TypeOK'
    BY DEF IInv, TypeOK, Goto, Places, flags
<1>2. /\ pc'[c] = place
      /\ UNCHANGED <<readonly, destructive, Allowed, Restricted>>
    BY DEF IInv, TypeOK, Goto, flags, Allowed, Restricted
<1>3. CallInv(c)
    BY DEF IInv
<1>4. NotYet(c)' /\ PastGate(c)' /\ OneOnly(c)'
    BY <1>2, <1>3 DEF CallInv, NotYet, PastGate, OneOnly, GateOpen
<1>5. Answered(c)' /\ Found(c)' /\ Served(c)'
    BY <1>2 DEF Answered, Found, Served
<1>6. Serving(c)'
    BY <1>2, <1>3 DEF CallInv, Serving, Found, Resolved, CalledAround, AllowedAfter, OneOnly
<1>7. Denial(c)'
    BY <1>2, <1>3 DEF CallInv, Denial, Found, Resolved, CalledAround, AllowedAfter
<1>8. CallInv(c)'
    BY <1>4, <1>5, <1>6, <1>7 DEF CallInv
<1>9. \A d \in Calls \ {c} :
         /\ pc'[d] = pc[d] /\ tool'[d] = tool[d] /\ arg'[d] = arg[d]
         /\ ws'[d] = ws[d] /\ learnt'[d] = learnt[d] /\ reach'[d] = reach[d]
    BY DEF IInv, TypeOK, Goto
<1>. QED
    BY <1>1, <1>8, <1>9, CallStep

\* The timestamp that the cache gets is at most FetchSpan younger than the
\* answer that it keeps.
LEMMA PutStep ==
    ASSUME IInv, NEW c \in Calls, Put(c)
    PROVE  IInv'
<1> USE McpAssumption
<1> DEFINE entry == [id |-> ws[c], at |-> now]
<1>1. CallInv(c) /\ arg[c] \in Names /\ ws[c] \in Guids
    BY DEF IInv, Put, CallInv, OneOnly, Answered
<1>2. doc' = [workspaces |-> With(doc.workspaces, arg[c], entry), items |-> EmptyMap]
    BY DEF IInv, TypeOK, Put, PutWorkspace
<1>3. /\ DOMAIN doc'.workspaces = DOMAIN doc.workspaces \cup {arg[c]}
      /\ \A n \in DOMAIN doc'.workspaces :
            doc'.workspaces[n] = IF n = arg[c] THEN entry ELSE doc.workspaces[n]
    BY <1>2 DEF With
<1>4. TypeOK'
    BY <1>1, <1>2, <1>3 DEF IInv, TypeOK, Put, Goto, Places, flags
<1>5. NamesTimed'
    BY DEF IInv, NamesTimed, Put
<1>6. CacheWasRight'
    <2> SUFFICES ASSUME NEW n \in DOMAIN doc'.workspaces
                 PROVE  doc'.workspaces[n].at
                           <= lastTrue[doc'.workspaces[n].id][n] + FetchSpan
        BY DEF CacheWasRight, Put
    <2>1. CASE n = arg[c]
        <3>1. learnt[c] <= lastTrue[ws[c]][arg[c]] /\ now <= learnt[c] + FetchSpan
            BY <1>1 DEF CallInv, Answered, Put
        <3>2. learnt[c] \in Nat /\ now \in Nat /\ lastTrue[ws[c]][arg[c]] \in Nat
            BY <1>1 DEF IInv, TypeOK, Times
        <3>3. now <= lastTrue[ws[c]][arg[c]] + FetchSpan
            BY <3>1, <3>2
        <3>. QED
            BY <1>3, <2>1, <3>3
    <2>2. CASE n # arg[c]
        BY <1>3, <2>2 DEF IInv, CacheWasRight
    <2>. QED
        BY <2>1, <2>2
<1>7. CallInv(c)'
    <2>1. /\ pc'[c] = "found"
          /\ UNCHANGED <<flags, now, tool, arg, ws, learnt, reach, lastTrue>>
        BY DEF IInv, TypeOK, Put, Goto
    <2>2. NotYet(c)' /\ PastGate(c)' /\ OneOnly(c)'
        BY <1>1, <2>1 DEF CallInv, NotYet, PastGate, OneOnly, GateOpen, Put, flags
    <2>3. CalledAround(ws[c], arg[c], learnt[c])
        <3>1. learnt[c] <= lastTrue[ws[c]][arg[c]]
            BY <1>1 DEF CallInv, Answered, Put
        <3>2. learnt[c] \in Nat /\ lastTrue[ws[c]][arg[c]] \in Nat
            BY <1>1 DEF IInv, TypeOK, Times
        <3>. QED
            BY <3>1, <3>2, TtlAssumption DEF CalledAround
    <2>4. Found(c)'
        BY <1>1, <2>1, <2>3 DEF Found, Resolved, CalledAround
    <2>5. Answered(c)' /\ Serving(c)' /\ Served(c)' /\ Denial(c)'
        BY <2>1 DEF Answered, Serving, Served, Denial
    <2>. QED
        BY <2>2, <2>4, <2>5 DEF CallInv
<1>8. ASSUME NEW d \in Calls \ {c} PROVE CallInv(d)'
    <2>1. CallInv(d)
        BY DEF IInv
    <2>2. /\ pc'[d] = pc[d]
          /\ UNCHANGED <<flags, now, tool, arg, ws, learnt, reach, lastTrue>>
        BY DEF IInv, TypeOK, Put, Goto
    <2>3. pc[d] = "put" => now' <= learnt[d] + FetchSpan
        BY <2>1, <2>2 DEF CallInv, Answered
    <2>4. \A g \in Guids, n \in Names : lastTrue[g][n] <= lastTrue'[g][n]
        BY <2>2 DEF IInv, TypeOK, Times
    <2>. QED
        BY <1>4, <2>1, <2>2, <2>3, <2>4, CallStays DEF IInv
<1>. QED
    BY <1>4, <1>5, <1>6, <1>7, <1>8 DEF IInv

LEMMA ServeStep ==
    ASSUME IInv, NEW c \in Calls, Serve(c)
    PROVE  IInv'
<1> USE McpAssumption
<1>1. CallInv(c) /\ pc[c] = "serve"
    BY DEF IInv, Serve
<1>2. tool[c] \in Kinds /\ ws[c] \in Guids \cup {NoArg}
    BY DEF IInv, TypeOK
<1>3. tool[c].scope = "one" => ws[c] \in Guids
    BY <1>1 DEF CallInv, Serving, Resolved
<1>4. Works(c) \subseteq Guids
    BY <1>3 DEF Works
<1>5. TypeOK'
    <2>1. UNCHANGED <<readonly, destructive, envList, configList, nameOf, doc, now,
                      tool, arg, ws, lastTrue>>
        BY DEF Serve, flags
    <2>2. pc' \in [Calls -> Places]
        BY DEF IInv, TypeOK, Serve, Goto, Places
    <2>3. reach' \in [Calls -> SUBSET Guids]
        BY <1>4 DEF IInv, TypeOK, Serve
    <2>4. learnt' \in [Calls -> Times]
        BY DEF IInv, TypeOK, Serve
    <2>. QED
        BY <2>1, <2>2, <2>3, <2>4 DEF IInv, TypeOK
<1>6. /\ pc'[c] = IF LateCheck(c) THEN "served" ELSE "gated"
      /\ LateCheck(c) =>
            /\ reach'[c] = Works(c)
            /\ learnt'[c] = IF tool[c].scope = "one" THEN learnt[c] ELSE now
      /\ UNCHANGED <<flags, nameOf, doc, now, tool, arg, ws, lastTrue>>
    BY DEF IInv, TypeOK, Serve, Goto
<1>7. UNCHANGED <<readonly, destructive, Allowed, Restricted>>
    BY <1>6 DEF flags, Allowed, Restricted
<1>8. PastGate(c)' /\ OneOnly(c)'
    BY <1>1, <1>6, <1>7 DEF CallInv, PastGate, OneOnly, GateOpen
<1>13. NotYet(c)'
    BY <1>1, <1>6 DEF CallInv, NotYet, Serve
<1>9. Answered(c)' /\ Found(c)' /\ Serving(c)' /\ Denial(c)'
    BY <1>6 DEF Answered, Found, Serving, Denial
<1>10. Served(c)'
    <2> SUFFICES ASSUME LateCheck(c) PROVE Served(c)'
        BY <1>6 DEF Served
    <2>1. LateCheck(c)'
        BY <1>6, <1>7 DEF LateCheck
    <2>2. ASSUME NEW g \in Works(c), tool[c].scope = "one" PROVE Listed(g, learnt'[c])
        BY <1>1, <1>6, <2>2
           DEF Works, CallInv, Serving, Resolved, AllowedAfter, Listed
    <2>3. ASSUME NEW g \in Works(c), tool[c].scope = "all" PROVE Listed(g, learnt'[c])
        BY <1>1, <2>3 DEF CallInv, Serving, Listed
    <2>4. ASSUME NEW g \in Works(c), tool[c].scope = "listed" PROVE Listed(g, learnt'[c])
        <3>1. g \in Guids /\ InAllowlist(g) /\ learnt'[c] = now
            BY <1>6, <2>4 DEF Works
        <3>2. nameOf[g] \in Names /\ lastTrue[g][nameOf[g]] = now /\ now \in Nat
            BY <3>1 DEF IInv, TypeOK, NamesTimed, Times
        <3>3. CalledAround(g, nameOf[g], learnt'[c])
            BY <3>1, <3>2, TtlAssumption DEF CalledAround
        <3>. QED
            BY <3>1, <3>2, <3>3 DEF InAllowlist, Listed
    <2>5. \A g \in Works(c) : Listed(g, learnt'[c])
        BY <2>2, <2>3, <2>4 DEF Works
    <2>. QED
        BY <1>6, <1>7, <2>1, <2>5 DEF Served, Listed, CalledAround
<1>11. CallInv(c)'
    BY <1>8, <1>9, <1>10, <1>13 DEF CallInv
<1>12. \A d \in Calls \ {c} :
         /\ pc'[d] = pc[d] /\ tool'[d] = tool[d] /\ arg'[d] = arg[d]
         /\ ws'[d] = ws[d] /\ learnt'[d] = learnt[d] /\ reach'[d] = reach[d]
    BY DEF IInv, TypeOK, Serve, Goto
<1>. QED
    BY <1>5, <1>6, <1>11, <1>12, CallStep

LEMMA ClearStep ==
    ASSUME IInv, NEW c \in Calls, ClearCache(c)
    PROVE  IInv'
<1> USE McpAssumption
<1>1. /\ doc' = [workspaces |-> doc'.workspaces, items |-> EmptyMap]
      /\ doc'.workspaces = EmptyMap \/ doc'.workspaces = doc.workspaces
    <2>1. PICK scope \in {"workspaces", "items", "all"} : doc' = Clear(doc, scope)
        BY DEF ClearCache
    <2>2. doc = [workspaces |-> doc.workspaces, items |-> EmptyMap]
        BY DEF IInv, TypeOK
    <2>3. CASE scope = "all"
        BY <2>1, <2>3 DEF Clear, EmptyDoc
    <2>4. CASE scope = "items"
        <3>1. doc' = [doc EXCEPT !["items"] = EmptyMap]
            BY <2>1, <2>4 DEF Clear
        <3>2. doc' = [workspaces |-> doc.workspaces, items |-> EmptyMap]
            BY <2>2, <3>1, Zenon
        <3>. QED
            BY <3>2
    <2>5. CASE scope = "workspaces"
        <3>1. doc' = [doc EXCEPT !["workspaces"] = EmptyMap]
            BY <2>1, <2>5 DEF Clear
        <3>2. ASSUME NEW w
              PROVE  [[workspaces |-> w, items |-> EmptyMap] EXCEPT !["workspaces"] = EmptyMap]
                        = [workspaces |-> EmptyMap, items |-> EmptyMap]
            OBVIOUS
        <3>3. doc' = [workspaces |-> EmptyMap, items |-> EmptyMap]
            BY <2>2, <3>1, <3>2, Zenon
        <3>. QED
            BY <3>3
    <2>. QED
        BY <2>3, <2>4, <2>5
<1>2. /\ DOMAIN doc'.workspaces \subseteq DOMAIN doc.workspaces
      /\ \A n \in DOMAIN doc'.workspaces : doc'.workspaces[n] = doc.workspaces[n]
    BY <1>1 DEF EmptyMap
<1>3. UNCHANGED <<flags, nameOf, now, tool, arg, ws, learnt, reach, lastTrue>>
    BY DEF ClearCache
<1>4. TypeOK'
    <2>1. pc' \in [Calls -> Places]
        BY DEF IInv, TypeOK, ClearCache, Goto, Places
    <2>. QED
        BY <1>1, <1>2, <1>3, <2>1 DEF IInv, TypeOK, flags
<1>5. NamesTimed' /\ CacheWasRight'
    BY <1>2, <1>3 DEF IInv, NamesTimed, CacheWasRight
<1>6. /\ tool[c].scope = "cache" /\ pc'[c] = "served" /\ pc[c] = "serve"
      /\ CallInv(c)
    BY DEF IInv, TypeOK, ClearCache, Goto
<1>7. CallInv(c)'
    <2>1. NotYet(c)' /\ PastGate(c)' /\ OneOnly(c)'
        BY <1>3, <1>6 DEF CallInv, NotYet, PastGate, OneOnly, GateOpen, flags
    <2>2. Answered(c)' /\ Found(c)' /\ Serving(c)' /\ Denial(c)'
        BY <1>6 DEF Answered, Found, Serving, Denial
    <2>3. tool[c].gate = "open"
        BY <1>6, KindFits DEF IInv, TypeOK, Fits
    <2>4. Served(c)'
        BY <1>3, <1>6, <2>3 DEF CallInv, NotYet, Served, LateCheck
    <2>. QED
        BY <2>1, <2>2, <2>4 DEF CallInv
<1>8. ASSUME NEW d \in Calls \ {c} PROVE CallInv(d)'
    <2>1. CallInv(d) /\ pc'[d] = pc[d]
        BY DEF IInv, TypeOK, ClearCache, Goto
    <2>2. pc[d] = "put" => now' <= learnt[d] + FetchSpan
        BY <1>3, <2>1 DEF CallInv, Answered
    <2>3. \A g \in Guids, n \in Names : lastTrue[g][n] <= lastTrue'[g][n]
        BY <1>3 DEF IInv, TypeOK, Times
    <2>. QED
        BY <1>3, <1>4, <2>1, <2>2, <2>3, CallStays DEF IInv
<1>. QED
    BY <1>4, <1>5, <1>7, <1>8 DEF IInv

\* Renames and the clock.
LEMMA WorldStep ==
    ASSUME IInv, \/ \E g \in Guids, n \in Names : Rename(g, n)
                 \/ Tick
    PROVE  IInv'
<1> USE McpAssumption
<1>1. UNCHANGED <<flags, doc, callVars>>
    BY DEF Rename, Tick
<1>2. /\ nameOf' \in [Guids -> Names]
      /\ now \in Times /\ now' \in Times
      /\ lastTrue' \in [Guids -> [Names -> Times]]
    <2>1. now \in Times
        BY DEF IInv, TypeOK
    <2>2. CASE Tick
        <3>1. now' = now + 1 /\ now' \in Times /\ UNCHANGED nameOf
            BY <2>1, <2>2 DEF Tick, Times
        <3>2. lastTrue' = [g \in Guids |-> [n \in Names |->
                              IF nameOf[g] = n THEN now' ELSE lastTrue[g][n]]]
            BY <2>2, <3>1 DEF Tick
        <3>3. lastTrue' \in [Guids -> [Names -> Times]]
            BY <3>1, <3>2 DEF IInv, TypeOK
        <3>. QED
            BY <2>1, <3>1, <3>3 DEF IInv, TypeOK
    <2>3. ASSUME NEW g \in Guids, NEW n \in Names, Rename(g, n)
          PROVE  /\ nameOf' \in [Guids -> Names] /\ now' = now
                 /\ lastTrue' \in [Guids -> [Names -> Times]]
        BY <2>1, <2>3 DEF IInv, TypeOK, Rename
    <2>. QED
        BY <2>1, <2>2, <2>3
<1>3. TypeOK'
    BY <1>1, <1>2 DEF IInv, TypeOK, flags, callVars
<1>4. /\ \A h \in Guids, m \in Names : lastTrue[h][m] <= lastTrue'[h][m]
      /\ NamesTimed'
    <2>1. CASE Tick
        BY <2>1 DEF IInv, TypeOK, NamesTimed, Tick, Times
    <2>2. ASSUME NEW g \in Guids, NEW n \in Names, Rename(g, n)
          PROVE  /\ \A h \in Guids, m \in Names : lastTrue[h][m] <= lastTrue'[h][m]
                 /\ NamesTimed'
        BY <2>2 DEF IInv, TypeOK, NamesTimed, Rename, Times
    <2>. QED
        BY <2>1, <2>2
<1>5. CacheWasRight'
    <2> SUFFICES ASSUME NEW n \in DOMAIN doc.workspaces
                 PROVE  doc.workspaces[n].at
                           <= lastTrue'[doc.workspaces[n].id][n] + FetchSpan
        BY <1>1 DEF CacheWasRight
    <2>1. n \in Names /\ doc.workspaces[n].id \in Guids /\ doc.workspaces[n].at \in Nat
        BY DEF IInv, TypeOK, Times
    <2>2. /\ lastTrue[doc.workspaces[n].id][n] \in Nat
          /\ lastTrue'[doc.workspaces[n].id][n] \in Nat
          /\ lastTrue[doc.workspaces[n].id][n] <= lastTrue'[doc.workspaces[n].id][n]
        BY <1>2, <1>4, <2>1 DEF IInv, TypeOK, Times
    <2>3. doc.workspaces[n].at <= lastTrue[doc.workspaces[n].id][n] + FetchSpan
        BY DEF IInv, CacheWasRight
    <2>. QED
        BY <2>1, <2>2, <2>3
<1>6. ASSUME NEW c \in Calls PROVE CallInv(c)'
    <2>1. CallInv(c)
        BY DEF IInv
    <2>2. ASSUME pc[c] = "put" PROVE now' <= learnt[c] + FetchSpan
        <3>1. learnt[c] \in Nat /\ now \in Nat /\ now <= learnt[c] + FetchSpan
            BY <2>1, <2>2 DEF IInv, TypeOK, Times, CallInv, Answered
        <3>. QED
            BY <2>2, <3>1 DEF Rename, Tick
    <2>. QED
        BY <1>1, <1>3, <1>4, <2>1, <2>2, CallStays DEF IInv, callVars
<1>. QED
    BY <1>3, <1>4, <1>5, <1>6 DEF IInv

LEMMA StepIInv == IInv /\ [Next]_vars => IInv'
<1> SUFFICES ASSUME IInv, [Next]_vars PROVE IInv'
    OBVIOUS
<1>1. CASE UNCHANGED vars
    <2>1. UNCHANGED <<flags, nameOf, doc, now, callVars, lastTrue>>
        BY <1>1 DEF vars
    <2>. QED
        BY <2>1
           DEF IInv, TypeOK, NamesTimed, CacheWasRight, CallInv, NotYet, PastGate, OneOnly,
               Answered, Found, Serving, Served, Denial, Resolved, Listed, CalledAround,
               AllowedBefore, AllowedAfter, GateOpen, LateCheck, Allowed, Restricted,
               flags, callVars
<1>2. ASSUME NEW c \in Calls, Step(c) PROVE IInv'
    <2>1. ASSUME NEW r \in Requests[c], Submit(c, r[1], r[2]) PROVE IInv'
        BY <2>1, SubmitStep
    <2>2. CASE TakeGuid(c)
        BY <2>2, TakeGuidStep
    <2>3. CASE Hit(c)
        BY <2>3, HitStep
    <2>4. CASE Miss(c)
        BY <2>4, MoveStep DEF Miss
    <2>5. CASE Answer(c)
        BY <2>5, AnswerStep
    <2>6. CASE NotFoundOrAmbiguous(c)
        BY <2>6, MoveStep DEF NotFoundOrAmbiguous
    <2>7. CASE Put(c)
        BY <2>7, PutStep
    <2>8. CASE Authorize(c)
        <3>1. CASE AllowedAfter(arg[c], ws[c])
            BY <2>8, <3>1, MoveStep DEF Authorize
        <3>2. CASE ~ AllowedAfter(arg[c], ws[c])
            BY <2>8, <3>2, MoveStep DEF Authorize
        <3>. QED
            BY <3>1, <3>2
    <2>9. CASE Serve(c)
        BY <2>9, ServeStep
    <2>10. CASE ClearCache(c)
        BY <2>10, ClearStep
    <2>11. CASE Fail(c)
        <3>1. pc[c] \notin {"idle", "served"}
            BY <2>11 DEF Fail, Over
        <3>. QED
            BY <2>11, <3>1, MoveStep DEF Fail
    <2>. QED
        BY <1>2, <2>1, <2>2, <2>3, <2>4, <2>5, <2>6, <2>7, <2>8, <2>9, <2>10, <2>11 DEF Step
<1>. QED
    BY <1>1, <1>2, WorldStep DEF Next

LEMMA InvariantCorrect == Spec => []IInv
BY InitIInv, StepIInv, PTL DEF Spec

-----------------------------------------------------------------------------
\* The variables keep their types: the cache maps names of workspaces to GUIDs
\* and never learns anything else, whatever the server answers.
THEOREM McpTypeCorrect == Spec => []TypeOK
<1>1. IInv => TypeOK
    BY DEF IInv
<1>. QED
    BY InvariantCorrect, <1>1, PTL

\* In read-only mode no service call changes the server, whichever of the tools
\* is called and whatever guards its body has besides.
THEOREM ReadOnlyCorrect == Spec => []ReadOnlyChangesNothing
<1>1. IInv => ReadOnlyChangesNothing
    <2> SUFFICES ASSUME IInv, NEW c \in Calls, pc[c] = "served",
                        tool[c].effect \in {"change", "remove"}
                 PROVE  ~ readonly
        BY DEF ReadOnlyChangesNothing
    <2>1. tool[c] \in Kinds /\ GateOpen(tool[c])
        BY DEF IInv, TypeOK, CallInv, PastGate
    <2>. QED
        BY <2>1, KindFits DEF GateOpen, Fits
<1>. QED
    BY InvariantCorrect, <1>1, PTL

\* Both flags stand behind every removal, those that an argument or the state of
\* a table makes of a call included.
THEOREM RemovalsCorrect == Spec => []RemovalsNeedBothFlags
<1>1. IInv => RemovalsNeedBothFlags
    <2> SUFFICES ASSUME IInv, NEW c \in Calls, pc[c] = "served",
                        tool[c].effect = "remove", tool[c].gate # "select"
                 PROVE  destructive /\ ~ readonly
        BY DEF RemovalsNeedBothFlags
    <2>1. tool[c] \in Kinds /\ GateOpen(tool[c]) /\ LateCheck(c)
        BY DEF IInv, TypeOK, CallInv, PastGate, Served
    <2>2. tool[c].gate \in {"destructive", "late"}
        BY <2>1, KindFits DEF Fits
    <2>. QED
        BY <2>1, <2>2 DEF GateOpen, LateCheck
<1>. QED
    BY InvariantCorrect, <1>1, PTL

\* No call works on a workspace that is not listed by GUID or by a name it had
\* when that name was last looked up, for any allowlist and any renames.
THEOREM AllowlistCorrect == Spec => []OnlyListedWorkspaces
<1>1. IInv => OnlyListedWorkspaces
    BY DEF IInv, CallInv, Served, Listed, OnlyListedWorkspaces
<1>. QED
    BY InvariantCorrect, <1>1, PTL

\* A name is refused only when it cannot stand for a listed workspace.
THEOREM DenialCorrect == Spec => []NoHastyDenial
<1>1. IInv => NoHastyDenial
    <2> SUFFICES ASSUME IInv, NEW c \in Calls, pc[c] = "denied", arg[c] \in Names
                 PROVE  /\ arg[c] \notin Allowed
                        /\ \/ Allowed \cap Guids = {}
                           \/ /\ ws[c] \in Guids \ Allowed
                              /\ CalledAround(ws[c], arg[c], learnt[c])
        BY DEF NoHastyDenial
    <2>1. \/ ~ AllowedBefore(arg[c])
          \/ Resolved(c) /\ ~ AllowedAfter(arg[c], ws[c])
        BY DEF IInv, CallInv, Denial
    <2>2. arg[c] \notin Guids
        BY McpAssumption
    <2>. QED
        BY <2>1, <2>2 DEF AllowedBefore, AllowedAfter, Resolved
<1>. QED
    BY InvariantCorrect, <1>1, PTL
=============================================================================
