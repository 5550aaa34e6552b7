------------------------------ MODULE Settings ------------------------------
(***************************************************************************)
(* The settings that are written by reading a whole document, changing a   *)
(* field and sending the whole document back: services/audit.py (the SQL   *)
(* audit of an item) and services/sql_pools.py (the SQL pools of a         *)
(* workspace).  The API has no ETags, resets a field that a PATCH omits,   *)
(* and its audit GET lags behind; several processes may be at it.          *)
(***************************************************************************)
EXTENDS FiniteSetsExt

CONSTANTS
    Callers,          \* calls in flight or yet to begin, one per process
    AuditRequests,    \* requests to the functions of audit.py
    PoolRequests,     \* requests to the functions of sql_pools.py
    Audits,           \* audit documents there may be at first
    Keep,             \* an argument of update_pool that is None
    PoolConfigs       \* pool configurations there may be at first

\* An audit document has these fields, and a request the arguments of its function.
ASSUME SettingsAssumption ==
    /\ \A d \in Audits :
         DOMAIN d = {"state", "retention", "groups"} /\ d.state \in {"Enabled", "Disabled"}
    /\ \A r \in AuditRequests :
         /\ r.op \in {"audit_enable", "set_retention"} => "days" \in DOMAIN r
         /\ r.op = "set_action_groups" => "groups" \in DOMAIN r
         /\ r.op \in {"add_action_group", "remove_action_group"} => "group" \in DOMAIN r

VARIABLES
    first,        \* AuditSettings at the start
    audit,        \* AuditSettings as the service holds it
    auditSeen,    \* versions of it that a GET may still return
    pools,        \* SqlPoolsConfiguration as the service holds it
    request,      \* request[c]: the call of c
    pc,
    current,      \* current[c]: the document read before the PATCH
    body          \* body[c]: the document to send

vars == <<first, audit, auditSeen, pools, request, pc, current, body>>

NoDoc == [state |-> "none"]
DefaultRetention == 0      \* what the service makes of an omitted field

-----------------------------------------------------------------------------
(* audit.py: [state, retention, groups].  A request names its function, and *)
(* the value of its argument.                                               *)

IsAudit(r) ==
    r.op \in {"audit_get", "audit_enable", "audit_disable", "set_retention",
              "set_action_groups", "add_action_group", "remove_action_group"}

\* retention_days < 0, days < 1.
AuditArgumentBad(r) ==
    \/ r.op = "audit_enable" /\ r.days < 0
    \/ r.op = "set_retention" /\ r.days < 1

\* _require_enabled
RequiresEnabled(r) == r.op \in {"set_retention", "add_action_group", "remove_action_group"}
AuditRefuses(r, doc) == RequiresEnabled(r) /\ doc.state = "Disabled"

\* The early returns of the group operations.
AuditUnchanged(r, doc) ==
    \/ r.op = "audit_get"
    \/ r.op = "add_action_group" /\ r.group \in doc.groups
    \/ r.op = "remove_action_group" /\ r.group \notin doc.groups

\* patch_state of set_action_groups
AlwaysEnabled(r, doc) == "Enabled"
GroupsState(r, doc) == IF r.ensureEnabled THEN "Enabled" ELSE doc.state

\* What is sent for the retention when the groups are set.
OmittedRetention(doc) == DefaultRetention
SentRetention(doc) == doc.retention

\* The body of the PATCH: the field asked for, and the others as read.
AuditBody(r, doc) ==
    CASE r.op = "audit_enable" ->
            [state |-> "Enabled", retention |-> r.days, groups |-> doc.groups]
      [] r.op = "audit_disable" -> [doc EXCEPT !.state = "Disabled"]
      [] r.op = "set_retention" -> [doc EXCEPT !.retention = r.days]
      [] r.op = "set_action_groups" ->
            [state |-> GroupsState(r, doc), retention |-> SentRetention(doc), groups |-> r.groups]
      [] r.op = "add_action_group" -> [doc EXCEPT !.groups = @ \cup {r.group}]
      [] r.op = "remove_action_group" -> [doc EXCEPT !.groups = @ \ {r.group}]

\* enable, disable and set_retention re-fetch; the group operations hand back
\* the document they sent, because the GET lags.
Refetches(r) == r.op \notin {"set_action_groups", "add_action_group", "remove_action_group"}

-----------------------------------------------------------------------------
(* sql_pools.py: [state, pools], a pool being [name, share, default].  A     *)
(* request gives a pool, or a name with what is to change (Keep: None).    *)

\* validate_for_patch: at most one default, and shares within 100 percent.
Total(ps) == MapThenSumSet(LAMBDA p : p.share, ps)
NotValidated(doc) == TRUE
Valid(doc) ==
    /\ Total(doc.pools) <= 100
    /\ Cardinality({p \in doc.pools : p.default}) <= 1

\* The service takes no enabled configuration without a pool.
ServiceTakes(doc) == doc.state = "Enabled" => doc.pools # {}

Named(doc, name) == {p \in doc.pools : p.name = name}

PoolRefuses(r, doc) ==
    \/ r.op = "pools_enable" /\ doc.state = "Disabled" /\ doc.pools = {}
    \/ r.op = "create_pool" /\ Named(doc, r.pool.name) # {}
    \/ r.op \in {"update_pool", "delete_pool"} /\ Named(doc, r.name) = {}

PoolUnchanged(r, doc) ==
    \/ r.op = "pools_get"
    \/ r.op = "pools_enable" /\ doc.state = "Enabled"
    \/ r.op = "pools_disable" /\ doc.state = "Disabled"

Kept(old, new) == IF new = Keep THEN old ELSE new
Updated(p, r) == [p EXCEPT !.share = Kept(@, r.share), !.default = Kept(@, r.default)]

PoolBody(r, doc) ==
    CASE r.op = "pools_enable" -> [doc EXCEPT !.state = "Enabled"]
      [] r.op = "pools_disable" -> [doc EXCEPT !.state = "Disabled"]
      [] r.op = "create_pool" -> [doc EXCEPT !.pools = @ \cup {r.pool}]
      [] r.op = "update_pool" ->
            [doc EXCEPT !.pools = (@ \ Named(doc, r.name))
                                    \cup {Updated(p, r) : p \in Named(doc, r.name)}]
      [] r.op = "delete_pool" -> [doc EXCEPT !.pools = @ \ Named(doc, r.name)]

-----------------------------------------------------------------------------
Init ==
    /\ first \in Audits
    /\ audit = first
    /\ auditSeen = {audit}
    /\ pools \in PoolConfigs
    /\ request \in [Callers -> AuditRequests] \cup [Callers -> PoolRequests]
    /\ pc = [c \in Callers |-> "start"]
    /\ current = [c \in Callers |-> NoDoc]
    /\ body = [c \in Callers |-> NoDoc]

Goto(c, l) == pc' = [pc EXCEPT ![c] = l]
service == <<audit, auditSeen, pools>>
unchanging == <<first, request>>
Decide(c, doc, sends) ==
    /\ current' = [current EXCEPT ![c] = doc]
    /\ body' = [body EXCEPT ![c] = sends]
Return(c) == Goto(c, "ok")
Raise(c) == Goto(c, "error")

\* A bad argument is refused before the document is read; else the GET of
\* audit.get_settings, which may return an older version.
ReadAudit(c) ==
    /\ pc[c] = "start" /\ IsAudit(request[c])
    /\ LET r == request[c] IN
       \/ AuditArgumentBad(r) /\ Raise(c) /\ UNCHANGED <<current, body>>
       \/ /\ ~ AuditArgumentBad(r)
          /\ \E doc \in auditSeen :
                IF AuditRefuses(r, doc) THEN Decide(c, doc, NoDoc) /\ Raise(c)
                ELSE IF AuditUnchanged(r, doc) THEN Decide(c, doc, NoDoc) /\ Return(c)
                ELSE Decide(c, doc, AuditBody(r, doc)) /\ Goto(c, "patch")
    /\ UNCHANGED <<service, unchanging>>

\* get_configuration, the refusals and early returns of the pool functions, and
\* validate_for_patch on the whole document.
ReadPools(c) ==
    /\ pc[c] = "start" /\ ~ IsAudit(request[c])
    /\ LET r == request[c] IN
       IF PoolRefuses(r, pools) THEN Decide(c, pools, NoDoc) /\ Raise(c)
       ELSE IF PoolUnchanged(r, pools) THEN Decide(c, pools, NoDoc) /\ Return(c)
       ELSE LET doc == PoolBody(r, pools) IN
            IF ~ Valid(doc) THEN Decide(c, pools, NoDoc) /\ Raise(c)
            ELSE Decide(c, pools, doc) /\ Goto(c, "patch")
    /\ UNCHANGED <<service, unchanging>>

Stores(c) ==
    IF IsAudit(request[c])
    THEN audit' = body[c] /\ auditSeen' = auditSeen \cup {body[c]} /\ UNCHANGED pools
    ELSE ServiceTakes(body[c]) /\ pools' = body[c] /\ UNCHANGED <<audit, auditSeen>>

\* The PATCH succeeds; the group operations return at once.
Patch(c) ==
    /\ pc[c] = "patch"
    /\ Stores(c)
    /\ IF Refetches(request[c]) THEN Goto(c, "reread") ELSE Return(c)
    /\ UNCHANGED <<unchanging, current, body>>

\* The PATCH raises: refused by the service, or done with its answer lost.  It
\* is never sent again.
PatchFails(c) ==
    /\ pc[c] = "patch"
    /\ \/ UNCHANGED service
       \/ Stores(c)
    /\ Raise(c)
    /\ UNCHANGED <<unchanging, current, body>>

\* The GET after the PATCH; what it shows may be older than the PATCH.
Reread(c) ==
    /\ pc[c] = "reread"
    /\ Return(c) \/ Raise(c)
    /\ UNCHANGED <<service, unchanging, current, body>>

\* The service catches up: a GET returns what the last PATCH left.
Settle ==
    /\ auditSeen # {audit}
    /\ auditSeen' = {audit}
    /\ UNCHANGED <<audit, pools, unchanging, pc, current, body>>

Next ==
    \/ \E c \in Callers : ReadAudit(c) \/ ReadPools(c) \/ Patch(c) \/ PatchFails(c) \/ Reread(c)
    \/ Settle

Spec == Init /\ [][Next]_vars

-----------------------------------------------------------------------------
(* Properties. *)

\* Whatever stale documents are sent back in whatever order, auditing is
\* switched on, and off, only if some call asks for it, and no retention and no
\* group comes up that nobody asked for: no PATCH lets the API reset a field.
AskedDays == {r.days : r \in {request[c] : c \in {d \in Callers : "days" \in DOMAIN request[d]}}}
AskedGroups ==
    UNION ({request[c].groups : c \in {d \in Callers : "groups" \in DOMAIN request[d]}}
           \cup {{request[c].group} : c \in {d \in Callers : "group" \in DOMAIN request[d]}})
MaySwitchOn(r) == \/ r.op = "audit_enable"
                  \/ r.op = "set_action_groups" /\ r.ensureEnabled
Asked(doc) ==
    /\ doc.retention \in {first.retention} \cup AskedDays
    /\ doc.groups \subseteq first.groups \cup AskedGroups
    /\ doc.state # first.state =>
           IF doc.state = "Enabled" THEN \E c \in Callers : MaySwitchOn(request[c])
                                    ELSE \E c \in Callers : request[c].op = "audit_disable"
NothingUnasked == Asked(audit)

\* A write based on what the service holds changes the field it names and
\* keeps everything else: retention and state survive a change of groups, and
\* every other pool survives a change of one.
Names(r) == IF "pool" \in DOMAIN r THEN {r.pool.name}
            ELSE IF "name" \in DOMAIN r THEN {r.name} ELSE {}
FreshWriteKeepsTheRest ==
    [][\A c \in Callers : pc[c] = "patch" /\ pc'[c] # "patch" =>
          /\ IsAudit(request[c]) /\ current[c] = audit =>
                /\ "days" \notin DOMAIN request[c] => audit'.retention = audit.retention
                /\ request[c].op \in {"set_retention", "add_action_group", "remove_action_group"}
                       => audit'.state = audit.state
                /\ request[c].op \in {"audit_enable", "audit_disable", "set_retention"}
                       => audit'.groups = audit.groups
          /\ ~ IsAudit(request[c]) /\ current[c] = pools =>
                \A p \in pools.pools : p.name \notin Names(request[c]) => p \in pools'.pools]_vars

\* The pools the service holds are within 100 percent, have one default and one
\* name each, whichever updates are lost: each PATCH was checked as a whole.
PoolsStayValid ==
    /\ Total(pools.pools) <= 100
    /\ \A p, q \in pools.pools : p.default /\ q.default => p = q
    /\ \A p, q \in pools.pools : p.name = q.name => p = q

=============================================================================
