----------------------------- MODULE SqlObjects -----------------------------
(***************************************************************************)
(* Callers of the services of SqlServices on one database.  A call checks  *)
(* the kind of item, lists what a cascade drops, sends its statements over *)
(* one connection, commits as its plan says, and reads back what it        *)
(* changed over another connection.  Calls interleave between any two of   *)
(* these steps, and any of them may fail.                                  *)
(*                                                                         *)
(* The server keeps DDL locks to the end of a transaction: what an open    *)
(* transaction changed, no other statement touches.                        *)
(***************************************************************************)
EXTENDS SqlServices, FiniteSets

CONSTANTS
    Callers,      \* calls in flight, each one by a process of its own
    Schemas,      \* names of schemas
    Names,        \* names of objects, the scratch names among them
    Plans,        \* plans of the calls, from SqlServices
    Catalogs      \* what the database may hold at first

Absent == [kind |-> "none", by |-> "nobody", has |-> {}]
Qualified == Schemas \X (Names \cup {Itself}) \cup {DatabaseEntry}
Objects ==
    {o \in [kind : Kinds \cup {"none"}, by : Callers \cup {"nobody"}, has : SUBSET Attributes] :
        o.kind = "none" => o = Absent}

ASSUME DatabaseAssumption ==
    /\ IsFiniteSet(Schemas) /\ IsFiniteSet(Names)
    /\ \A k \in Catalogs : k \in [Qualified -> Objects]

VARIABLES
    itemKind,         \* "warehouse" or "endpoint"
    retryExecutes,    \* the operator's opt-in, sql_retry_executes
    cat,              \* what each qualified name stands for, changes of open
                      \* transactions included
    before,           \* before[c]: what the names c's transaction changed were
    pc, plan,         \* plan[c]: the call of c
    todo,             \* todo[c]: statements of the call, the listed ones included
    step,             \* step[c]: statement the call is at, from 1
    durable,          \* durable[c]: statements of the call that are durable
    overtaken         \* overtaken[c]: what c reads back was changed meanwhile

vars == <<itemKind, retryExecutes, cat, before, pc, plan, todo, step, durable, overtaken>>
config == <<itemKind, retryExecutes, plan>>

NoChange == <<>>                     \* the function with an empty domain
\* What f says, and where it says nothing, what g says.
Over(f, g) == [n \in DOMAIN f \cup DOMAIN g |-> IF n \in DOMAIN f THEN f[n] ELSE g[n]]
Ends == {"ok", "absent", "refused", "not_found", "error", "commit_failed",
         "reread_failed"}

\* What is committed: the changes of the open transactions taken back.
Undone(c) == DOMAIN before[c]
CommittedFor(n, b) ==
    IF \E c \in Callers : n \in DOMAIN b[c]
    THEN b[CHOOSE c \in Callers : n \in DOMAIN b[c]][n]
    ELSE cat[n]
Durable == [n \in Qualified |-> CommittedFor(n, before)]

-----------------------------------------------------------------------------
(* The server. *)

InSchema(s) == {n \in Qualified : n[1] = s /\ n[2] # Itself}
HasSchema(n) == cat[SchemaEntry(n[1])] # Absent

\* The names a statement reads or changes, and those it changes.
Needs(s) ==
    LET named == {s.at, s.from} \ {NoName}
    IN  named \cup {SchemaEntry(n[1]) : n \in named}
              \cup (IF s.kind = "schema" THEN InSchema(s.at[1]) ELSE {})
Changes(s) ==
    {s.at} \cup (IF s.does = "move" THEN {s.from} ELSE {})

\* No other transaction holds what the statement needs.
Granted(c, s) == \A d \in Callers \ {c} : Needs(s) \cap Undone(d) = {}

Accepts(s) ==
    \/ s.does = "create" /\ cat[s.at] = Absent /\ (s.kind = "schema" \/ HasSchema(s.at))
    \/ s.does = "alter" /\ HasSchema(s.at) /\ cat[s.at].kind \in {"none", s.kind}
    \/ s.does \in {"copy", "clone"} /\ HasSchema(s.at) /\ cat[s.at] = Absent
                     /\ cat[s.from].kind \in {"table"} \cup IF s.does = "copy" THEN {"view"} ELSE {}
    \/ /\ s.does = "drop" /\ cat[s.at].kind = s.kind
       /\ s.kind = "schema" => \A n \in InSchema(s.at[1]) : cat[n] = Absent
    \/ s.does = "move" /\ HasSchema(s.at) /\ cat[s.from] # Absent /\ cat[s.at] = Absent
    \/ s.does = "touch" /\ cat[s.at].kind = s.kind
    \/ s.does = "put" /\ cat[s.at] # Absent /\ s.kind \notin cat[s.at].has
    \/ s.does \in {"set", "unset"} /\ cat[s.at] # Absent
    \/ s.does \in {"remove", "renew"} /\ s.kind \in cat[s.at].has

After(c, s) ==
    LET old == cat[s.at]
    IN  CASE s.does \in {"create", "copy", "clone"} ->
                [cat EXCEPT ![s.at] = [kind |-> s.kind, by |-> c, has |-> {}]]
          [] s.does = "alter" /\ old = Absent ->
                [cat EXCEPT ![s.at] = [kind |-> s.kind, by |-> c, has |-> {}]]
          [] s.does = "drop" -> [cat EXCEPT ![s.at] = Absent]
          [] s.does = "move" -> [cat EXCEPT ![s.at] = cat[s.from], ![s.from] = Absent]
          [] s.does \in {"put", "set"} -> [cat EXCEPT ![s.at].has = @ \cup {s.kind}]
          [] s.does \in {"remove", "unset"} -> [cat EXCEPT ![s.at].has = @ \ {s.kind}]
          [] OTHER -> cat

\* What the re-fetch asks for: an object of the kind, any object, one with
\* rows, or an attribute.
Answers(what, n, committed) ==
    \/ what = "none"
    \/ committed[n].kind = what
    \/ what = "any" /\ committed[n] # Absent
    \/ what = "rows" /\ committed[n].kind \in {"table", "view"}
    \/ what \in committed[n].has

-----------------------------------------------------------------------------
(* One call. *)

Init ==
    /\ itemKind \in {"warehouse", "endpoint"}
    /\ retryExecutes \in BOOLEAN
    /\ cat \in Catalogs
    /\ before = [c \in Callers |-> NoChange]
    /\ pc = [c \in Callers |-> "start"]
    /\ plan \in [Callers -> Plans]
    /\ todo = [c \in Callers |-> plan[c].stmts]
    /\ step = [c \in Callers |-> 1]
    /\ durable = [c \in Callers |-> 0]
    /\ overtaken = [c \in Callers |-> FALSE]

Goto(c, l) == pc' = [pc EXCEPT ![c] = l]
InTransaction(c) == plan[c].mode # "autocommit"

\* Callers that are yet to read back a name whose committed object changes.
Overtake(c, committed) ==
    overtaken' = [d \in Callers |->
        \/ overtaken[d]
        \/ /\ d # c /\ pc[d] = "reread" /\ plan[d].at # NoName
           /\ committed[plan[d].at] # Durable[plan[d].at]]

\* The guard on the kind of item, before anything is sent.
Admits(p) ==
    CASE p.guard = "warehouse" -> itemKind = "warehouse"
      [] p.guard = "endpoint" -> itemKind = "endpoint"
      [] OTHER -> TRUE

Begin(c) ==
    /\ pc[c] = "start"
    /\ LET p == plan[c] IN
       Goto(c, IF ~ Admits(p) THEN "refused"
               ELSE IF p.guard = "quiet" /\ itemKind = "endpoint" THEN "ok"
               ELSE IF p.cascade THEN "list"
               ELSE IF p.mode = "read" THEN "reread"
               ELSE "run")
    /\ UNCHANGED <<config, cat, before, todo, step, durable, overtaken>>

\* _build_drop_object_statements, on a connection of its own: the objects of
\* the schema that DROP knows, without the tables on an endpoint.
Listed(s) ==
    {n \in InSchema(s) : Durable[n].kind \in {"table", "view", "function", "procedure"}}
DropsAll(s) == Listed(s)
Droppable(s) ==
    {n \in Listed(s) : itemKind = "endpoint" => Durable[n].kind # "table"}

Orders(S) == {f \in [1..Cardinality(S) -> S] : \A i, j \in DOMAIN f : f[i] = f[j] => i = j}

List(c) ==
    /\ pc[c] = "list"
    /\ LET found == Droppable(plan[c].stmts[1].at[1])
           order == CHOOSE f \in Orders(found) : TRUE
       IN  todo' = [todo EXCEPT ![c] =
                        [i \in DOMAIN order |-> Drop(Durable[order[i]].kind, order[i])] \o @]
    /\ Goto(c, "run")
    /\ UNCHANGED <<config, cat, before, step, durable, overtaken>>

\* Statement step[c] runs: durable at once under autocommit, else part of the
\* transaction of the connection.
Statement(c) == todo[c][step[c]]
Runs(c) ==
    LET s == Statement(c) IN
    /\ Granted(c, s) /\ Accepts(s)
    /\ cat' = After(c, s)
    /\ IF InTransaction(c)
       THEN /\ before' = [before EXCEPT ![c] = Over(@, [n \in Changes(s) |-> cat[n]])]
            /\ UNCHANGED <<durable, overtaken>>
       ELSE /\ durable' = [durable EXCEPT ![c] = @ + 1]
            /\ Overtake(c, [n \in Qualified |->
                   IF n \in Changes(s) THEN After(c, s)[n] ELSE Durable[n]])
            /\ UNCHANGED before

IsLast(c) == step[c] = Len(todo[c])
CommitIsDue(c) == InTransaction(c) /\ (IsLast(c) \/ plan[c].mode = "each")

RunStatement(c) ==
    /\ pc[c] = "run"
    /\ Runs(c)
    /\ step' = [step EXCEPT ![c] = @ + 1]
    /\ Goto(c, IF CommitIsDue(c) THEN "commit"
               ELSE IF IsLast(c) THEN "reread" ELSE "run")
    /\ UNCHANGED <<config, todo>>

\* The connection is closed: an open transaction is rolled back.
Rollback(c) ==
    /\ cat' = Over(before[c], cat)
    /\ before' = [before EXCEPT ![c] = NoChange]

\* The listing or a statement fails and did nothing: the server refuses it, ends
\* a lock wait, or never got it.  drop_function(if_exists=True) asks whether it
\* was because there is no such function.
MayBeAbsent(c) ==
    plan[c].ifExists /\ cat[Statement(c).at] = Absent
StatementFails(c) ==
    /\ pc[c] \in {"list", "run"}
    /\ Rollback(c)
    /\ Goto(c, IF pc[c] = "run" /\ MayBeAbsent(c) THEN "absent" ELSE "error")
    /\ UNCHANGED <<config, todo, step, durable, overtaken>>

\* The statement ran under autocommit and its answer is lost: run_query raises,
\* or executes it once more where that is allowed (at most one answer is lost).
MayRunAgain(c) ==
    plan[c].again = "always" \/ (plan[c].again = "opt_in" /\ retryExecutes)
AnswerLost(c) ==
    /\ pc[c] = "run" /\ ~ InTransaction(c)
    /\ durable[c] = 0
    /\ Runs(c)
    /\ \/ Goto(c, "error")
       \/ MayRunAgain(c) /\ UNCHANGED pc
    /\ UNCHANGED <<config, todo, step>>

\* conn.commit(): after every statement, or after the last one.
Publish(c) ==
    /\ Overtake(c, [n \in Qualified |->
           IF n \in DOMAIN before[c] THEN cat[n] ELSE Durable[n]])
    /\ before' = [before EXCEPT ![c] = NoChange]
    /\ durable' = [durable EXCEPT ![c] = step[c] - 1]
    /\ UNCHANGED cat

Commit(c) ==
    /\ pc[c] = "commit"
    /\ Publish(c)
    /\ Goto(c, IF step[c] <= Len(todo[c]) THEN "run" ELSE "reread")
    /\ UNCHANGED <<config, todo, step>>

\* The commit raises, whether or not the server carried it out.
CommitFails(c) ==
    /\ pc[c] = "commit"
    /\ \/ Publish(c)
       \/ Rollback(c) /\ UNCHANGED <<durable, overtaken>>
    /\ Goto(c, "commit_failed")
    /\ UNCHANGED <<config, todo, step>>

\* _fetch_table, get_view and their like, on a new connection; a service that
\* reads nothing back returns at once.
Reread(c) ==
    /\ pc[c] = "reread"
    /\ Goto(c, IF Answers(plan[c].what, plan[c].at, Durable) THEN "ok" ELSE "not_found")
    /\ UNCHANGED <<config, cat, before, todo, step, durable, overtaken>>

RereadFails(c) ==
    /\ pc[c] = "reread"
    /\ plan[c].mode = "read" \/ plan[c].what # "none"
    /\ Goto(c, "reread_failed")
    /\ UNCHANGED <<config, cat, before, todo, step, durable, overtaken>>

Next == \E c \in Callers :
    \/ Begin(c)
    \/ List(c)
    \/ RunStatement(c)
    \/ StatementFails(c)
    \/ AnswerLost(c)
    \/ Commit(c)
    \/ CommitFails(c)
    \/ Reread(c)
    \/ RereadFails(c)

Spec == Init /\ [][Next]_vars

-----------------------------------------------------------------------------
(* Properties. *)

\* Outside autocommit a service is all or nothing: recluster_table never leaves
\* its scratch table or a missing table behind, a cascade never drops a part of
\* a schema, a statement whose call failed has changed nothing, and a call that
\* got as far as reading back has changed everything it was asked to.
AllOrNothing == \A c \in Callers : InTransaction(c) =>
    /\ durable[c] \in {0, Len(todo[c])}
    /\ pc[c] \in {"refused", "error", "absent"} => durable[c] = 0
    /\ pc[c] \in {"reread", "ok", "not_found", "reread_failed"} => durable[c] = Len(todo[c])

\* "Not found" after a statement that succeeded is true and has a cause: another
\* call changed the object before it was read back, or the name that was moved
\* stood for an object of another kind.
NotFoundHasCause ==
    [][\A c \in Callers : plan[c].mode # "read" /\ pc[c] = "reread" /\ pc'[c] = "not_found" =>
          \/ overtaken[c]
          \/ todo[c][1].does = "move" /\ Durable[plan[c].at] # Absent]_vars

\* Tables on a SQL endpoint are projections of the lakehouse: no call makes one
\* or drops one, also as a part of a cascade.  (They are counted: that a rename or
\* a transfer of a view moves a table of that name is not seen here.)
Tables == {n \in Qualified : Durable[n].kind = "table"}
EndpointKeepsTables ==
    [][itemKind = "endpoint" => Cardinality(Tables') = Cardinality(Tables)]_vars

=============================================================================
