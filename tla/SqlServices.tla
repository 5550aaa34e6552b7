----------------------------- MODULE SqlServices -----------------------------
(***************************************************************************)
(* The services on objects of a database (services/tables.py, views.py,    *)
(* functions.py, procedures.py, schemas.py, columns.py, statistics.py,     *)
(* rls.py, mask.py, permissions.py), and on the database as a whole        *)
(* (settings.py, queries.py, sql_exec.py and others), as plans:            *)
(* which kind of item a function accepts, which statements it sends, how   *)
(* they are committed and what it reads back before it returns.            *)
(*                                                                         *)
(* A qualified name is a pair <<schema, name>>; <<schema, Itself>> is the  *)
(* schema's own entry.  Column lists, bodies and filters are left out, and *)
(* so are the checks of arguments, which end a call before any plan.       *)
(***************************************************************************)
EXTENDS Naturals, Sequences

CONSTANT Itself         \* under this name a schema, or the database, stands for itself

NoName == <<>>
SchemaEntry(s) == <<s, Itself>>
DatabaseEntry == <<Itself, Itself>>

\* Kinds of objects, and what an object may have.
Kinds == {"database", "schema", "table", "view", "function", "procedure", "policy"}
Attributes == {"statistic", "predicate", "mask", "permission", "result_set_caching",
               "time_travel_retention", "data_lake_log_publishing"}

\* One statement: what it does, to an object of which kind, or which attribute
\* of one, at which name, and from which other name.
Stmt(does, kind, at, from) == [does |-> does, kind |-> kind, at |-> at, from |-> from]

Create(kind, n) == Stmt("create", kind, n, NoName)
CreateOrAlter(kind, n) == Stmt("alter", kind, n, NoName)
CopyRows(from, n) == Stmt("copy", "table", n, from)
Clone(from, n) == Stmt("clone", "table", n, from)
Drop(kind, n) == Stmt("drop", kind, n, NoName)
\* sp_rename ... 'OBJECT' and ALTER SCHEMA ... TRANSFER OBJECT:: take whatever
\* object has the name.
Move(from, n) == Stmt("move", "any", n, from)
Touch(kind, n) == Stmt("touch", kind, n, NoName)
Put(attr, n) == Stmt("put", attr, n, NoName)        \* fails on a second one
Set(attr, n) == Stmt("set", attr, n, NoName)        \* replaces the first one
Renew(attr, n) == Stmt("renew", attr, n, NoName)
Remove(attr, n) == Stmt("remove", attr, n, NoName)
Unset(attr, n) == Stmt("unset", attr, n, NoName)    \* succeeds without one

\* The default of run_query, fetch="all" and nothing to commit, with the kind
\* or the attribute "what" read at the name "at" afterwards ("none": nothing).
\* "again": an execute whose answer is lost is repeated never, with the opt-in
\* of the operator, or always.
Ask == [guard |-> "any", stmts |-> <<>>, mode |-> "read", what |-> "none", at |-> NoName,
        cascade |-> FALSE, ifExists |-> FALSE, again |-> "opt_in"]
Get(what, n) == [Ask EXCEPT !.what = what, !.at = n]

\* run_query(commit=True, fetch="none"), run_query(autocommit=True,
\* fetch="none") and run_statements(commit_per_statement=False).
Committed(s) == [Ask EXCEPT !.mode = "commit", !.stmts = <<s>>]
AtOnce(s) == [Ask EXCEPT !.mode = "autocommit", !.stmts = <<s>>]
PerStatement(stmts) == [Ask EXCEPT !.mode = "each", !.stmts = stmts]
Deferred(stmts) == [Ask EXCEPT !.mode = "deferred", !.stmts = stmts]
Then(p, what, n) == [p EXCEPT !.what = what, !.at = n]

\* _assert_not_sql_endpoint and _assert_sql_endpoint, before anything is sent;
\* "quiet" returns nothing on an endpoint and does not ask.
OnWarehouse(p) == [p EXCEPT !.guard = "warehouse"]
OnEndpoint(p) == [p EXCEPT !.guard = "endpoint"]
Quiet(p) == [p EXCEPT !.guard = "quiet"]

-----------------------------------------------------------------------------
(* tables.py *)

list_tables == Ask
read_table(n) == Get("rows", n)
count_table_rows(n) == Get("rows", n)
export_table(n) == Get("rows", n)
get_cluster_columns == OnWarehouse(Ask)
get_table_dependents == Quiet(Ask)
create_table(n) == OnWarehouse(Then(Committed(Create("table", n)), "table", n))
create_empty_table(n) == OnWarehouse(Then(Committed(Create("table", n)), "table", n))
\* The columns are inferred from the file between the guard and the table.
create_table_from_parquet(n) == create_empty_table(n)
create_table_from_csv(n) == create_empty_table(n)
create_table_from_json(n) == create_empty_table(n)
clone_table(from, n) == OnWarehouse(Then(AtOnce(Clone(from, n)), "table", n))
delete_table(n) == OnWarehouse(Committed(Drop("table", n)))
clear_table(n) == OnWarehouse(Committed(Touch("table", n)))

\* CTAS into a scratch table, DROP the old one, sp_rename: one transaction.
\* "scratch" is __recluster_<hex>, a name of the call's own.
Swap(n, scratch) ==
    <<CopyRows(n, <<n[1], scratch>>), Drop("table", n), Move(<<n[1], scratch>>, n)>>
recluster_each(n, scratch) == OnWarehouse(Then(PerStatement(Swap(n, scratch)), "table", n))
recluster_table(n, scratch) == OnWarehouse(Then(Deferred(Swap(n, scratch)), "table", n))

get_table_health_metrics(n) == OnEndpoint(Get("table", n))
list_table_sync_status == OnEndpoint(Ask)
\* fetch="one", so the execute retry needs no opt-in.
refresh_table_metadata(n) ==
    OnEndpoint(Then([AtOnce(Touch("table", n)) EXCEPT !.again = "always"], "table", n))
rename_table(from, n) == OnWarehouse(Then(Committed(Move(from, n)), "table", n))

\* _alter_schema_transfer and the re-fetch from the target schema.
transfer_old(kind, from, s) == Then(Committed(Move(from, <<s, from[2]>>)), kind, from)
transfer_object(kind, from, s) ==
    Then(Committed(Move(from, <<s, from[2]>>)), kind, <<s, from[2]>>)
transfer_table(from, s) == OnWarehouse(transfer_object("table", from, s))

-----------------------------------------------------------------------------
(* views.py, functions.py, procedures.py, columns.py *)

list_views == Ask
read_view(n) == Get("rows", n)
count_view_rows(n) == Get("rows", n)
export_view(n) == Get("rows", n)
get_view(n) == Get("view", n)
create_view(n) == Then(Committed(Create("view", n)), "view", n)
update_view(n) == Then(Committed(CreateOrAlter("view", n)), "view", n)
drop_view(n) == Committed(Drop("view", n))
rename_view(from, n) == Then(Committed(Move(from, n)), "view", n)
transfer_view(from, s) == transfer_object("view", from, s)

list_functions == Ask
get_function(n) == Get("function", n)
create_function(n) == Then(Committed(Create("function", n)), "function", n)
update_function(n) == Then(Committed(CreateOrAlter("function", n)), "function", n)
transfer_function(from, s) == transfer_object("function", from, s)
\* if_exists turns the server's "does not exist" into a False result.
drop_function(n, ifExists) ==
    [Committed(Drop("function", n)) EXCEPT !.ifExists = ifExists]

list_procedures == Ask
get_procedure(n) == Get("procedure", n)
create_procedure(n) == Then(Committed(Create("procedure", n)), "procedure", n)
update_procedure(n) == Then(Committed(CreateOrAlter("procedure", n)), "procedure", n)
drop_procedure(n) == Committed(Drop("procedure", n))
transfer_procedure(from, s) == transfer_object("procedure", from, s)

get_object_columns == Ask
get_object_columns_or_raise(n) == Get("any", n)
get_columns_for_schemas == Ask

-----------------------------------------------------------------------------
(* schemas.py, statistics.py *)

list_schemas == Ask
create_schema(s) == Then(Committed(Create("schema", SchemaEntry(s))), "schema", SchemaEntry(s))
\* With cascade the DROPs of the objects found come before this statement.
delete_schema(s, cascade) ==
    IF cascade THEN [Deferred(<<Drop("schema", SchemaEntry(s))>>) EXCEPT !.cascade = TRUE]
               ELSE Committed(Drop("schema", SchemaEntry(s)))

list_statistics == Ask
\* Asks again for a minute while the server does not find the statistic.
show_statistics(n) == Get("statistic", n)
create_statistics(n) == OnWarehouse(Then(Committed(Put("statistic", n)), "statistic", n))
update_statistics(n) == OnWarehouse(Committed(Renew("statistic", n)))
drop_statistics(n) == OnWarehouse(Committed(Remove("statistic", n)))

-----------------------------------------------------------------------------
(* rls.py, mask.py, permissions.py: autocommit, and nothing is read back.   *)

list_security_policies == Ask
create_security_policy(n) == AtOnce(Create("policy", n))
add_predicate(n) == AtOnce(Put("predicate", n))
drop_predicate(n) == AtOnce(Remove("predicate", n))
set_policy_state(n) == AtOnce(Touch("policy", n))
drop_security_policy(n) == AtOnce(Drop("policy", n))

list_masked_columns == Ask
set_column_mask(n) == AtOnce(Set("mask", n))
drop_column_mask(n) == AtOnce(Remove("mask", n))

\* OBJECT scope; a schema or a database is granted on the same way.
list_sql_permissions == Ask
list_database_principals == Ask
my_permissions == Ask
grant_permission(n) == AtOnce(Set("permission", n))
deny_permission(n) == AtOnce(Set("permission", n))
revoke_permission(n) == AtOnce(Unset("permission", n))

-----------------------------------------------------------------------------
(* settings.py, queries.py, query_insights.py, sql_exec.py, and ALTER      *)
(* DATABASE in snapshots.py: the database as a whole.                       *)

get_settings == Get("any", DatabaseEntry)
SetOption(option) ==
    OnWarehouse(Then(AtOnce(Set(option, DatabaseEntry)), "any", DatabaseEntry))
set_result_set_caching == SetOption("result_set_caching")
set_time_travel_retention == SetOption("time_travel_retention")
set_data_lake_log_publishing == SetOption("data_lake_log_publishing")

list_running == Ask
list_connections == Ask
list_locks == Ask
\* The session that ends is another call's: to that one a statement or a commit
\* fails.
kill == AtOnce(Touch("database", DatabaseEntry))

list_request_history == Ask
list_session_history == Ask
list_frequent_queries == Ask
list_long_running_queries == Ask
get_request_detail == Ask
list_sql_pool_insights == Ask

\* A statement of the user's, on a connection whose execute is never retried.
execute(s) == [AtOnce(s) EXCEPT !.again = "never"]
\* SHOWPLAN_XML is on: the statement is compiled only.
get_plan == Ask

\* Sent through run_statements, and again for as long as the snapshot is refused
\* as not ready.  Without a time of its own the call asks the server for it.
roll_timestamp(given) ==
    LET alter == [AtOnce(Touch("database", DatabaseEntry)) EXCEPT !.again = "never"]
    IN  IF given THEN alter ELSE Then(alter, "any", DatabaseEntry)

=============================================================================
