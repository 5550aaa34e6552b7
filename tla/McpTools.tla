------------------------------ MODULE McpTools ------------------------------
(***************************************************************************)
(* The tools that register_all (mcp/tools/__init__.py) hands to the MCP    *)
(* server, one definition per file of mcp/tools.  A row stands for tools   *)
(* that check the same flags, take the same workspace argument and do the  *)
(* same to the server; a tool whose arguments decide has several rows.     *)
(*                                                                         *)
(* gate: what the decorator or the body asserts of the flags.              *)
(*    "open"         @mcp.tool with no assertion                           *)
(*    "write"        assert_writes_allowed                                 *)
(*    "destructive"  and assert_destructive_allowed                        *)
(*    "late"         the latter only just before the service call          *)
(*    "select"       in read-only mode no more than a SELECT               *)
(* scope: the workspaces it works on.                                      *)
(*    "one"          that of its argument                                  *)
(*    "all"          every one (all_workspaces=True)                       *)
(*    "listed"       every one, filtered by the allowlist                  *)
(*    "none", "cache"                                                      *)
(* effect: what its service does.  "remove" is a DELETE request, a DROP,   *)
(* TRUNCATE or REVOKE, a rebuild or a restore in place; "change" is any    *)
(* other write.                                                            *)
(***************************************************************************)

Row(gate, scope, effect, names) ==
    [gate |-> gate, scope |-> scope, effect |-> effect, names |-> names]

Reads(names) == Row("open", "one", "read", names)

WorkspacesTools ==
    { Row("open", "none", "read", {"list_capacities"}),
      Row("open", "listed", "read", {"list_workspaces"}),
      Reads({"get_workspace"}),
      Row("write", "one", "change",
          {"assign_workspace_to_capacity", "set_workspace_collation"}) }

WarehousesTools ==
    { Row("open", "all", "read", {"list_warehouses"}),
      Reads({"list_warehouses", "get_warehouse"}),
      Row("write", "one", "change",
          {"create_warehouse", "rename_warehouse", "takeover_warehouse"}),
      Row("destructive", "one", "remove", {"delete_warehouse"}) }

\* recreate_tables=True asserts the destructive flag before anything else.
SqlEndpointsTools ==
    { Row("open", "all", "read", {"list_sql_endpoints"}),
      Reads({"list_sql_endpoints", "get_sql_endpoint"}),
      Row("write", "one", "change", {"refresh_sql_endpoint_metadata"}),
      Row("destructive", "one", "remove", {"refresh_sql_endpoint_metadata"}) }

PermissionsReads ==
    { Reads({"list_item_permissions", "list_sql_permissions",
             "list_database_principals", "my_permissions"}) }

\* GRANT and DENY; REVOKE takes a permission away.
GrantTools ==
    { Row("write", "one", "change", {"grant_permission", "deny_permission"}),
      Row("destructive", "one", "remove", {"revoke_permission"}) }

\* A predicate goes by ALTER SECURITY POLICY, the policy itself by DROP.
SecurityPolicyTools ==
    { Reads({"list_security_policies"}),
      Row("write", "one", "change",
          {"create_security_policy", "add_security_predicate",
           "drop_security_predicate", "set_security_policy_state"}),
      Row("destructive", "one", "remove", {"drop_security_policy"}) }

MaskTools ==
    { Reads({"list_masked_columns"}),
      Row("write", "one", "change", {"set_column_mask"}),
      Row("destructive", "one", "change", {"drop_column_mask"}) }

AuditToolsUnguarded ==
    { Row("open", "one", "change", {"enable_audit"}) }

\* Registered with mcp.tool; the body of each writer asserts.
AuditTools ==
    { Reads({"get_audit_settings"}),
      Row("write", "one", "change",
          {"enable_audit", "disable_audit", "set_audit_action_groups",
           "add_audit_group", "remove_audit_group", "set_audit_retention"}) }

QueriesReads ==
    { Reads({"list_running_queries", "list_connections", "list_request_history",
             "list_session_history", "list_frequent_queries", "list_locks",
             "get_request_detail", "list_long_running_queries"}) }

KillTools == { Row("write", "one", "change", {"kill_session"}) }

\* execute_sql has no destructive check; get_query_plan does not execute.
SqlExecTools ==
    { Row("open", "one", "read", {"execute_sql"}),
      Row("select", "one", "change", {"execute_sql"}),
      Row("select", "one", "remove", {"execute_sql"}),
      Reads({"get_query_plan"}) }

SnapshotsTools ==
    { Reads({"list_snapshots"}),
      Row("write", "one", "change",
          {"create_snapshot", "rename_snapshot", "roll_snapshot_timestamp"}),
      Row("destructive", "one", "remove", {"delete_snapshot"}) }

RestoreTools ==
    { Reads({"list_restore_points", "get_restore_point"}),
      Row("write", "one", "change", {"create_restore_point", "update_restore_point"}),
      Row("destructive", "one", "remove",
          {"delete_restore_point", "restore_warehouse_in_place"}) }

ViewsReads ==
    { Reads({"list_views", "read_view", "count_view_rows", "get_view_columns", "get_view"}) }

ViewsWrites ==
    { Row("write", "one", "change",
          {"create_view", "update_view", "rename_view", "transfer_view"}),
      Row("destructive", "one", "remove", {"drop_view"}) }

ProceduresTools ==
    { Reads({"list_procedures", "get_procedure"}),
      Row("write", "one", "change",
          {"create_procedure", "update_procedure", "transfer_procedure"}),
      Row("destructive", "one", "remove", {"drop_procedure"}) }

FunctionsTools ==
    { Reads({"list_functions", "get_function"}),
      Row("write", "one", "change",
          {"create_function", "update_function", "transfer_function"}),
      Row("destructive", "one", "remove", {"drop_function"}) }

SchemasTools ==
    { Reads({"list_schemas"}),
      Row("write", "one", "change", {"create_schema"}),
      Row("destructive", "one", "remove", {"delete_schema"}) }

TablesReads ==
    { Reads({"list_tables", "read_table", "count_table_rows", "get_cluster_columns",
             "get_table_columns"}) }

TablesCreates ==
    { Row("write", "one", "change", {"create_table", "create_empty_table", "clone_table"}),
      Row("destructive", "one", "remove", {"delete_table", "clear_table"}) }

TablesStatus ==
    { Reads({"get_table_health_metrics", "list_table_sync_status"}) }

\* set_cluster_columns drops the table for a copy that takes its name.
TablesAlters ==
    { Row("write", "one", "change",
          {"refresh_table_metadata", "rename_table", "transfer_table"}),
      Row("destructive", "one", "remove", {"set_cluster_columns"}) }

LoadTools == { Row("write", "one", "change", {"load_table_from_url"}) }

\* if_exists="truncate" asserts the flag once it has found the table.
ImportTools ==
    { Row("write", "one", "change", {"import_table_from_url"}),
      Row("late", "one", "remove", {"import_table_from_url"}) }

StatisticsTools ==
    { Reads({"list_statistics", "show_statistics"}),
      Row("write", "one", "change", {"create_statistics", "update_statistics"}),
      Row("destructive", "one", "remove", {"delete_statistics"}) }

SettingsTools ==
    { Reads({"get_warehouse_settings"}),
      Row("write", "one", "change",
          {"set_result_set_caching", "set_time_travel_retention",
           "set_data_lake_log_publishing"}) }

SqlPoolsTools ==
    { Reads({"get_sql_pools_status", "list_sql_pools", "get_sql_pool",
             "list_sql_pool_insights"}),
      Row("write", "one", "change",
          {"create_sql_pool", "update_sql_pool", "enable_sql_pools", "disable_sql_pools"}),
      Row("destructive", "one", "remove", {"delete_sql_pool"}) }

CacheTools == { Row("open", "cache", "cache", {"clear_cache"}) }

DbtTools == { Reads({"generate_dbt_profile"}) }

CapabilitiesTools == { Row("open", "none", "read", {"list_capabilities"}) }

Rows == UNION
    { WorkspacesTools, WarehousesTools, SqlEndpointsTools, PermissionsReads, GrantTools,
      SecurityPolicyTools, MaskTools, AuditTools, QueriesReads, KillTools, SqlExecTools,
      SnapshotsTools, RestoreTools, ViewsReads, ViewsWrites, ProceduresTools,
      FunctionsTools, SchemasTools, TablesReads, TablesCreates, TablesStatus,
      TablesAlters, LoadTools, ImportTools, StatisticsTools, SettingsTools,
      SqlPoolsTools, CacheTools, DbtTools, CapabilitiesTools }

\* What a call of a tool may be.
Kinds == {[gate |-> r.gate, scope |-> r.scope, effect |-> r.effect] : r \in Rows}
=============================================================================
