---------------------------- MODULE CliCommands ----------------------------
(***************************************************************************)
(* The commands of the CLI (cli/commands), one definition per part of a    *)
(* file.  A row stands for commands that find their target in the same     *)
(* way, ask at the same point and do the same to the server; each is named *)
(* with the MCP tool that calls the same service function, if there is     *)
(* one.  A command whose options decide has several rows.                  *)
(*                                                                         *)
(* asks: when confirm or confirm_destructive is called, if ever.           *)
(*    "outset"  before anything is resolved                                *)
(*    "first"   once the arguments are, before the item is looked up       *)
(*    "shown"   after that, naming the item found                          *)
(*    "typed"   like "shown", but the item's name has to be typed          *)
(*    "never"                                                              *)
(* scope: what it works on.                                                *)
(*    "item"       resolve_workspace, then resolve_warehouse_arg           *)
(*    "snapshot"   resolve_workspace and an argument that must be given    *)
(*    "workspace"  resolve_workspace                                       *)
(*    "argument"   resolve_workspace_arg: -w does not count                *)
(*    "listing"    resolve_workspace, but only once the client is built    *)
(*    "all"        every workspace, with -A; not with -w                     *)
(*    "none"       no workspace                                            *)
(*    "show", "set", "clear", "cache"   the user's own files               *)
(* effect: "read", "change" or "remove", as in McpTools.                   *)
(***************************************************************************)
EXTENDS McpTools

Cmd(asks, scope, effect, pairs) ==
    [asks |-> asks, scope |-> scope, effect |-> effect, pairs |-> pairs]

ItemReads(pairs) == Cmd("never", "item", "read", pairs)
ItemWrites(pairs) == Cmd("never", "item", "change", pairs)
ItemChanges(pairs) == Cmd("shown", "item", "change", pairs)
ItemRemovals(pairs) == Cmd("shown", "item", "remove", pairs)

AuditSwitchCommands ==
    { ItemReads({<<"audit get", "get_audit_settings">>}),
      ItemWrites({<<"audit enable", "enable_audit">>,
                  <<"audit set-retention", "set_audit_retention">>}),
      ItemChanges({<<"audit disable", "disable_audit">>}) }

AuditGroupCommands ==
    { ItemWrites({<<"audit set-groups", "set_audit_action_groups">>,
                  <<"audit add-group", "add_audit_group">>,
                  <<"audit remove-group", "remove_audit_group">>}) }

CacheCommands ==
    { Cmd("outset", "cache", "change", {<<"cache clear", "clear_cache">>}) }

ConfigShowCommand == { Cmd("never", "show", "read", {<<"config show", "">>}) }

\* The commands of set and of unset, for one key each.
ConfigSetCommands == { Cmd("never", "set", "change", {<<"config set", "">>}) }
ConfigUnsetCommands == { Cmd("never", "set", "change", {<<"config unset", "">>}) }
ConfigClearCommand == { Cmd("outset", "clear", "change", {<<"config clear", "">>}) }

DbtInitCommand == { ItemReads({<<"dbt init", "generate_dbt_profile">>}) }

FunctionsCommands ==
    { ItemReads({<<"functions list", "list_functions">>,
                 <<"functions get", "get_function">>}),
      ItemWrites({<<"functions create", "create_function">>}) }

FunctionsConfirmed ==
    { ItemChanges({<<"functions update", "update_function">>,
                   <<"functions transfer", "transfer_function">>}),
      ItemRemovals({<<"functions drop", "drop_function">>}) }

ItemAccessCommands ==
    { ItemReads({<<"permissions item list", "list_item_permissions">>}) }

SqlPermissionReads ==
    { ItemReads({<<"permissions sql list", "list_sql_permissions">>,
                 <<"permissions sql principals", "list_database_principals">>,
                 <<"permissions sql mine", "my_permissions">>}) }

SqlGrantCommands ==
    { ItemWrites({<<"permissions sql grant", "grant_permission">>,
                  <<"permissions sql deny", "deny_permission">>}) }

SqlRevokeCommand ==
    { Cmd("first", "item", "remove", {<<"permissions sql revoke", "revoke_permission">>}) }

ClsGrantCommands ==
    { ItemWrites({<<"permissions cls grant", "grant_permission">>,
                  <<"permissions cls deny", "deny_permission">>}) }

ClsRevokeAndList ==
    { Cmd("first", "item", "remove", {<<"permissions cls revoke", "revoke_permission">>}),
      ItemReads({<<"permissions cls list", "list_sql_permissions">>}) }

RlsCommands ==
    { ItemReads({<<"permissions rls list", "list_security_policies">>}),
      ItemWrites({<<"permissions rls create", "create_security_policy">>}) }

RlsPredicateCommands ==
    { ItemWrites({<<"permissions rls add-predicate", "add_security_predicate">>,
                  <<"permissions rls drop-predicate", "drop_security_predicate">>,
                  <<"permissions rls set-state", "set_security_policy_state">>}) }

RlsDropCommand ==
    { Cmd("first", "item", "remove", {<<"permissions rls drop", "drop_security_policy">>}) }

MaskCommands ==
    { ItemReads({<<"permissions mask list", "list_masked_columns">>}),
      ItemWrites({<<"permissions mask set", "set_column_mask">>}) }

MaskDropCommand ==
    { Cmd("outset", "item", "change", {<<"permissions mask drop", "drop_column_mask">>}) }

ProceduresCommands ==
    { ItemReads({<<"procedures list", "list_procedures">>,
                 <<"procedures get", "get_procedure">>}),
      ItemWrites({<<"procedures create", "create_procedure">>}) }

ProceduresConfirmed ==
    { ItemChanges({<<"procedures update", "update_procedure">>,
                   <<"procedures transfer", "transfer_procedure">>}),
      ItemRemovals({<<"procedures drop", "drop_procedure">>}) }

RunningCommands ==
    { ItemReads({<<"queries running", "list_running_queries">>,
                 <<"queries connections", "list_connections">>}),
      ItemChanges({<<"queries kill", "kill_session">>}) }

RequestCommands ==
    { ItemReads({<<"queries locks", "list_locks">>, <<"queries show", "get_request_detail">>}) }

HistoryCommands ==
    { ItemReads({<<"queries history", "list_request_history">>,
                 <<"queries sessions", "list_session_history">>}) }

FrequentCommands ==
    { ItemReads({<<"queries frequent", "list_frequent_queries">>,
                 <<"queries long-running", "list_long_running_queries">>}) }

RestorePointCommands ==
    { ItemReads({<<"restore-points list", "list_restore_points">>,
                 <<"restore-points get", "get_restore_point">>}),
      ItemWrites({<<"restore-points create", "create_restore_point">>,
                  <<"restore-points rename", "update_restore_point">>}) }

RestoreCommands ==
    { ItemRemovals({<<"restore-points delete", "delete_restore_point">>}),
      Cmd("typed", "item", "remove",
          {<<"restore-points restore", "restore_warehouse_in_place">>}) }

SchemasCommands ==
    { ItemReads({<<"schemas list", "list_schemas">>}),
      ItemWrites({<<"schemas create", "create_schema">>}),
      ItemRemovals({<<"schemas delete", "delete_schema">>}) }

SettingsCommands ==
    { ItemReads({<<"settings show", "get_warehouse_settings">>}),
      ItemWrites({<<"settings result-set-caching", "set_result_set_caching">>}) }

RetentionCommands ==
    { ItemWrites({<<"settings data-lake-log-publishing", "set_data_lake_log_publishing">>,
                  <<"settings retention", "set_time_travel_retention">>}) }

SnapshotsCommands ==
    { ItemReads({<<"snapshots list", "list_snapshots">>}),
      ItemWrites({<<"snapshots create", "create_snapshot">>}),
      Cmd("never", "snapshot", "change", {<<"snapshots rename", "rename_snapshot">>}) }

SnapshotsConfirmed ==
    { Cmd("shown", "snapshot", "remove", {<<"snapshots delete", "delete_snapshot">>}),
      ItemChanges({<<"snapshots roll", "roll_snapshot_timestamp">>}) }

\* The statement it is given decides.
SqlExecCommand ==
    { Cmd("never", "item", effect, {<<"sql exec", "execute_sql">>}) :
        effect \in {"read", "change", "remove"} }

SqlPlanCommand == { ItemReads({<<"sql plan", "get_query_plan">>}) }

\* refresh removes, and builds again, with --recreate-tables.
SqlEndpointsCommands ==
    { Cmd("never", "all", "read", {<<"sql-endpoints list", "list_sql_endpoints">>}),
      Cmd("never", "listing", "read", {<<"sql-endpoints list", "list_sql_endpoints">>}),
      ItemReads({<<"sql-endpoints get", "get_sql_endpoint">>}),
      ItemWrites({<<"sql-endpoints refresh", "refresh_sql_endpoint_metadata">>}),
      Cmd("never", "item", "remove",
          {<<"sql-endpoints refresh", "refresh_sql_endpoint_metadata">>}) }

SqlPoolsReads ==
    { Cmd("never", "workspace", "read",
          {<<"sql-pools status", "get_sql_pools_status">>,
           <<"sql-pools list", "list_sql_pools">>, <<"sql-pools show", "get_sql_pool">>}) }

SqlPoolsCreate ==
    { Cmd("never", "workspace", "change", {<<"sql-pools create", "create_sql_pool">>}) }

SqlPoolsUpdate ==
    { Cmd("never", "workspace", "change", {<<"sql-pools update", "update_sql_pool">>}) }

SqlPoolsDelete ==
    { Cmd("first", "workspace", "remove", {<<"sql-pools delete", "delete_sql_pool">>}) }

SqlPoolsSwitch ==
    { Cmd("never", "workspace", "change",
          {<<"sql-pools enable", "enable_sql_pools">>,
           <<"sql-pools disable", "disable_sql_pools">>}),
      ItemReads({<<"sql-pools insights", "list_sql_pool_insights">>}) }

StatisticsReads ==
    { ItemReads({<<"statistics list", "list_statistics">>,
                 <<"statistics show", "show_statistics">>}) }

StatisticsWrites ==
    { ItemWrites({<<"statistics create", "create_statistics">>,
                  <<"statistics update", "update_statistics">>}) }

StatisticsDelete == { ItemRemovals({<<"statistics delete", "delete_statistics">>}) }

TablesLists ==
    { ItemReads({<<"tables list", "list_tables">>, <<"tables read", "read_table">>}) }

TablesCounts ==
    { ItemReads({<<"tables columns", "get_table_columns">>,
                 <<"tables count", "count_table_rows">>}) }

TablesExport == { ItemReads({<<"tables export", "">>}) }

TablesHealth ==
    { ItemReads({<<"tables health-check", "get_table_health_metrics">>,
                 <<"tables sync-status", "list_table_sync_status">>}) }

TablesRefresh == { ItemWrites({<<"tables refresh", "refresh_table_metadata">>}) }

TablesCreate ==
    { ItemWrites({<<"tables create", "create_table">>,
                  <<"tables create", "create_empty_table">>}) }

TablesDeleteUnasked ==
    { Cmd("never", "item", "remove",
          {<<"tables delete", "delete_table">>, <<"tables clear", "clear_table">>}) }

TablesDelete ==
    { ItemRemovals({<<"tables delete", "delete_table">>,
                    <<"tables clear", "clear_table">>}) }

TablesCluster ==
    { ItemRemovals({<<"tables cluster-by", "set_cluster_columns">>}),
      ItemReads({<<"tables cluster-columns", "get_cluster_columns">>}) }

TablesClone == { ItemWrites({<<"tables clone", "clone_table">>}) }

\* --if-exists truncate and replace are refused with --url.
TablesLoad ==
    { ItemWrites({<<"tables load", "load_table_from_url">>}),
      Cmd("first", "item", "remove", {<<"tables load", "import_table_from_url">>}) }

TablesRename ==
    { ItemWrites({<<"tables rename", "rename_table">>,
                  <<"tables transfer", "transfer_table">>}) }

ViewsLists ==
    { ItemReads({<<"views list", "list_views">>, <<"views read", "read_view">>,
                 <<"views columns", "get_view_columns">>}) }

ViewsCounts ==
    { ItemReads({<<"views count", "count_view_rows">>, <<"views export", "">>}) }

ViewsCreate ==
    { ItemReads({<<"views get", "get_view">>}),
      ItemWrites({<<"views create", "create_view">>}) }

ViewsConfirmed ==
    { ItemChanges({<<"views update", "update_view">>, <<"views rename", "rename_view">>,
                   <<"views transfer", "transfer_view">>}),
      ItemRemovals({<<"views drop", "drop_view">>}) }

WarehousesCommands ==
    { Cmd("never", "all", "read", {<<"warehouses list", "list_warehouses">>}),
      Cmd("never", "listing", "read", {<<"warehouses list", "list_warehouses">>}),
      ItemReads({<<"warehouses get", "get_warehouse">>}),
      Cmd("never", "workspace", "change", {<<"warehouses create", "create_warehouse">>}) }

WarehousesConfirmed ==
    { ItemChanges({<<"warehouses rename", "rename_warehouse">>,
                   <<"warehouses takeover", "takeover_warehouse">>}),
      ItemRemovals({<<"warehouses delete", "delete_warehouse">>}) }

WorkspacesCommands ==
    { Cmd("never", "none", "read",
          {<<"workspaces list-capacities", "list_capacities">>,
           <<"workspaces list", "list_workspaces">>}),
      Cmd("never", "argument", "read", {<<"workspaces get", "get_workspace">>}),
      Cmd("never", "argument", "change",
          {<<"workspaces assign-capacity", "assign_workspace_to_capacity">>}),
      Cmd("shown", "argument", "change",
          {<<"workspaces set-collation", "set_workspace_collation">>}) }

Commands == UNION
    { AuditSwitchCommands, AuditGroupCommands, CacheCommands, ConfigShowCommand,
      ConfigSetCommands, ConfigUnsetCommands, ConfigClearCommand, DbtInitCommand,
      FunctionsCommands, FunctionsConfirmed, ItemAccessCommands, SqlPermissionReads,
      SqlGrantCommands, SqlRevokeCommand, ClsGrantCommands, ClsRevokeAndList,
      RlsCommands, RlsPredicateCommands, RlsDropCommand, MaskCommands, MaskDropCommand,
      ProceduresCommands, ProceduresConfirmed, RunningCommands, RequestCommands,
      HistoryCommands, FrequentCommands, RestorePointCommands, RestoreCommands,
      SchemasCommands, SettingsCommands, RetentionCommands, SnapshotsCommands,
      SnapshotsConfirmed, SqlExecCommand, SqlPlanCommand, SqlEndpointsCommands,
      SqlPoolsReads, SqlPoolsCreate, SqlPoolsUpdate, SqlPoolsDelete, SqlPoolsSwitch,
      StatisticsReads, StatisticsWrites, StatisticsDelete, TablesLists, TablesCounts,
      TablesExport, TablesHealth, TablesRefresh, TablesCreate, TablesDelete,
      TablesCluster, TablesClone, TablesLoad, TablesRename, ViewsLists, ViewsCounts,
      ViewsCreate, ViewsConfirmed, WarehousesCommands, WarehousesConfirmed,
      WorkspacesCommands }

-----------------------------------------------------------------------------
\* The same service is behind assert_destructive_allowed in the MCP server.
GuardedInMcp(tool, effect) ==
    \E r \in Rows :
        /\ tool \in r.names
        /\ r.effect = effect
        /\ r.gate \in {"destructive", "late"}

\* They remove without asking: the statement is the user's, and a refresh of an
\* endpoint takes --recreate-tables at its word.
NotAsked == {"sql exec", "sql-endpoints refresh"}

\* What a command may be.  "grave": it removes, or MCP guards it as if it did.
CommandKinds == UNION
    {{[asks |-> r.asks, scope |-> r.scope,
       grave |-> /\ x[1] \notin NotAsked
                 /\ r.effect = "remove" \/ GuardedInMcp(x[2], r.effect)] :
        x \in r.pairs} : r \in Commands}
=============================================================================
