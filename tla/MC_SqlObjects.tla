---------------------------- MODULE MC_SqlObjects ----------------------------
(* Two calls of any two services on a database of two schemas. *)
EXTENDS SqlObjects, TLC

CONSTANTS c1, c2, s1, s2, a, b, t1

AtA == <<s1, a>>
AtB == <<s1, b>>
Object(kind) == [kind |-> kind, by |-> "nobody", has |-> {}]

\* A name with a table or a view on it, one that is free, and two schemas, the
\* second of which may be missing.
MCCatalogs ==
    {[n \in Qualified |-> IF n = SchemaEntry(s1) \/ (second /\ n = SchemaEntry(s2))
                          THEN Object("schema")
                          ELSE IF n = DatabaseEntry THEN Object("database")
                          ELSE IF n = AtA THEN Object(kind) ELSE Absent] :
        kind \in {"table", "view", "function"}, second \in BOOLEAN}

Reads == {list_tables, read_table(AtA), count_table_rows(AtA), export_table(AtA),
    get_cluster_columns, get_table_dependents, get_table_health_metrics(AtA),
    list_table_sync_status, list_views, read_view(AtA), count_view_rows(AtA),
    export_view(AtA), get_view(AtA), list_functions, get_function(AtA),
    list_procedures, get_procedure(AtA), get_object_columns,
    get_object_columns_or_raise(AtA), get_columns_for_schemas, list_schemas,
    list_statistics, show_statistics(AtA), list_security_policies,
    list_masked_columns, list_sql_permissions, list_database_principals, my_permissions,
    get_settings, list_running, list_connections, list_locks, list_request_history,
    list_session_history, list_frequent_queries, list_long_running_queries,
    get_request_detail, list_sql_pool_insights, get_plan}

TableWrites == {create_table(AtB), create_empty_table(AtA),
    create_table_from_parquet(AtA), create_table_from_csv(AtA),
    create_table_from_json(AtA), clone_table(AtA, AtB), delete_table(AtA),
    clear_table(AtA), recluster_table(AtA, t1), refresh_table_metadata(AtA),
    rename_table(AtA, AtB), transfer_table(AtA, s2)}

ModuleWrites == {create_view(AtB), update_view(AtA), drop_view(AtA),
    rename_view(AtA, AtB), transfer_view(AtA, s2), create_function(AtB),
    update_function(AtA), transfer_function(AtA, s2), drop_function(AtA, TRUE),
    drop_function(AtA, FALSE), create_procedure(AtA), update_procedure(AtB),
    drop_procedure(AtA), transfer_procedure(AtA, s2), create_schema(s2),
    delete_schema(s1, FALSE), delete_schema(s1, TRUE)}

AccessWrites == {create_statistics(AtA), update_statistics(AtA), drop_statistics(AtA),
    create_security_policy(AtB), add_predicate(AtB), drop_predicate(AtB),
    set_policy_state(AtB), drop_security_policy(AtB), set_column_mask(AtA),
    drop_column_mask(AtA), grant_permission(AtA), deny_permission(AtA),
    revoke_permission(AtA), set_result_set_caching, set_time_travel_retention,
    set_data_lake_log_publishing, roll_timestamp(TRUE), roll_timestamp(FALSE), kill,
    execute(Drop("view", AtA)),
    execute(Touch("table", AtA))}

Symmetric == Permutations(Callers)
MCPlans == Reads \cup TableWrites \cup ModuleWrites \cup AccessWrites
=============================================================================
