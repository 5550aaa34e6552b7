--------------------------- MODULE SqlObjectsProofs ---------------------------
(***************************************************************************)
(* Proofs about the SQL object services.  Their plans commit in one piece, *)
(* and calls with such plans are all or nothing; and they ask for a        *)
(* warehouse before they make or drop a table, so that a SQL endpoint      *)
(* keeps its tables; and they read back what they made, so that "not       *)
(* found" has a cause.  All this for any number of callers, any catalogue  *)
(* and any interleaving.                                                   *)
(***************************************************************************)
EXTENDS SqlObjects, FiniteSetTheorems, SequenceTheorems, TLAPS

\* One commit at most, and nothing to do for a call that only reads or that
\* returns at once.
WellFormed(p) ==
    /\ p.mode \in {"read", "commit", "autocommit", "deferred"}
    /\ p.mode = "read" \/ p.guard = "quiet" => p.stmts = <<>>

-----------------------------------------------------------------------------
(* Every service has such a plan. *)

LEMMA TableServicesWellFormed ==
    ASSUME NEW n, NEW m, NEW x
    PROVE  /\ WellFormed(list_tables) /\ WellFormed(read_table(n))
           /\ WellFormed(count_table_rows(n)) /\ WellFormed(export_table(n))
           /\ WellFormed(get_cluster_columns) /\ WellFormed(get_table_dependents)
           /\ WellFormed(get_table_health_metrics(n)) /\ WellFormed(list_table_sync_status)
           /\ WellFormed(create_table(n)) /\ WellFormed(create_empty_table(n))
           /\ WellFormed(create_table_from_parquet(n)) /\ WellFormed(create_table_from_csv(n))
           /\ WellFormed(create_table_from_json(n)) /\ WellFormed(clone_table(m, n))
           /\ WellFormed(delete_table(n)) /\ WellFormed(clear_table(n))
           /\ WellFormed(recluster_table(n, x))
           /\ WellFormed(refresh_table_metadata(n)) /\ WellFormed(rename_table(m, n))
           /\ WellFormed(transfer_table(m, x))
<1>1. /\ WellFormed(list_tables) /\ WellFormed(read_table(n))
      /\ WellFormed(count_table_rows(n)) /\ WellFormed(export_table(n))
      /\ WellFormed(get_cluster_columns) /\ WellFormed(get_table_dependents)
      /\ WellFormed(get_table_health_metrics(n)) /\ WellFormed(list_table_sync_status)
    BY DEF WellFormed, Ask, Get, OnWarehouse, OnEndpoint, Quiet, list_tables,
           read_table, count_table_rows, export_table, get_cluster_columns,
           get_table_dependents, get_table_health_metrics, list_table_sync_status
<1>2. /\ WellFormed(create_table(n)) /\ WellFormed(create_empty_table(n))
      /\ WellFormed(create_table_from_parquet(n)) /\ WellFormed(create_table_from_csv(n))
      /\ WellFormed(create_table_from_json(n)) /\ WellFormed(clone_table(m, n))
    BY DEF WellFormed, Ask, Committed, AtOnce, Then, OnWarehouse, create_table,
           create_empty_table, create_table_from_parquet, create_table_from_csv,
           create_table_from_json, clone_table
<1>3. /\ WellFormed(delete_table(n)) /\ WellFormed(clear_table(n))
      /\ WellFormed(recluster_table(n, x))
    BY DEF WellFormed, Ask, Committed, Deferred, Then, OnWarehouse, delete_table,
           clear_table, recluster_table
<1>4. /\ WellFormed(refresh_table_metadata(n)) /\ WellFormed(rename_table(m, n))
      /\ WellFormed(transfer_table(m, x))
    BY DEF WellFormed, Ask, Committed, AtOnce, Then, OnWarehouse, OnEndpoint,
           transfer_object, refresh_table_metadata, rename_table, transfer_table
<1>. QED
    BY <1>1, <1>2, <1>3, <1>4

LEMMA ModuleServicesWellFormed ==
    ASSUME NEW n, NEW m, NEW s, NEW flag \in BOOLEAN
    PROVE  /\ WellFormed(list_views) /\ WellFormed(read_view(n))
           /\ WellFormed(count_view_rows(n)) /\ WellFormed(export_view(n))
           /\ WellFormed(get_view(n)) /\ WellFormed(list_functions)
           /\ WellFormed(get_function(n))
           /\ WellFormed(list_procedures) /\ WellFormed(get_procedure(n))
           /\ WellFormed(get_object_columns) /\ WellFormed(get_object_columns_or_raise(n))
           /\ WellFormed(get_columns_for_schemas)
           /\ WellFormed(create_view(n)) /\ WellFormed(update_view(n))
           /\ WellFormed(drop_view(n)) /\ WellFormed(rename_view(m, n))
           /\ WellFormed(transfer_view(m, s))
           /\ WellFormed(create_function(n)) /\ WellFormed(update_function(n))
           /\ WellFormed(transfer_function(m, s)) /\ WellFormed(drop_function(n, flag))
           /\ WellFormed(create_procedure(n)) /\ WellFormed(update_procedure(n))
           /\ WellFormed(drop_procedure(n)) /\ WellFormed(transfer_procedure(m, s))
<1>1. /\ WellFormed(list_views) /\ WellFormed(read_view(n))
      /\ WellFormed(count_view_rows(n)) /\ WellFormed(export_view(n))
      /\ WellFormed(get_view(n)) /\ WellFormed(list_functions)
      /\ WellFormed(get_function(n))
    BY DEF WellFormed, Ask, Get, list_views, read_view, count_view_rows, export_view,
           get_view, list_functions, get_function
<1>2. /\ WellFormed(list_procedures) /\ WellFormed(get_procedure(n))
      /\ WellFormed(get_object_columns) /\ WellFormed(get_object_columns_or_raise(n))
      /\ WellFormed(get_columns_for_schemas)
    BY DEF WellFormed, Ask, Get, list_procedures, get_procedure, get_object_columns,
           get_object_columns_or_raise, get_columns_for_schemas
<1>3. /\ WellFormed(create_view(n)) /\ WellFormed(update_view(n))
      /\ WellFormed(drop_view(n)) /\ WellFormed(rename_view(m, n))
      /\ WellFormed(transfer_view(m, s))
    BY DEF WellFormed, Ask, Committed, Then, transfer_object, create_view, update_view,
           drop_view, rename_view, transfer_view
<1>4. /\ WellFormed(create_function(n)) /\ WellFormed(update_function(n))
      /\ WellFormed(transfer_function(m, s)) /\ WellFormed(drop_function(n, flag))
    BY DEF WellFormed, Ask, Committed, Then, transfer_object, create_function,
           update_function, transfer_function, drop_function
<1>5. /\ WellFormed(create_procedure(n)) /\ WellFormed(update_procedure(n))
      /\ WellFormed(drop_procedure(n)) /\ WellFormed(transfer_procedure(m, s))
    BY DEF WellFormed, Ask, Committed, Then, transfer_object, create_procedure,
           update_procedure, drop_procedure, transfer_procedure
<1>. QED
    BY <1>1, <1>2, <1>3, <1>4, <1>5

LEMMA DatabaseServicesWellFormed ==
    ASSUME NEW s, NEW flag \in BOOLEAN
    PROVE  /\ WellFormed(get_settings) /\ WellFormed(set_result_set_caching)
           /\ WellFormed(set_time_travel_retention)
           /\ WellFormed(set_data_lake_log_publishing)
           /\ WellFormed(list_running) /\ WellFormed(list_connections)
           /\ WellFormed(list_locks) /\ WellFormed(kill)
           /\ WellFormed(list_request_history) /\ WellFormed(list_session_history)
           /\ WellFormed(list_frequent_queries) /\ WellFormed(list_long_running_queries)
           /\ WellFormed(get_request_detail) /\ WellFormed(list_sql_pool_insights)
           /\ WellFormed(execute(s)) /\ WellFormed(get_plan)
           /\ WellFormed(roll_timestamp(flag))
BY DEF WellFormed, Ask, Get, AtOnce, Then, OnWarehouse, SetOption, get_settings,
       set_result_set_caching, set_time_travel_retention, set_data_lake_log_publishing,
       list_running, list_connections, list_locks, kill, list_request_history,
       list_session_history, list_frequent_queries, list_long_running_queries,
       get_request_detail, list_sql_pool_insights, execute, get_plan,
       roll_timestamp

LEMMA OtherServicesWellFormed ==
    ASSUME NEW n, NEW s, NEW flag \in BOOLEAN
    PROVE  /\ WellFormed(list_schemas) /\ WellFormed(list_statistics)
           /\ WellFormed(show_statistics(n)) /\ WellFormed(list_security_policies)
           /\ WellFormed(list_masked_columns) /\ WellFormed(list_sql_permissions)
           /\ WellFormed(list_database_principals) /\ WellFormed(my_permissions)
           /\ WellFormed(create_schema(s)) /\ WellFormed(delete_schema(s, flag))
           /\ WellFormed(create_statistics(n)) /\ WellFormed(update_statistics(n))
           /\ WellFormed(drop_statistics(n))
           /\ WellFormed(create_security_policy(n)) /\ WellFormed(add_predicate(n))
           /\ WellFormed(drop_predicate(n)) /\ WellFormed(set_policy_state(n))
           /\ WellFormed(drop_security_policy(n))
           /\ WellFormed(set_column_mask(n)) /\ WellFormed(drop_column_mask(n))
           /\ WellFormed(grant_permission(n)) /\ WellFormed(deny_permission(n))
           /\ WellFormed(revoke_permission(n))
<1>1. /\ WellFormed(list_schemas) /\ WellFormed(list_statistics)
      /\ WellFormed(show_statistics(n)) /\ WellFormed(list_security_policies)
      /\ WellFormed(list_masked_columns) /\ WellFormed(list_sql_permissions)
      /\ WellFormed(list_database_principals) /\ WellFormed(my_permissions)
    BY DEF WellFormed, Ask, Get, list_schemas, list_statistics, show_statistics,
           list_security_policies, list_masked_columns, list_sql_permissions,
           list_database_principals, my_permissions
<1>2. /\ WellFormed(create_schema(s)) /\ WellFormed(delete_schema(s, flag))
    BY DEF WellFormed, Ask, Committed, Deferred, Then, create_schema, delete_schema
<1>3. /\ WellFormed(create_statistics(n)) /\ WellFormed(update_statistics(n))
      /\ WellFormed(drop_statistics(n))
    BY DEF WellFormed, Ask, Committed, Then, OnWarehouse, create_statistics,
           update_statistics, drop_statistics
<1>4. /\ WellFormed(create_security_policy(n)) /\ WellFormed(add_predicate(n))
      /\ WellFormed(drop_predicate(n)) /\ WellFormed(set_policy_state(n))
      /\ WellFormed(drop_security_policy(n))
    BY DEF WellFormed, Ask, AtOnce, create_security_policy, add_predicate,
           drop_predicate, set_policy_state, drop_security_policy
<1>5. /\ WellFormed(set_column_mask(n)) /\ WellFormed(drop_column_mask(n))
      /\ WellFormed(grant_permission(n)) /\ WellFormed(deny_permission(n))
      /\ WellFormed(revoke_permission(n))
    BY DEF WellFormed, Ask, AtOnce, set_column_mask, drop_column_mask, grant_permission,
           deny_permission, revoke_permission
<1>. QED
    BY <1>1, <1>2, <1>3, <1>4, <1>5

-----------------------------------------------------------------------------
(* Calls with such plans. *)

PlansWellFormed == \A p \in Plans : WellFormed(p)

Places == {"start", "list", "run", "commit", "reread"} \cup Ends

TypeOK ==
    /\ pc \in [Callers -> Places]
    /\ plan \in [Callers -> Plans]
    /\ DOMAIN todo = Callers
    /\ step \in [Callers -> Nat \ {0}]
    /\ durable \in [Callers -> Nat]

\* How far a call that does not run under autocommit has got: nothing is durable
\* until its one commit, which comes after the last statement.
Progress(c) ==
    /\ pc[c] = "start" => todo[c] = plan[c].stmts
    /\ pc[c] \in {"start", "list", "run", "refused", "error", "absent"} => durable[c] = 0
    /\ pc[c] = "commit" => durable[c] = 0 /\ Len(todo[c]) = step[c] - 1
    /\ pc[c] \in {"reread", "ok", "not_found", "reread_failed"} =>
           durable[c] = Len(todo[c])
    /\ pc[c] = "commit_failed" => durable[c] \in {0, Len(todo[c])}

IInv ==
    /\ TypeOK
    /\ \A c \in Callers : InTransaction(c) => Progress(c)

LEMMA InitIInv == Init => IInv
BY DEF Init, IInv, TypeOK, Progress, Places, Ends

\* A step of one caller leaves the others' progress alone.
LEMMA OthersKeep ==
    ASSUME IInv, NEW c \in Callers, NEW d \in Callers \ {c},
           UNCHANGED plan, pc'[d] = pc[d], todo'[d] = todo[d], step'[d] = step[d],
           durable'[d] = durable[d], InTransaction(d)'
    PROVE  Progress(d)'
BY DEF IInv, Progress, InTransaction

LEMMA StepIInv ==
    ASSUME PlansWellFormed, IInv, [Next]_vars
    PROVE  IInv'
<1>1. CASE UNCHANGED vars
    BY <1>1 DEF vars, IInv, TypeOK, Progress, InTransaction
<1>2. ASSUME NEW c \in Callers,
             \/ Begin(c) \/ List(c) \/ RunStatement(c) \/ StatementFails(c) \/ AnswerLost(c)
             \/ Commit(c) \/ CommitFails(c) \/ Reread(c) \/ RereadFails(c)
      PROVE  IInv'
    <2>1. UNCHANGED plan /\ TypeOK'
        <3> USE DEF IInv, TypeOK, config, Goto, Places, Ends
        <3>1. CASE Begin(c)
            BY <3>1 DEF Begin
        <3>2. CASE List(c)
            BY <3>2 DEF List
        <3>3. CASE RunStatement(c)
            BY <3>3 DEF RunStatement, Runs
        <3>4. CASE StatementFails(c)
            BY <3>4 DEF StatementFails
        <3>5. CASE AnswerLost(c)
            BY <3>5 DEF AnswerLost, Runs
        <3>6. CASE Commit(c)
            BY <3>6 DEF Commit, Publish
        <3>7. CASE CommitFails(c)
            BY <3>7 DEF CommitFails, Publish
        <3>8. CASE Reread(c)
            BY <3>8 DEF Reread
        <3>9. CASE RereadFails(c)
            BY <3>9 DEF RereadFails
        <3>. QED
            BY <1>2, <3>1, <3>2, <3>3, <3>4, <3>5, <3>6, <3>7, <3>8, <3>9
    <2>2. ASSUME NEW d \in Callers \ {c}
          PROVE  /\ pc'[d] = pc[d] /\ todo'[d] = todo[d]
                 /\ step'[d] = step[d] /\ durable'[d] = durable[d]
        BY <1>2 DEF IInv, TypeOK, Goto, Begin, List, RunStatement, Runs, StatementFails,
                    AnswerLost, Commit, CommitFails, Publish, Reread, RereadFails
    <2>3. ASSUME InTransaction(c)' PROVE Progress(c)'
        <3>1. /\ InTransaction(c) /\ Progress(c) /\ TypeOK
              /\ plan[c].mode \in {"read", "commit", "deferred"}
              /\ plan[c].mode = "read" \/ plan[c].guard = "quiet" => plan[c].stmts = <<>>
            BY <2>1, <2>3 DEF IInv, TypeOK, InTransaction, PlansWellFormed, WellFormed
        <3> USE <3>1 DEF TypeOK, Progress, Goto, config
        <3>2. CASE Begin(c)
            BY <3>2 DEF Begin
        <3>3. CASE List(c)
            BY <3>3 DEF List
        <3>4. CASE RunStatement(c)
            <4>1. /\ pc[c] = "run" /\ UNCHANGED <<todo, plan, durable>>
                  /\ step' = [step EXCEPT ![c] = @ + 1]
                BY <3>1, <3>4 DEF RunStatement, Runs
            <4>2. pc'[c] = IF step[c] = Len(todo[c]) THEN "commit" ELSE "run"
                <5>1. CommitIsDue(c) <=> IsLast(c)
                    BY <3>1 DEF CommitIsDue
                <5>. QED
                    BY <3>1, <3>4, <5>1 DEF RunStatement, IsLast
            <4>. QED
                BY <4>1, <4>2
        <3>5. CASE StatementFails(c)
            BY <3>5 DEF StatementFails
        <3>6. CASE Commit(c)
            BY <3>6 DEF Commit, Publish
        <3>7. CASE CommitFails(c)
            BY <3>7 DEF CommitFails, Publish
        <3>8. CASE Reread(c)
            BY <3>8 DEF Reread
        <3>9. CASE RereadFails(c)
            BY <3>9 DEF RereadFails
        <3>. QED
            BY <1>2, <3>2, <3>3, <3>4, <3>5, <3>6, <3>7, <3>8, <3>9 DEF AnswerLost
    <2>. QED
        BY <2>1, <2>2, <2>3, OthersKeep DEF IInv
<1>. QED
    BY <1>1, <1>2 DEF Next

LEMMA Invariant ==
    ASSUME PlansWellFormed
    PROVE  Spec => []IInv
<1>1. IInv /\ [Next]_vars => IInv'
    BY StepIInv
<1>. QED
    BY InitIInv, <1>1, PTL DEF Spec

\* Any calls of the services, on any catalogue and failing anywhere: outside
\* autocommit each of them changes everything it was asked to or nothing, and
\* what it returns or raises says which.
THEOREM AllOrNothingCorrect ==
    ASSUME PlansWellFormed
    PROVE  Spec => []AllOrNothing
<1>1. IInv => AllOrNothing
    BY DEF IInv, TypeOK, Progress, Places, Ends, AllOrNothing
<1>. QED
    BY Invariant, <1>1, PTL

-----------------------------------------------------------------------------
(* Tables on a SQL endpoint.  A call that makes or drops a table asks for a *)
(* warehouse first, and no other statement changes how many there are.      *)

\* What a statement may be.
Makes == {"create", "alter", "copy", "clone"}
Marks == {"put", "set", "renew", "remove", "unset"}
Statements ==
    {s \in [does : Makes \cup Marks \cup {"drop", "move", "touch"},
            kind : Kinds \cup Attributes \cup {"any"},
            at : Qualified, from : Qualified \cup {NoName}] :
        /\ s.does \in Makes => s.kind \in Kinds
        /\ s.does \in Marks => s.kind \in Attributes
        /\ s.does = "move" => s.from \in Qualified}

\* A statement that makes or drops a table.
TableDDL(s) == s.kind = "table" /\ s.does \in {"create", "alter", "copy", "clone", "drop"}

PlanFits(p) ==
    /\ p.stmts \in Seq(Statements)
    /\ p.mode # "read" \/ p.cascade => p.stmts # <<>>
    /\ p.guard # "warehouse" => \A i \in DOMAIN p.stmts : ~ TableDDL(p.stmts[i])

PlansFit == \A p \in Plans : PlanFits(p)

-----------------------------------------------------------------------------
(* Every service has such a plan. *)

LEMMA StatementsAre ==
    ASSUME NEW n \in Qualified, NEW m \in Qualified
    PROVE  /\ \A k \in Kinds : /\ Create(k, n) \in Statements /\ CreateOrAlter(k, n) \in Statements
                               /\ Drop(k, n) \in Statements /\ Touch(k, n) \in Statements
           /\ CopyRows(m, n) \in Statements /\ Clone(m, n) \in Statements
           /\ Move(m, n) \in Statements /\ ~ TableDDL(Move(m, n))
           /\ \A k : ~ TableDDL(Touch(k, n))
           /\ \A k : k # "table" => /\ ~ TableDDL(Create(k, n)) /\ ~ TableDDL(CreateOrAlter(k, n))
                                    /\ ~ TableDDL(Drop(k, n))
           /\ \A k \in Attributes : /\ Put(k, n) \in Statements /\ Set(k, n) \in Statements
                                    /\ Renew(k, n) \in Statements /\ Remove(k, n) \in Statements
                                    /\ Unset(k, n) \in Statements
           /\ \A k : /\ ~ TableDDL(Put(k, n)) /\ ~ TableDDL(Set(k, n)) /\ ~ TableDDL(Renew(k, n))
                     /\ ~ TableDDL(Remove(k, n)) /\ ~ TableDDL(Unset(k, n))
<1>1. \A k \in Kinds : /\ Create(k, n) \in Statements /\ CreateOrAlter(k, n) \in Statements
                       /\ Drop(k, n) \in Statements /\ Touch(k, n) \in Statements
    BY DEF Statements, Makes, Marks, Create, CreateOrAlter, Drop, Touch, Stmt
<1>2. /\ CopyRows(m, n) \in Statements /\ Clone(m, n) \in Statements /\ Move(m, n) \in Statements
    BY DEF Statements, Makes, Marks, CopyRows, Clone, Move, Stmt, Kinds
<1>3. \A k \in Attributes : /\ Put(k, n) \in Statements /\ Set(k, n) \in Statements
                            /\ Renew(k, n) \in Statements /\ Remove(k, n) \in Statements
                            /\ Unset(k, n) \in Statements
    BY DEF Statements, Makes, Marks, Put, Set, Renew, Remove, Unset, Stmt
<1>. QED
    BY <1>1, <1>2, <1>3 DEF TableDDL, Create, CreateOrAlter, Drop, Touch, Move, Put, Set,
                            Renew, Remove, Unset, Stmt

\* A plan of one statement, which makes or drops a table only where the plan
\* asks for a warehouse.
LEMMA OneStatementFits ==
    ASSUME NEW s \in Statements, NEW what, NEW at
    PROVE  /\ PlanFits(OnWarehouse(Committed(s))) /\ PlanFits(OnWarehouse(AtOnce(s)))
           /\ PlanFits(OnWarehouse(Then(Committed(s), what, at)))
           /\ PlanFits(OnWarehouse(Then(AtOnce(s), what, at)))
           /\ ~ TableDDL(s) =>
                  /\ PlanFits(Committed(s)) /\ PlanFits(AtOnce(s))
                  /\ PlanFits(Then(Committed(s), what, at))
                  /\ PlanFits([Committed(s) EXCEPT !.ifExists = TRUE])
                  /\ PlanFits([Committed(s) EXCEPT !.ifExists = FALSE])
                  /\ PlanFits([AtOnce(s) EXCEPT !.again = "never"])
                  /\ PlanFits(Then([AtOnce(s) EXCEPT !.again = "never"], what, at))
                  /\ PlanFits(OnEndpoint(Then([AtOnce(s) EXCEPT !.again = "always"], what, at)))
<1>1. /\ <<s>> \in Seq(Statements) /\ <<s>> # <<>>
      /\ ~ TableDDL(s) => \A i \in DOMAIN <<s>> : ~ TableDDL(<<s>>[i])
    OBVIOUS
<1> HIDE DEF TableDDL
<1>2. \A p : p.stmts = <<s>> /\ (p.guard = "warehouse" \/ ~ TableDDL(s)) => PlanFits(p)
    BY <1>1 DEF PlanFits
<1>. QED
    BY <1>2 DEF Ask, Committed, AtOnce, Then, OnWarehouse, OnEndpoint

\* A call that sends nothing but what it reads.
LEMMA ReadsFit ==
    ASSUME NEW what, NEW n
    PROVE  /\ PlanFits(Ask) /\ PlanFits(Get(what, n))
           /\ PlanFits(OnWarehouse(Ask)) /\ PlanFits(OnEndpoint(Ask)) /\ PlanFits(Quiet(Ask))
           /\ PlanFits(OnEndpoint(Get(what, n)))
<1>1. \A p : p.stmts = <<>> /\ p.mode = "read" /\ p.cascade = FALSE => PlanFits(p)
    BY DEF PlanFits
<1>. QED
    BY <1>1 DEF Ask, Get, OnWarehouse, OnEndpoint, Quiet

LEMMA TableWritesFit ==
    ASSUME NEW n \in Qualified, NEW m \in Qualified, NEW x, <<n[1], x>> \in Qualified,
           <<x, m[2]>> \in Qualified
    PROVE  /\ PlanFits(create_table(n)) /\ PlanFits(create_empty_table(n))
           /\ PlanFits(create_table_from_parquet(n)) /\ PlanFits(create_table_from_csv(n))
           /\ PlanFits(create_table_from_json(n)) /\ PlanFits(clone_table(m, n))
           /\ PlanFits(delete_table(n)) /\ PlanFits(clear_table(n))
           /\ PlanFits(rename_table(m, n)) /\ PlanFits(transfer_table(m, x))
           /\ PlanFits(refresh_table_metadata(n)) /\ PlanFits(recluster_table(n, x))
<1>1. /\ Create("table", n) \in Statements /\ Drop("table", n) \in Statements
      /\ Touch("table", n) \in Statements /\ ~ TableDDL(Touch("table", n))
      /\ Clone(m, n) \in Statements /\ Move(m, n) \in Statements
      /\ Move(m, <<x, m[2]>>) \in Statements
      /\ CopyRows(n, <<n[1], x>>) \in Statements /\ Move(<<n[1], x>>, n) \in Statements
    BY StatementsAre DEF Kinds
<1>2. /\ PlanFits(create_table(n)) /\ PlanFits(create_empty_table(n))
      /\ PlanFits(create_table_from_parquet(n)) /\ PlanFits(create_table_from_csv(n))
      /\ PlanFits(create_table_from_json(n))
    BY <1>1, OneStatementFits DEF create_table, create_empty_table,
           create_table_from_parquet, create_table_from_csv, create_table_from_json
<1>3. /\ PlanFits(clone_table(m, n)) /\ PlanFits(delete_table(n)) /\ PlanFits(clear_table(n))
      /\ PlanFits(rename_table(m, n)) /\ PlanFits(refresh_table_metadata(n))
    BY <1>1, OneStatementFits DEF clone_table, delete_table, clear_table, rename_table,
           refresh_table_metadata
<1>4. PlanFits(transfer_table(m, x))
    BY <1>1, OneStatementFits DEF transfer_table, transfer_object
<1>5. PlanFits(recluster_table(n, x))
    <2>1. Swap(n, x) \in Seq(Statements) /\ Swap(n, x) # <<>>
        BY <1>1 DEF Swap
    <2>. QED
        BY <2>1 DEF PlanFits, recluster_table, Ask, Deferred, Then, OnWarehouse
<1>. QED
    BY <1>1, <1>2, <1>3, <1>4, <1>5

LEMMA ModuleWritesFit ==
    ASSUME NEW n \in Qualified, NEW m \in Qualified, NEW s, <<s, m[2]>> \in Qualified,
           SchemaEntry(s) \in Qualified, NEW flag \in BOOLEAN
    PROVE  /\ PlanFits(create_view(n)) /\ PlanFits(update_view(n)) /\ PlanFits(drop_view(n))
           /\ PlanFits(rename_view(m, n)) /\ PlanFits(transfer_view(m, s))
           /\ PlanFits(create_function(n)) /\ PlanFits(update_function(n))
           /\ PlanFits(transfer_function(m, s)) /\ PlanFits(drop_function(n, flag))
           /\ PlanFits(create_procedure(n)) /\ PlanFits(update_procedure(n))
           /\ PlanFits(drop_procedure(n)) /\ PlanFits(transfer_procedure(m, s))
           /\ PlanFits(create_schema(s)) /\ PlanFits(delete_schema(s, flag))
<1>1. \A k \in {"view", "function", "procedure"} :
          /\ Create(k, n) \in Statements /\ ~ TableDDL(Create(k, n))
          /\ CreateOrAlter(k, n) \in Statements /\ ~ TableDDL(CreateOrAlter(k, n))
          /\ Drop(k, n) \in Statements /\ ~ TableDDL(Drop(k, n))
    BY StatementsAre DEF Kinds
<1>2. /\ Move(m, n) \in Statements /\ ~ TableDDL(Move(m, n))
      /\ Move(m, <<s, m[2]>>) \in Statements /\ ~ TableDDL(Move(m, <<s, m[2]>>))
    BY StatementsAre
<1>3. /\ PlanFits(create_view(n)) /\ PlanFits(update_view(n)) /\ PlanFits(drop_view(n))
      /\ PlanFits(rename_view(m, n)) /\ PlanFits(transfer_view(m, s))
    BY <1>1, <1>2, OneStatementFits DEF create_view, update_view, drop_view, rename_view,
           transfer_view, transfer_object
<1>4. /\ PlanFits(create_function(n)) /\ PlanFits(update_function(n))
      /\ PlanFits(transfer_function(m, s)) /\ PlanFits(drop_function(n, flag))
    BY <1>1, <1>2, OneStatementFits DEF create_function, update_function,
           transfer_function, drop_function, transfer_object
<1>5. /\ PlanFits(create_procedure(n)) /\ PlanFits(update_procedure(n))
      /\ PlanFits(drop_procedure(n)) /\ PlanFits(transfer_procedure(m, s))
    BY <1>1, <1>2, OneStatementFits DEF create_procedure, update_procedure,
           drop_procedure, transfer_procedure, transfer_object
<1>6. /\ Create("schema", SchemaEntry(s)) \in Statements
      /\ Drop("schema", SchemaEntry(s)) \in Statements
      /\ ~ TableDDL(Create("schema", SchemaEntry(s))) /\ ~ TableDDL(Drop("schema", SchemaEntry(s)))
    BY StatementsAre DEF Kinds
<1>7. PlanFits(create_schema(s))
    BY <1>6, OneStatementFits DEF create_schema
<1>8. PlanFits(delete_schema(s, flag))
    <2>1. CASE flag
        <3> DEFINE stmts == <<Drop("schema", SchemaEntry(s))>>
        <3>1. /\ stmts \in Seq(Statements) /\ stmts # <<>>
              /\ \A i \in DOMAIN stmts : ~ TableDDL(stmts[i])
            BY <1>6
        <3>2. delete_schema(s, flag).stmts = stmts
            BY <2>1 DEF delete_schema, Ask, Deferred
        <3>. QED
            BY <3>1, <3>2 DEF PlanFits
    <2>2. CASE ~ flag
        BY <1>6, <2>2, OneStatementFits DEF delete_schema
    <2>. QED
        BY <2>1, <2>2
<1>. QED
    BY <1>3, <1>4, <1>5, <1>7, <1>8

LEMMA OtherWritesFit ==
    ASSUME NEW n \in Qualified, NEW flag \in BOOLEAN
    PROVE  /\ PlanFits(create_statistics(n)) /\ PlanFits(update_statistics(n))
           /\ PlanFits(drop_statistics(n))
           /\ PlanFits(create_security_policy(n)) /\ PlanFits(add_predicate(n))
           /\ PlanFits(drop_predicate(n)) /\ PlanFits(set_policy_state(n))
           /\ PlanFits(drop_security_policy(n))
           /\ PlanFits(set_column_mask(n)) /\ PlanFits(drop_column_mask(n))
           /\ PlanFits(grant_permission(n)) /\ PlanFits(deny_permission(n))
           /\ PlanFits(revoke_permission(n))
           /\ PlanFits(set_result_set_caching) /\ PlanFits(set_time_travel_retention)
           /\ PlanFits(set_data_lake_log_publishing)
           /\ PlanFits(kill) /\ PlanFits(roll_timestamp(flag))
           /\ \A s \in Statements : ~ TableDDL(s) => PlanFits(execute(s))
<1>1. DatabaseEntry \in Qualified
    BY DEF Qualified
<1>2. \A k \in {"statistic", "predicate", "mask", "permission"} :
          /\ Put(k, n) \in Statements /\ ~ TableDDL(Put(k, n))
          /\ Set(k, n) \in Statements /\ ~ TableDDL(Set(k, n))
          /\ Renew(k, n) \in Statements /\ ~ TableDDL(Renew(k, n))
          /\ Remove(k, n) \in Statements /\ ~ TableDDL(Remove(k, n))
          /\ Unset(k, n) \in Statements /\ ~ TableDDL(Unset(k, n))
    BY StatementsAre DEF Attributes
<1>3. /\ Create("policy", n) \in Statements /\ ~ TableDDL(Create("policy", n))
      /\ Drop("policy", n) \in Statements /\ ~ TableDDL(Drop("policy", n))
      /\ Touch("policy", n) \in Statements /\ ~ TableDDL(Touch("policy", n))
    BY StatementsAre DEF Kinds
<1>4. /\ Touch("database", DatabaseEntry) \in Statements
      /\ ~ TableDDL(Touch("database", DatabaseEntry))
      /\ \A k \in {"result_set_caching", "time_travel_retention", "data_lake_log_publishing"} :
             Set(k, DatabaseEntry) \in Statements
    BY <1>1, StatementsAre DEF Kinds, Attributes
<1>5. /\ PlanFits(create_statistics(n)) /\ PlanFits(update_statistics(n))
      /\ PlanFits(drop_statistics(n))
    BY <1>2, OneStatementFits DEF create_statistics, update_statistics, drop_statistics
<1>6. /\ PlanFits(create_security_policy(n)) /\ PlanFits(add_predicate(n))
      /\ PlanFits(drop_predicate(n)) /\ PlanFits(set_policy_state(n))
      /\ PlanFits(drop_security_policy(n))
    BY <1>2, <1>3, OneStatementFits DEF create_security_policy, add_predicate,
           drop_predicate, set_policy_state, drop_security_policy
<1>7. /\ PlanFits(set_column_mask(n)) /\ PlanFits(drop_column_mask(n))
      /\ PlanFits(grant_permission(n)) /\ PlanFits(deny_permission(n))
      /\ PlanFits(revoke_permission(n))
    BY <1>2, OneStatementFits DEF set_column_mask, drop_column_mask, grant_permission,
           deny_permission, revoke_permission
<1>8. /\ PlanFits(set_result_set_caching) /\ PlanFits(set_time_travel_retention)
      /\ PlanFits(set_data_lake_log_publishing)
    BY <1>4, OneStatementFits DEF SetOption, set_result_set_caching,
           set_time_travel_retention, set_data_lake_log_publishing
<1>9. PlanFits(kill) /\ PlanFits(roll_timestamp(flag))
    BY <1>4, OneStatementFits DEF kill, roll_timestamp
<1>10. \A s \in Statements : ~ TableDDL(s) => PlanFits(execute(s))
    BY OneStatementFits DEF execute
<1>. QED
    BY <1>5, <1>6, <1>7, <1>8, <1>9, <1>10

-----------------------------------------------------------------------------
(* What the callers have at each place, and what their transactions hold.  *)

SPlaces == {"start", "list", "run", "commit", "reread"} \cup Ends
\* The statements still to be sent fit the kind of item.
TodoInv(c) ==
    /\ todo[c] \in Seq(Statements)
    /\ pc[c] = "start" => todo[c] = plan[c].stmts
    /\ pc[c] \in {"start", "list"} => step[c] = 1
    /\ pc[c] \in {"list", "run"} => step[c] <= Len(todo[c])
    /\ itemKind = "endpoint" /\ pc[c] \in {"list", "run", "commit"} =>
           \A i \in DOMAIN todo[c] : ~ TableDDL(todo[c][i])

\* A name is in one transaction at most, and in none of a call under autocommit.
LockInv ==
    /\ DOMAIN before = Callers
    /\ \A c \in Callers : before[c] \in [Undone(c) -> Objects] /\ Undone(c) \subseteq Qualified
    /\ \A c, d \in Callers : c # d => Undone(c) \cap Undone(d) = {}
    /\ \A c \in Callers : ~ InTransaction(c) => Undone(c) = {}

\* A transaction leaves as many tables as it found, of the names it changed.
Inside(c) == {n \in Undone(c) : before[c][n].kind = "table"}
Outside(c) == {n \in Undone(c) : cat[n].kind = "table"}
TableInv == \A c \in Callers :
    itemKind = "endpoint" => Cardinality(Inside(c)) = Cardinality(Outside(c))

SInv ==
    /\ plan \in [Callers -> Plans]
    /\ cat \in [Qualified -> Objects]
    /\ DOMAIN todo = Callers
    /\ pc \in [Callers -> SPlaces]
    /\ step \in [Callers -> Nat \ {0}]
    /\ \A c \in Callers : TodoInv(c)
    /\ LockInv
    /\ TableInv

-----------------------------------------------------------------------------
LEMMA QualifiedNames ==
    \A n \in Qualified : n # NoName
BY DEF Qualified, DatabaseEntry, NoName

\* The names in S that stand for tables.
TablesIn(D, S) == {n \in S : D[n].kind = "table"}

\* Two functions on a finite set that differ in a part of it, where as many
\* names stand for tables in the one as in the other.
LEMMA SplitKeeps ==
    ASSUME NEW Q, IsFiniteSet(Q), NEW U \in SUBSET Q, NEW D, NEW E,
           \A n \in Q \ U : E[n] = D[n],
           Cardinality(TablesIn(D, U)) = Cardinality(TablesIn(E, U))
    PROVE  Cardinality(TablesIn(D, Q)) = Cardinality(TablesIn(E, Q))
<1> DEFINE rest == {n \in Q \ U : D[n].kind = "table"}
           inD == {n \in U : D[n].kind = "table"}
           inE == {n \in U : E[n].kind = "table"}
<1>1. /\ {n \in Q : D[n].kind = "table"} = rest \cup inD
      /\ {n \in Q : E[n].kind = "table"} = rest \cup inE
      /\ rest \cap inD = {} /\ rest \cap inE = {}
    OBVIOUS
<1>2. IsFiniteSet(rest) /\ IsFiniteSet(inD) /\ IsFiniteSet(inE)
    BY FS_Subset, rest \in SUBSET Q, inD \in SUBSET Q, inE \in SUBSET Q
<1> HIDE DEF rest, inD, inE
<1>3. Cardinality(rest \cup inD) = Cardinality(rest) + Cardinality(inD)
    <2>1. Cardinality(rest \cup inD)
              = Cardinality(rest) + Cardinality(inD) - Cardinality(rest \cap inD)
        BY <1>2, FS_Union
    <2>. QED
        <3>1. Cardinality(rest \cap inD) = 0
            BY <1>1, FS_EmptySet
        <3>2. Cardinality(rest) \in Nat /\ Cardinality(inD) \in Nat
            BY <1>2, FS_CardinalityType
        <3>. QED
            BY <2>1, <3>1, <3>2
<1>4. Cardinality(rest \cup inE) = Cardinality(rest) + Cardinality(inE)
    <2>1. Cardinality(rest \cup inE)
              = Cardinality(rest) + Cardinality(inE) - Cardinality(rest \cap inE)
        BY <1>2, FS_Union
    <2>. QED
        <3>1. Cardinality(rest \cap inE) = 0
            BY <1>1, FS_EmptySet
        <3>2. Cardinality(rest) \in Nat /\ Cardinality(inE) \in Nat
            BY <1>2, FS_CardinalityType
        <3>. QED
            BY <2>1, <3>1, <3>2
<1>. QED
    BY <1>1, <1>3, <1>4 DEF inD, inE, TablesIn

\* One element of a set taken for another.
LEMMA Swapped ==
    ASSUME NEW A, IsFiniteSet(A), NEW f \in A, NEW t, t \notin A
    PROVE  Cardinality((A \ {f}) \cup {t}) = Cardinality(A)
<1>1. IsFiniteSet(A \ {f}) /\ Cardinality(A \ {f}) = Cardinality(A) - 1
    BY FS_RemoveElement
<1>2. t \notin A \ {f}
    OBVIOUS
<1>3. Cardinality((A \ {f}) \cup {t}) = Cardinality(A \ {f}) + 1
    BY <1>1, <1>2, FS_AddElement
<1>. QED
    BY <1>1, <1>3, FS_CardinalityType

\* Whose transaction holds a name.
LEMMA Holder ==
    ASSUME NEW b, NEW c \in Callers, NEW n, n \in DOMAIN b[c],
           \A d \in Callers : d # c => n \notin DOMAIN b[d]
    PROVE  (CHOOSE d \in Callers : n \in DOMAIN b[d]) = c
OBVIOUS

\* What is committed, in terms of the transactions.
DurableFact ==
    /\ DOMAIN Durable = Qualified
    /\ \A c \in Callers : \A n \in Undone(c) : Durable[n] = before[c][n]
    /\ \A n \in Qualified : (\A c \in Callers : n \notin Undone(c)) => Durable[n] = cat[n]

LEMMA DurableIs == LockInv => DurableFact
<1> SUFFICES ASSUME LockInv PROVE DurableFact
    OBVIOUS
<1>1. ASSUME NEW c \in Callers, NEW n \in Undone(c) PROVE Durable[n] = before[c][n]
    <2>1. (CHOOSE d \in Callers : n \in DOMAIN before[d]) = c
        BY Holder, <1>1 DEF LockInv, Undone
    <2>. QED
        BY <2>1, <1>1 DEF Durable, CommittedFor, LockInv, Undone
<1>2. ASSUME NEW n \in Qualified, \A c \in Callers : n \notin Undone(c)
      PROVE  Durable[n] = cat[n]
    BY <1>2 DEF Durable, CommittedFor, Undone
<1>. QED
    BY <1>1, <1>2 DEF Durable, DurableFact

\* The same of the next state.
LEMMA DurableThen == LockInv' => DurableFact'
BY DurableIs, PTL

LEMMA QualifiedIsFinite == IsFiniteSet(Qualified)
<1>1. IsFiniteSet({Itself}) /\ IsFiniteSet({DatabaseEntry})
    BY FS_Singleton
<1>2. IsFiniteSet(Names \cup {Itself})
    BY <1>1, DatabaseAssumption, FS_Union
<1>3. IsFiniteSet(Schemas \X (Names \cup {Itself}))
    BY <1>2, DatabaseAssumption, FS_Product
<1>. QED
    BY <1>1, <1>3, FS_Union DEF Qualified

LEMMA FreshObject ==
    /\ Absent \in Objects
    /\ \A k \in Kinds, c \in Callers : [kind |-> k, by |-> c, has |-> {}] \in Objects
<1>1. {} \in SUBSET Attributes /\ "none" \notin Kinds
    BY DEF Kinds
<1>2. ASSUME NEW k \in Kinds, NEW c \in Callers
      PROVE  [kind |-> k, by |-> c, has |-> {}] \in Objects
    BY <1>1 DEF Objects
<1>3. "none" \in Kinds \cup {"none"} /\ "nobody" \in Callers \cup {"nobody"}
    OBVIOUS
<1>4. Absent \in Objects
    BY <1>1, <1>3 DEF Absent, Objects
<1>. QED
    BY <1>2, <1>4

LEMMA Parts ==
    ASSUME NEW s \in Statements
    PROVE  /\ s.at \in Qualified
           /\ s.does \in Makes => s.kind \in Kinds
           /\ s.does \in Marks => s.kind \in Attributes
           /\ s.does = "move" => s.from \in Qualified
BY DEF Statements

\* What is there stays when it gets or loses an attribute.
LEMMA KindStays ==
    ASSUME NEW o \in Objects, o # Absent, NEW h \in SUBSET Attributes
    PROVE  [o EXCEPT !.has = h] \in Objects /\ [o EXCEPT !.has = h].kind # "none"
BY DEF Objects

\* What a statement does to the catalogue.
LEMMA StatementEffect ==
    ASSUME NEW c \in Callers, NEW s \in Statements, cat \in [Qualified -> Objects], Accepts(s)
    PROVE  /\ After(c, s) \in [Qualified -> Objects]
           /\ Changes(s) \in SUBSET Qualified
           /\ \A n \in Qualified \ Changes(s) : After(c, s)[n] = cat[n]
<1> DEFINE new == [kind |-> s.kind, by |-> c, has |-> {}]
           put == [cat EXCEPT ![s.at].has = @ \cup {s.kind}]
           cut == [cat EXCEPT ![s.at].has = @ \ {s.kind}]
<1>1. /\ s.at \in Qualified /\ Changes(s) \in SUBSET Qualified /\ s.at \in Changes(s)
      /\ s.does = "move" => s.from \in Changes(s)
    BY Parts DEF Changes
<1>2. Absent \in Objects
    BY FreshObject
<1>3. CASE s.does \in {"create", "copy", "clone"} \/ (s.does = "alter" /\ cat[s.at] = Absent)
    <2>1. After(c, s) = [cat EXCEPT ![s.at] = new]
        BY <1>3 DEF After
    <2>2. new \in Objects
        BY <1>3, Parts, FreshObject DEF Makes
    <2> HIDE DEF new
    <2>. QED
        BY <1>1, <2>1, <2>2
<1>4. CASE s.does = "drop"
    <2>1. After(c, s) = [cat EXCEPT ![s.at] = Absent]
        BY <1>4 DEF After
    <2>. QED
        BY <1>1, <1>2, <2>1
<1>5. CASE s.does = "move"
    <2>1. After(c, s) = [cat EXCEPT ![s.at] = cat[s.from], ![s.from] = Absent]
        BY <1>5 DEF After
    <2>. QED
        BY <1>1, <1>2, <1>5, <2>1
<1>6. CASE s.does \in {"put", "set"}
    <2>1. After(c, s) = put
        BY <1>6 DEF After
    <2>2. put \in [Qualified -> Objects]
        <3>1. cat[s.at] # Absent /\ s.kind \in Attributes
            BY <1>6, Parts DEF Accepts, Marks
        <3>2. cat[s.at] \in Objects /\ cat[s.at].has \cup {s.kind} \in SUBSET Attributes
            BY <1>1, <3>1 DEF Objects
        <3>3. [cat[s.at] EXCEPT !.has = cat[s.at].has \cup {s.kind}] \in Objects
            BY <3>1, <3>2, KindStays
        <3>4. put = [cat EXCEPT ![s.at] = [cat[s.at] EXCEPT !.has = cat[s.at].has \cup {s.kind}]]
            BY <1>1
        <3>. QED
            BY <1>1, <3>3, <3>4
    <2>. QED
        BY <1>1, <2>1, <2>2
<1>7. CASE s.does \in {"remove", "unset"}
    <2>1. After(c, s) = cut
        BY <1>7 DEF After
    <2>2. cut \in [Qualified -> Objects]
        <3>1. cat[s.at] # Absent
            BY <1>7 DEF Accepts, Absent
        <3>2. cat[s.at] \in Objects /\ cat[s.at].has \ {s.kind} \in SUBSET Attributes
            BY <1>1 DEF Objects
        <3>3. [cat[s.at] EXCEPT !.has = cat[s.at].has \ {s.kind}] \in Objects
            BY <3>1, <3>2, KindStays
        <3>4. cut = [cat EXCEPT ![s.at] = [cat[s.at] EXCEPT !.has = cat[s.at].has \ {s.kind}]]
            BY <1>1
        <3>. QED
            BY <1>1, <3>3, <3>4
    <2>. QED
        BY <1>1, <2>1, <2>2
<1>8. CASE /\ s.does \notin {"create", "copy", "clone", "drop", "move", "put", "set",
                             "remove", "unset"}
           /\ ~ (s.does = "alter" /\ cat[s.at] = Absent)
    <2>1. After(c, s) = cat
        BY <1>8 DEF After
    <2>. QED
        BY <1>1, <2>1
<1>. QED
    BY <1>3, <1>4, <1>5, <1>6, <1>7, <1>8

\* A statement that makes and drops no table keeps their number.
LEMMA StatementKeeps ==
    ASSUME NEW c \in Callers, NEW s \in Statements, cat \in [Qualified -> Objects],
           Accepts(s), ~ TableDDL(s),
           NEW R \in SUBSET Qualified, Changes(s) \in SUBSET R
    PROVE  Cardinality({n \in R : After(c, s)[n].kind = "table"})
               = Cardinality({n \in R : cat[n].kind = "table"})
<1> DEFINE tables == {n \in R : cat[n].kind = "table"}
           then == {n \in R : After(c, s)[n].kind = "table"}
<1>1. s.at \in Qualified /\ s.at \in R /\ (s.does = "move" => s.from \in R)
    BY Parts DEF Changes
<1>2. CASE \/ s.does \in {"create", "copy", "clone", "drop"}
           \/ s.does = "alter" /\ cat[s.at] = Absent
    <2>1. cat[s.at].kind # "table"
        BY <1>1, <1>2 DEF Accepts, TableDDL, Absent
    <2>2. \E x \in Objects : x.kind # "table" /\ After(c, s) = [cat EXCEPT ![s.at] = x]
        <3>1. Absent \in Objects /\ Absent.kind # "table"
            BY FreshObject DEF Absent
        <3>2. CASE s.does = "drop"
            BY <3>1, <3>2 DEF After
        <3>3. CASE s.does # "drop"
            <4>1. /\ [kind |-> s.kind, by |-> c, has |-> {}] \in Objects
                  /\ After(c, s) = [cat EXCEPT ![s.at] = [kind |-> s.kind, by |-> c, has |-> {}]]
                BY <1>2, <3>3, Parts, FreshObject DEF After, Makes
            <4>2. s.kind # "table"
                BY <1>2, <3>3 DEF TableDDL, Accepts
            <4>. QED
                BY <4>1, <4>2
        <3>. QED
            BY <3>2, <3>3
    <2>3. then = tables
        BY <1>1, <2>1, <2>2
    <2>. QED
        BY <2>3
<1>3. CASE s.does = "move"
    <2>1. /\ After(c, s) = [cat EXCEPT ![s.at] = cat[s.from], ![s.from] = Absent]
          /\ cat[s.at] = Absent /\ cat[s.from] # Absent /\ s.from \in Qualified
        BY <1>3, Parts DEF After, Accepts
    <2>2. /\ s.from # s.at /\ Absent.kind # "table"
          /\ After(c, s)[s.from] = Absent /\ After(c, s)[s.at] = cat[s.from]
          /\ \A n \in R \ {s.from, s.at} : After(c, s)[n] = cat[n]
        BY <1>1, <2>1 DEF Absent
    <2>3. CASE cat[s.from].kind = "table"
        <3>1. s.from \in tables /\ s.at \notin tables
            BY <1>1, <1>3, <2>1, <2>2, <2>3
        <3>2. then = (tables \ {s.from}) \cup {s.at}
            BY <1>1, <1>3, <2>1, <2>2, <2>3
        <3>3. IsFiniteSet(tables)
            BY QualifiedIsFinite, FS_Subset, tables \in SUBSET Qualified
        <3> HIDE DEF tables, then
        <3>4. Cardinality(then) = Cardinality(tables)
            BY <3>1, <3>2, <3>3, Swapped
        <3>. QED
            BY <3>4 DEF tables, then
    <2>4. CASE cat[s.from].kind # "table"
        <3>1. then = tables
            BY <1>1, <1>3, <2>1, <2>2, <2>4
        <3>. QED
            BY <3>1
    <2>. QED
        BY <2>3, <2>4
<1>4. CASE /\ s.does \notin {"create", "copy", "clone", "drop", "move"}
           /\ ~ (s.does = "alter" /\ cat[s.at] = Absent)
    <2>1. \/ After(c, s) = cat
          \/ After(c, s) = [cat EXCEPT ![s.at].has = @ \cup {s.kind}]
          \/ After(c, s) = [cat EXCEPT ![s.at].has = @ \ {s.kind}]
        BY <1>4 DEF After
    <2>2. \A n \in R : After(c, s)[n].kind = cat[n].kind
        BY <1>1, <2>1 DEF Objects
    <2>3. then = tables
        BY <2>2
    <2>. QED
        BY <2>3
<1>. QED
    BY <1>2, <1>3, <1>4

-----------------------------------------------------------------------------
LEMMA InitSInv == PlansFit /\ Init => SInv
<1> SUFFICES ASSUME PlansFit, Init PROVE SInv
    OBVIOUS
<1>1. \A c \in Callers : before[c] = NoChange /\ Undone(c) = {}
    BY DEF Init, Undone, NoChange
<1>2. LockInv
    BY <1>1 DEF Init, LockInv, NoChange, Undone
<1>3. TableInv
    BY <1>1 DEF TableInv, Inside, Outside
<1>4. ASSUME NEW c \in Callers PROVE TodoInv(c)
    BY DEF Init, TodoInv, PlansFit, PlanFits
<1>. QED
    BY <1>2, <1>3, <1>4, DatabaseAssumption DEF Init, SInv, SPlaces

\* A statement changes what it has a lock for.
LEMMA ChangesOfItsOwn ==
    ASSUME NEW c \in Callers, NEW s \in Statements, Granted(c, s),
           NEW d \in Callers, d # c
    PROVE  Changes(s) \cap Undone(d) = {}
<1>1. s.at # NoName /\ (s.does = "move" => s.from # NoName)
    BY Parts, QualifiedNames
<1>2. Changes(s) \subseteq Needs(s)
    BY <1>1 DEF Changes, Needs
<1>. QED
    BY <1>2 DEF Granted

LEMMA StatementIs ==
    ASSUME SInv, NEW c \in Callers, pc[c] \in {"list", "run"}
    PROVE  /\ Statement(c) \in Statements /\ step[c] \in DOMAIN todo[c]
           /\ itemKind = "endpoint" => ~ TableDDL(Statement(c))
<1>1. /\ todo[c] \in Seq(Statements) /\ step[c] \in 1..Len(todo[c])
    BY DEF SInv, TodoInv
<1>2. todo[c][step[c]] \in Statements /\ step[c] \in DOMAIN todo[c]
    BY <1>1
<1>. QED
    BY <1>2 DEF SInv, TodoInv, Statement

\* What the transactions of the other callers changed stays theirs.
OthersHold(c) == \A d \in Callers : d # c =>
    Undone(d)' = Undone(d) /\ \A n \in Undone(d) : cat'[n] = cat[n]

\* A statement in a transaction.
LEMMA RunsInside ==
    ASSUME SInv, NEW c \in Callers, pc[c] = "run", Runs(c), InTransaction(c),
           plan' = plan, itemKind' = itemKind
    PROVE  /\ cat' \in [Qualified -> Objects] /\ LockInv' /\ TableInv'
           /\ Durable' = Durable /\ OthersHold(c)
           /\ Undone(c)' = Undone(c) \cup Changes(Statement(c))
<1> DEFINE s == Statement(c)
           U == Undone(c)
           C == Changes(s)
<1>1. /\ s \in Statements /\ (itemKind = "endpoint" => ~ TableDDL(s))
      /\ Granted(c, s) /\ Accepts(s) /\ cat' = After(c, s)
      /\ before' = [before EXCEPT ![c] = Over(@, [n \in C |-> cat[n]])]
    BY StatementIs DEF Runs
<1>2. /\ cat \in [Qualified -> Objects] /\ LockInv /\ TableInv
    BY DEF SInv
<1>3. /\ cat' \in [Qualified -> Objects] /\ C \in SUBSET Qualified
      /\ \A n \in Qualified \ C : cat'[n] = cat[n]
    BY <1>1, <1>2, StatementEffect
<1>4. \A d \in Callers : d # c => C \cap Undone(d) = {}
    BY <1>1, ChangesOfItsOwn
<1> HIDE DEF s, C
<1>5. /\ DOMAIN before' = Callers
      /\ \A d \in Callers : d # c => before'[d] = before[d] /\ Undone(d)' = Undone(d)
    BY <1>1, <1>2 DEF LockInv, Undone
<1>6. /\ Undone(c)' = U \cup C /\ before'[c] \in [U \cup C -> Objects]
      /\ \A n \in U : before'[c][n] = before[c][n]
      /\ \A n \in C \ U : before'[c][n] = cat[n]
    <2>1. before[c] \in [U -> Objects] /\ DOMAIN before[c] = U
        BY <1>2 DEF LockInv
    <2>2. before'[c] = Over(before[c], [n \in C |-> cat[n]])
        BY <1>1, <1>2 DEF LockInv
    <2>3. before'[c] = [n \in U \cup C |-> IF n \in U THEN before[c][n] ELSE cat[n]]
        BY <2>1, <2>2 DEF Over
    <2> HIDE DEF U
    <2>. QED
        BY <1>2, <1>3, <2>1, <2>3 DEF Undone
<1>7. LockInv'
    <2>1. ASSUME NEW d \in Callers
          PROVE  before'[d] \in [Undone(d)' -> Objects] /\ Undone(d)' \subseteq Qualified
        <3>1. CASE d = c
            BY <1>2, <1>3, <1>6, <3>1 DEF LockInv
        <3>2. CASE d # c
            BY <1>2, <1>5, <3>2 DEF LockInv
        <3>. QED
            BY <3>1, <3>2
    <2>2. \A d, e \in Callers : d # e => Undone(d)' \cap Undone(e)' = {}
        BY <1>2, <1>4, <1>5, <1>6 DEF LockInv
    <2>3. \A d \in Callers : ~ InTransaction(d)' => Undone(d)' = {}
        BY <1>2, <1>5 DEF LockInv, InTransaction
    <2>. QED
        BY <1>5, <2>1, <2>2, <2>3 DEF LockInv
<1>8. TableInv'
    <2> SUFFICES ASSUME NEW d \in Callers, itemKind' = "endpoint"
                 PROVE  Cardinality(Inside(d)') = Cardinality(Outside(d)')
        BY DEF TableInv
    <2>1. CASE d # c
        <3>1. Inside(d)' = Inside(d)
            BY <1>5, <2>1 DEF Inside
        <3>2. Outside(d)' = Outside(d)
            BY <1>2, <1>3, <1>4, <1>5, <2>1 DEF Outside, LockInv
        <3>. QED
            BY <1>2, <3>1, <3>2 DEF TableInv
    <2>2. CASE d = c
        <3> DEFINE Q == U \cup C
        <3>1. Q \in SUBSET Qualified /\ IsFiniteSet(Q) /\ U \in SUBSET Q /\ C \in SUBSET Q
            BY <1>2, <1>3, QualifiedIsFinite, FS_Subset DEF LockInv
        <3>2. Cardinality({n \in U : cat[n].kind = "table"})
                  = Cardinality({n \in U : before'[c][n].kind = "table"})
            <4>1. {n \in U : before'[c][n].kind = "table"} = Inside(c)
                BY <1>6 DEF Inside
            <4>. QED
                BY <1>2, <4>1 DEF TableInv, Outside
        <3>3. Cardinality({n \in Q : cat[n].kind = "table"})
                  = Cardinality({n \in Q : before'[c][n].kind = "table"})
            <4>1. Cardinality(TablesIn(cat, U)) = Cardinality(TablesIn(before'[c], U))
                BY <3>2 DEF TablesIn
            <4>2. \A n \in Q \ U : before'[c][n] = cat[n]
                BY <1>6
            <4> HIDE DEF Q, U
            <4>3. Cardinality(TablesIn(cat, Q)) = Cardinality(TablesIn(before'[c], Q))
                BY <3>1, <4>1, <4>2, SplitKeeps
            <4>. QED
                BY <4>3 DEF TablesIn
        <3>4. Cardinality({n \in Q : cat'[n].kind = "table"})
                  = Cardinality({n \in Q : cat[n].kind = "table"})
            <4>1. Changes(s) \in SUBSET Q /\ ~ TableDDL(s)
                BY <1>1, <3>1 DEF C
            <4> HIDE DEF Q
            <4>2. Cardinality({n \in Q : After(c, s)[n].kind = "table"})
                      = Cardinality({n \in Q : cat[n].kind = "table"})
                BY <1>1, <1>2, <3>1, <4>1, StatementKeeps
            <4>. QED
                BY <1>1, <4>2
        <3>5. /\ Inside(c)' = {n \in Q : before'[c][n].kind = "table"}
              /\ Outside(c)' = {n \in Q : cat'[n].kind = "table"}
            BY <1>6 DEF Inside, Outside
        <3>. QED
            BY <2>2, <3>3, <3>4, <3>5
    <2>. QED
        BY <2>1, <2>2
\* What is committed stays.
<1>9. Durable' = Durable
    <2>1. /\ DOMAIN Durable' = Qualified /\ DOMAIN Durable = Qualified
          /\ Durable' = [n \in Qualified |-> Durable'[n]]
          /\ Durable = [n \in Qualified |-> Durable[n]]
        BY DEF Durable
    <2>2. ASSUME NEW d \in Callers, NEW n \in Undone(d)
          PROVE  Durable'[n] = Durable[n]
        <3>1. n \in Undone(d)' /\ before'[d][n] = before[d][n]
            BY <1>5, <1>6
        <3>. QED
            BY <1>2, <1>7, <3>1, DurableIs, DurableThen DEF DurableFact
    <2>3. ASSUME NEW n \in Qualified, \A d \in Callers : n \notin Undone(d)
          PROVE  Durable'[n] = Durable[n]
        <3>1. Durable[n] = cat[n]
            BY <1>2, <2>3, DurableIs DEF DurableFact
        <3>2. CASE n \in C
            BY <1>6, <1>7, <2>3, <3>1, <3>2, DurableThen DEF DurableFact
        <3>3. CASE n \notin C
            BY <1>3, <1>5, <1>6, <1>7, <2>3, <3>1, <3>3, DurableThen DEF DurableFact
        <3>. QED
            BY <3>2, <3>3
    <2>. QED
        BY <2>1, <2>2, <2>3
<1>10. OthersHold(c)
    BY <1>2, <1>3, <1>4, <1>5 DEF OthersHold, LockInv
<1>. QED
    BY <1>3, <1>6, <1>7, <1>8, <1>9, <1>10 DEF C, s

\* A statement under autocommit.
LEMMA RunsAtOnce ==
    ASSUME SInv, NEW c \in Callers, pc[c] = "run", Runs(c), ~ InTransaction(c),
           plan' = plan, itemKind' = itemKind
    PROVE  /\ cat' \in [Qualified -> Objects] /\ LockInv' /\ TableInv'
           /\ \A n \in Qualified : Durable'[n] =
                  IF n \in Changes(Statement(c)) THEN After(c, Statement(c))[n] ELSE Durable[n]
           /\ OthersHold(c)
           /\ itemKind = "endpoint" => Cardinality(Tables') = Cardinality(Tables)
<1> DEFINE s == Statement(c)
           C == Changes(s)
<1>1. /\ s \in Statements /\ (itemKind = "endpoint" => ~ TableDDL(s))
      /\ Granted(c, s) /\ Accepts(s) /\ cat' = After(c, s) /\ before' = before
    BY StatementIs DEF Runs
<1>2. /\ cat \in [Qualified -> Objects] /\ LockInv /\ TableInv
    BY DEF SInv
<1>3. /\ cat' \in [Qualified -> Objects] /\ C \in SUBSET Qualified
      /\ \A n \in Qualified \ C : cat'[n] = cat[n]
    BY <1>1, <1>2, StatementEffect
<1>4. \A d \in Callers : C \cap Undone(d) = {}
    BY <1>1, <1>2, ChangesOfItsOwn DEF LockInv
<1> HIDE DEF s, C
<1>5. \A d \in Callers : Undone(d)' = Undone(d)
    BY <1>1 DEF Undone
<1>6. LockInv'
    BY <1>1, <1>2, <1>5 DEF LockInv, InTransaction
<1>7. TableInv'
    <2> SUFFICES ASSUME NEW d \in Callers, itemKind' = "endpoint"
                 PROVE  Cardinality(Inside(d)') = Cardinality(Outside(d)')
        BY DEF TableInv
    <2>1. Inside(d)' = Inside(d)
        BY <1>1, <1>5 DEF Inside
    <2>2. Outside(d)' = Outside(d)
        BY <1>2, <1>3, <1>4, <1>5 DEF Outside, LockInv
    <2>. QED
        BY <1>2, <2>1, <2>2 DEF TableInv
<1>8. ASSUME NEW n \in Qualified
      PROVE  Durable'[n] = IF n \in C THEN cat'[n] ELSE Durable[n]
    <2>1. CASE n \in C
        <3>1. Durable'[n] = cat'[n]
            BY <1>4, <1>5, <1>6, <2>1, DurableThen DEF DurableFact
        <3>. QED
            BY <2>1, <3>1
    <2>2. CASE n \notin C /\ \A d \in Callers : n \notin Undone(d)
        <3>1. Durable'[n] = cat'[n] /\ Durable[n] = cat[n]
            BY <1>2, <1>5, <1>6, <2>2, DurableThen, DurableIs DEF DurableFact
        <3>. QED
            BY <1>3, <2>2, <3>1
    <2>3. ASSUME n \notin C, NEW d \in Callers, n \in Undone(d)
          PROVE  Durable'[n] = Durable[n]
        BY <1>1, <1>2, <1>5, <1>6, <2>3, DurableThen, DurableIs DEF DurableFact
    <2>. QED
        BY <2>1, <2>2, <2>3
<1>9. ASSUME itemKind = "endpoint" PROVE Cardinality(Tables') = Cardinality(Tables)
    <2>1. Changes(s) \in SUBSET C /\ C \in SUBSET Qualified
        BY <1>3 DEF C
    <2>2. Cardinality({n \in C : After(c, s)[n].kind = "table"})
              = Cardinality({n \in C : cat[n].kind = "table"})
        BY <1>1, <1>2, <1>9, <2>1, StatementKeeps
    <2>3. \A n \in C : Durable[n] = cat[n] /\ Durable'[n] = After(c, s)[n]
        BY <1>1, <1>2, <1>3, <1>4, <1>8, DurableIs DEF DurableFact
    <2>4. /\ {n \in C : After(c, s)[n].kind = "table"} = {n \in C : Durable'[n].kind = "table"}
          /\ {n \in C : cat[n].kind = "table"} = {n \in C : Durable[n].kind = "table"}
        BY <2>3
    <2>5. Cardinality({n \in C : Durable[n].kind = "table"})
              = Cardinality({n \in C : Durable'[n].kind = "table"})
        BY <2>2, <2>4
    <2>6. \A n \in Qualified \ C : Durable'[n] = Durable[n]
        BY <1>8
    <2>7. Cardinality(TablesIn(Durable, Qualified)) = Cardinality(TablesIn(Durable', Qualified))
        <3>1. Cardinality(TablesIn(Durable, C)) = Cardinality(TablesIn(Durable', C))
            BY <2>5 DEF TablesIn
        <3>. QED
            BY <2>1, <2>5, <2>6, <3>1, QualifiedIsFinite, SplitKeeps
    <2>. QED
        BY <2>7 DEF Tables, TablesIn
<1>10. OthersHold(c)
    BY <1>2, <1>3, <1>4, <1>5 DEF OthersHold, LockInv
<1>. QED
    BY <1>1, <1>3, <1>6, <1>7, <1>8, <1>9, <1>10 DEF C, s

LEMMA RollsBack ==
    ASSUME SInv, NEW c \in Callers, Rollback(c), plan' = plan, itemKind' = itemKind
    PROVE  /\ cat' \in [Qualified -> Objects] /\ LockInv' /\ TableInv'
           /\ Durable' = Durable /\ OthersHold(c)
<1>1. /\ cat \in [Qualified -> Objects] /\ LockInv /\ TableInv
    BY DEF SInv
<1>2. /\ cat' = [n \in Qualified |-> IF n \in Undone(c) THEN before[c][n] ELSE cat[n]]
      /\ before[c] \in [Undone(c) -> Objects] /\ Undone(c) \in SUBSET Qualified
    BY <1>1 DEF Rollback, Over, LockInv, Undone
<1>3. cat' \in [Qualified -> Objects]
    BY <1>1, <1>2
<1>4. /\ DOMAIN before' = Callers /\ before'[c] = NoChange /\ Undone(c)' = {}
      /\ \A d \in Callers : d # c => before'[d] = before[d] /\ Undone(d)' = Undone(d)
    BY <1>1 DEF Rollback, LockInv, Undone, NoChange
<1>5. LockInv'
    <2>1. ASSUME NEW d \in Callers
          PROVE  before'[d] \in [Undone(d)' -> Objects] /\ Undone(d)' \subseteq Qualified
        <3>1. CASE d = c
            <4>1. NoChange \in [{} -> Objects]
                BY DEF NoChange
            <4>. QED
                BY <1>4, <3>1, <4>1
        <3>2. CASE d # c
            BY <1>1, <1>4, <3>2 DEF LockInv
        <3>. QED
            BY <3>1, <3>2
    <2>. QED
        BY <1>1, <1>4, <2>1 DEF LockInv, InTransaction
<1>6. TableInv'
    <2> SUFFICES ASSUME NEW d \in Callers, itemKind' = "endpoint"
                 PROVE  Cardinality(Inside(d)') = Cardinality(Outside(d)')
        BY DEF TableInv
    <2>1. CASE d = c
        <3>1. Inside(d)' = {} /\ Outside(d)' = {}
            BY <1>4, <2>1 DEF Inside, Outside
        <3>. QED
            BY <3>1
    <2>2. CASE d # c
        <3>1. Inside(d)' = Inside(d)
            BY <1>4, <2>2 DEF Inside
        <3>2. Outside(d)' = Outside(d)
            BY <1>1, <1>2, <1>4, <2>2 DEF Outside, LockInv
        <3>. QED
            BY <1>1, <3>1, <3>2 DEF TableInv
    <2>. QED
        BY <2>1, <2>2
<1>7. ASSUME NEW n \in Qualified PROVE Durable'[n] = Durable[n]
    <2>1. CASE n \in Undone(c)
        <3>1. \A d \in Callers : n \notin Undone(d)'
            BY <1>1, <1>4, <2>1 DEF LockInv
        <3>2. Durable'[n] = cat'[n] /\ Durable[n] = before[c][n]
            BY <1>1, <1>5, <2>1, <3>1, DurableThen, DurableIs DEF DurableFact
        <3>. QED
            BY <1>2, <2>1, <3>2
    <2>2. CASE \A d \in Callers : n \notin Undone(d)
        <3>1. \A d \in Callers : n \notin Undone(d)'
            BY <1>4, <2>2
        <3>2. Durable'[n] = cat'[n] /\ Durable[n] = cat[n]
            BY <1>1, <1>5, <2>2, <3>1, DurableThen, DurableIs DEF DurableFact
        <3>. QED
            BY <1>2, <2>2, <3>2
    <2>3. ASSUME NEW d \in Callers, d # c, n \in Undone(d)
          PROVE  Durable'[n] = Durable[n]
        <3>1. n \in Undone(d)' /\ before'[d][n] = before[d][n]
            BY <1>4, <2>3
        <3>. QED
            BY <1>1, <1>5, <2>3, <3>1, DurableThen, DurableIs DEF DurableFact
    <2>. QED
        BY <2>1, <2>2, <2>3
<1>8. Durable' = Durable
    BY <1>7 DEF Durable
<1>9. OthersHold(c)
    BY <1>1, <1>2, <1>4 DEF OthersHold, LockInv
<1>. QED
    BY <1>3, <1>5, <1>6, <1>8, <1>9

LEMMA Publishes ==
    ASSUME SInv, NEW c \in Callers, Publish(c), plan' = plan, itemKind' = itemKind
    PROVE  /\ cat' \in [Qualified -> Objects] /\ LockInv' /\ TableInv'
           /\ \A n \in Qualified : Durable'[n] = IF n \in Undone(c) THEN cat[n] ELSE Durable[n]
           /\ OthersHold(c)
           /\ itemKind = "endpoint" => Cardinality(Tables') = Cardinality(Tables)
<1>1. /\ cat \in [Qualified -> Objects] /\ LockInv /\ TableInv
    BY DEF SInv
<1>2. cat' = cat /\ Undone(c) \in SUBSET Qualified
    BY <1>1 DEF Publish, LockInv
<1>4. /\ DOMAIN before' = Callers /\ before'[c] = NoChange /\ Undone(c)' = {}
      /\ \A d \in Callers : d # c => before'[d] = before[d] /\ Undone(d)' = Undone(d)
    BY <1>1 DEF Publish, LockInv, Undone, NoChange
<1>5. LockInv'
    <2>1. ASSUME NEW d \in Callers
          PROVE  before'[d] \in [Undone(d)' -> Objects] /\ Undone(d)' \subseteq Qualified
        <3>1. CASE d = c
            <4>1. NoChange \in [{} -> Objects]
                BY DEF NoChange
            <4>. QED
                BY <1>4, <3>1, <4>1
        <3>2. CASE d # c
            BY <1>1, <1>4, <3>2 DEF LockInv
        <3>. QED
            BY <3>1, <3>2
    <2>. QED
        BY <1>1, <1>4, <2>1 DEF LockInv, InTransaction
<1>6. TableInv'
    <2> SUFFICES ASSUME NEW d \in Callers, itemKind' = "endpoint"
                 PROVE  Cardinality(Inside(d)') = Cardinality(Outside(d)')
        BY DEF TableInv
    <2>1. CASE d = c
        <3>1. Inside(d)' = {} /\ Outside(d)' = {}
            BY <1>4, <2>1 DEF Inside, Outside
        <3>. QED
            BY <3>1
    <2>2. CASE d # c
        <3>1. Inside(d)' = Inside(d) /\ Outside(d)' = Outside(d)
            BY <1>2, <1>4, <2>2 DEF Inside, Outside
        <3>. QED
            BY <1>1, <3>1 DEF TableInv
    <2>. QED
        BY <2>1, <2>2
<1>7. ASSUME NEW n \in Qualified
      PROVE  Durable'[n] = IF n \in Undone(c) THEN cat[n] ELSE Durable[n]
    <2>1. CASE n \in Undone(c)
        <3>1. \A d \in Callers : n \notin Undone(d)'
            BY <1>1, <1>4, <2>1 DEF LockInv
        <3>. QED
            BY <1>2, <1>5, <2>1, <3>1, DurableThen DEF DurableFact
    <2>2. CASE \A d \in Callers : n \notin Undone(d)
        <3>1. \A d \in Callers : n \notin Undone(d)'
            BY <1>4, <2>2
        <3>2. Durable'[n] = cat'[n] /\ Durable[n] = cat[n]
            BY <1>1, <1>5, <2>2, <3>1, DurableThen, DurableIs DEF DurableFact
        <3>. QED
            BY <1>2, <2>2, <3>2
    <2>3. ASSUME NEW d \in Callers, d # c, n \in Undone(d)
          PROVE  Durable'[n] = Durable[n] /\ n \notin Undone(c)
        <3>1. n \in Undone(d)' /\ before'[d][n] = before[d][n] /\ n \notin Undone(c)
            BY <1>1, <1>4, <2>3 DEF LockInv
        <3>. QED
            BY <1>1, <1>5, <2>3, <3>1, DurableThen, DurableIs DEF DurableFact
    <2>. QED
        BY <2>1, <2>2, <2>3
<1>8. ASSUME itemKind = "endpoint" PROVE Cardinality(Tables') = Cardinality(Tables)
    <2> DEFINE U == Undone(c)
    <2>1. \A n \in U : Durable[n] = before[c][n] /\ Durable'[n] = cat[n]
        BY <1>1, <1>2, <1>7, DurableIs DEF DurableFact
    <2>2. /\ {n \in U : Durable[n].kind = "table"} = Inside(c)
          /\ {n \in U : Durable'[n].kind = "table"} = Outside(c)
        BY <2>1 DEF Inside, Outside
    <2>3. Cardinality({n \in U : Durable[n].kind = "table"})
              = Cardinality({n \in U : Durable'[n].kind = "table"})
        BY <1>1, <1>8, <2>2 DEF TableInv
    <2>4. U \in SUBSET Qualified /\ \A n \in Qualified \ U : Durable'[n] = Durable[n]
        BY <1>2, <1>7
    <2> HIDE DEF U
    <2>5. Cardinality(TablesIn(Durable, Qualified)) = Cardinality(TablesIn(Durable', Qualified))
        <3>1. Cardinality(TablesIn(Durable, U)) = Cardinality(TablesIn(Durable', U))
            BY <2>3 DEF TablesIn
        <3>. QED
            BY <2>3, <2>4, <3>1, QualifiedIsFinite, SplitKeeps
    <2>. QED
        BY <2>5 DEF Tables, TablesIn
<1>9. OthersHold(c)
    BY <1>2, <1>4 DEF OthersHold
<1>. QED
    BY <1>1, <1>2, <1>5, <1>6, <1>7, <1>8, <1>9

-----------------------------------------------------------------------------
\* What a listing finds, in some order.
Listing(c) ==
    LET order == CHOOSE f \in Orders(Droppable(plan[c].stmts[1].at[1])) : TRUE
    IN  [i \in DOMAIN order |-> Drop(Durable[order[i]].kind, order[i])]

LEMMA ListingIs ==
    ASSUME SInv, NEW c \in Callers
    PROVE  /\ Listing(c) \in Seq(Statements)
           /\ itemKind = "endpoint" =>
                  \A i \in DOMAIN Listing(c) : ~ TableDDL(Listing(c)[i])
<1> DEFINE found == Droppable(plan[c].stmts[1].at[1])
           order == CHOOSE f \in Orders(found) : TRUE
           N == Cardinality(found)
           listed == [i \in 1..N |-> Drop(Durable[order[i]].kind, order[i])]
<1>1. found \in SUBSET Qualified
    BY DEF Droppable, Listed, InSchema
<1>2. N \in Nat /\ ExistsBijection(1..N, found)
    BY <1>1, QualifiedIsFinite, FS_Subset, FS_CardinalityType
<1>3. Orders(found) # {}
    BY <1>2 DEF ExistsBijection, Bijection, Injection, IsInjective, Orders
<1>4. order \in [1..N -> found]
    BY <1>3 DEF Orders
<1>5. \A n \in found : /\ Durable[n].kind \in {"table", "view", "function", "procedure"}
                       /\ itemKind = "endpoint" => Durable[n].kind # "table"
    BY DEF Droppable, Listed
<1>6. \A k \in Kinds, n \in Qualified : Drop(k, n) \in Statements
    BY DEF Drop, Stmt, Statements, Makes, Marks
<1> HIDE DEF N, found, order
<1>7. \A i \in 1..N : /\ order[i] \in Qualified /\ Durable[order[i]].kind \in Kinds
                      /\ itemKind = "endpoint" => Durable[order[i]].kind # "table"
    BY <1>1, <1>4, <1>5 DEF Kinds
<1>8. PICK l : l = listed
    OBVIOUS
<1>9. /\ l \in [1..N -> Statements] /\ DOMAIN l = 1..N
      /\ itemKind = "endpoint" => \A i \in 1..N : ~ TableDDL(l[i])
    BY <1>6, <1>7, <1>8 DEF TableDDL, Drop, Stmt
<1>10. l \in Seq(Statements)
    BY <1>2, <1>9
<1>11. Listing(c) = l
    <2>1. Listing(c) = [i \in DOMAIN order |-> Drop(Durable[order[i]].kind, order[i])]
        BY DEF Listing, order, found
    <2>. QED
        BY <1>4, <1>8, <2>1
<1>. QED
    BY <1>9, <1>10, <1>11

\* One call moves and the others stay where they are.
LEMMA OneMoves ==
    ASSUME SInv, NEW c \in Callers, plan' = plan, itemKind' = itemKind,
           cat' \in [Qualified -> Objects], LockInv', TableInv',
           pc' \in [Callers -> SPlaces], step' \in [Callers -> Nat \ {0}],
           DOMAIN todo' = Callers, TodoInv(c)',
           \A d \in Callers : d # c =>
               pc'[d] = pc[d] /\ step'[d] = step[d] /\ todo'[d] = todo[d]
    PROVE  SInv'
<1>1. ASSUME NEW d \in Callers PROVE TodoInv(d)'
    <2>1. CASE d = c
        BY <2>1
    <2>2. CASE d # c
        BY <2>2 DEF SInv, TodoInv
    <2>. QED
        BY <2>1, <2>2
<1>. QED
    BY <1>1 DEF SInv

\* The database stays as it is.
LEMMA NothingChanges ==
    ASSUME SInv, UNCHANGED <<cat, before, plan, itemKind>>
    PROVE  cat' \in [Qualified -> Objects] /\ LockInv' /\ TableInv' /\ Durable' = Durable
<1>1. \A c \in Callers : Undone(c)' = Undone(c)
    BY DEF Undone
<1>2. LockInv'
    BY <1>1 DEF SInv, LockInv, InTransaction
<1>3. \A c \in Callers : Inside(c)' = Inside(c) /\ Outside(c)' = Outside(c)
    BY <1>1 DEF Inside, Outside
<1>4. TableInv'
    BY <1>3 DEF SInv, TableInv
<1>5. Durable' = Durable
    BY DEF Durable, CommittedFor
<1>. QED
    BY <1>2, <1>4, <1>5 DEF SInv

\* A step of EndpointKeepsTables.
Keeps == itemKind = "endpoint" => Cardinality(Tables') = Cardinality(Tables)

LEMMA StepSInv ==
    ASSUME PlansFit, SInv, [Next]_vars
    PROVE  SInv' /\ Keeps
<1>0. /\ plan \in [Callers -> Plans] /\ DOMAIN todo = Callers
      /\ pc \in [Callers -> SPlaces] /\ step \in [Callers -> Nat \ {0}]
    BY DEF SInv
<1>a. Durable' = Durable => Keeps
    BY DEF Keeps, Tables
<1>1. ASSUME NEW c \in Callers, Begin(c) PROVE SInv' /\ Keeps
    <2>1. /\ UNCHANGED <<cat, before, plan, itemKind, todo, step>>
          /\ \E l \in SPlaces : pc' = [pc EXCEPT ![c] = l]
        BY <1>1 DEF Begin, Goto, config, SPlaces, Ends
    <2>2. PlanFits(plan[c]) /\ TodoInv(c) /\ pc[c] = "start"
        BY <1>0, <1>1 DEF PlansFit, SInv, Begin
    <2>3. /\ pc'[c] \in {"refused", "ok", "list", "reread", "run"}
          /\ pc'[c] \in {"list", "run"} =>
                 /\ plan[c].mode # "read" \/ plan[c].cascade
                 /\ itemKind = "endpoint" => plan[c].guard # "warehouse"
        <3> DEFINE p == plan[c]
        <3>1. pc'[c] = IF ~ Admits(p) THEN "refused"
                       ELSE IF p.guard = "quiet" /\ itemKind = "endpoint" THEN "ok"
                       ELSE IF p.cascade THEN "list"
                       ELSE IF p.mode = "read" THEN "reread"
                       ELSE "run"
            BY <1>0, <1>1 DEF Begin, Goto
        <3>2. Admits(p) /\ itemKind = "endpoint" => p.guard # "warehouse"
            BY DEF Admits
        <3>. QED
            BY <3>1, <3>2
    <2>4. TodoInv(c)'
        <3>1. /\ todo[c] \in Seq(Statements) /\ todo[c] = plan[c].stmts /\ step[c] = 1
              /\ todo'[c] = todo[c] /\ step'[c] = step[c] /\ plan'[c] = plan[c]
              /\ itemKind' = itemKind
            BY <2>1, <2>2 DEF TodoInv
        <3>2. pc'[c] \in {"list", "run"} => 1 <= Len(todo[c])
            BY <2>2, <2>3, <3>1 DEF PlanFits
        <3>3. itemKind = "endpoint" /\ pc'[c] \in {"list", "run"} =>
                  \A i \in DOMAIN todo[c] : ~ TableDDL(todo[c][i])
            BY <2>2, <2>3, <3>1 DEF PlanFits
        <3>. QED
            BY <2>3, <3>1, <3>2, <3>3 DEF TodoInv
    <2>5. pc' \in [Callers -> SPlaces] /\ \A d \in Callers : d # c => pc'[d] = pc[d]
        BY <1>0, <2>1
    <2>. QED
        BY <1>0, <1>a, <2>1, <2>4, <2>5, NothingChanges, OneMoves
<1>2. ASSUME NEW c \in Callers, List(c) PROVE SInv' /\ Keeps
    <2> DEFINE listed == Listing(c)
    <2>1. /\ UNCHANGED <<cat, before, plan, itemKind, step>>
          /\ pc' = [pc EXCEPT ![c] = "run"] /\ pc[c] = "list"
          /\ todo' = [todo EXCEPT ![c] = listed \o @]
        BY <1>2 DEF List, Listing, Goto, config
    <2>2. /\ listed \in Seq(Statements)
          /\ itemKind = "endpoint" => \A i \in DOMAIN listed : ~ TableDDL(listed[i])
        BY ListingIs
    <2> HIDE DEF listed
    <2>3. TodoInv(c)'
        <3>1. /\ todo[c] \in Seq(Statements) /\ step[c] = 1 /\ 1 <= Len(todo[c])
              /\ itemKind = "endpoint" => \A i \in DOMAIN todo[c] : ~ TableDDL(todo[c][i])
            BY <2>1 DEF SInv, TodoInv
        <3>2. todo'[c] = listed \o todo[c] /\ step'[c] = 1 /\ pc'[c] = "run"
            BY <1>0, <2>1, <3>1
        <3>3. listed \o todo[c] \in Seq(Statements)
            BY <2>2, <3>1
        <3>4. 1 <= Len(listed \o todo[c])
            BY <2>2, <3>1
        <3>5. itemKind = "endpoint" =>
                  \A i \in DOMAIN (listed \o todo[c]) : ~ TableDDL((listed \o todo[c])[i])
            <4>1. \A i \in DOMAIN (listed \o todo[c]) :
                      \/ \E j \in DOMAIN listed : (listed \o todo[c])[i] = listed[j]
                      \/ \E j \in DOMAIN todo[c] : (listed \o todo[c])[i] = todo[c][j]
                BY <2>2, <3>1
            <4>. QED
                BY <2>2, <3>1, <4>1
        <3>. QED
            BY <2>1, <3>2, <3>3, <3>4, <3>5 DEF TodoInv
    <2>4. /\ pc' \in [Callers -> SPlaces] /\ DOMAIN todo' = Callers
          /\ \A d \in Callers : d # c => pc'[d] = pc[d] /\ todo'[d] = todo[d]
        BY <1>0, <2>1 DEF SPlaces
    <2>. QED
        BY <1>0, <1>a, <2>1, <2>3, <2>4, NothingChanges, OneMoves
<1>3. ASSUME NEW c \in Callers, RunStatement(c) PROVE SInv' /\ Keeps
    <2>1. /\ UNCHANGED <<plan, itemKind, todo>> /\ pc[c] = "run" /\ Runs(c)
          /\ step' = [step EXCEPT ![c] = @ + 1]
        BY <1>3 DEF RunStatement, config
    <2>2. /\ pc' \in [Callers -> SPlaces] /\ \A d \in Callers : d # c => pc'[d] = pc[d]
          /\ pc'[c] \in {"commit", "reread", "run"}
          /\ pc'[c] = "run" => step[c] # Len(todo[c])
        BY <1>0, <1>3 DEF RunStatement, Goto, SPlaces, IsLast, CommitIsDue
    <2>3. /\ step' \in [Callers -> Nat \ {0}] /\ step'[c] = step[c] + 1
          /\ \A d \in Callers : d # c => step'[d] = step[d]
        BY <1>0, <2>1
    <2>4. TodoInv(c)'
        <3>1. /\ todo[c] \in Seq(Statements) /\ step[c] <= Len(todo[c]) /\ step[c] \in Nat
              /\ itemKind = "endpoint" => \A i \in DOMAIN todo[c] : ~ TableDDL(todo[c][i])
            BY <1>0, <2>1 DEF SInv, TodoInv
        <3>2. pc'[c] = "run" => step'[c] <= Len(todo[c])
            BY <2>2, <2>3, <3>1
        <3>. QED
            BY <2>1, <2>2, <3>1, <3>2 DEF TodoInv
    <2>5. cat' \in [Qualified -> Objects] /\ LockInv' /\ TableInv' /\ Keeps
        <3>1. CASE InTransaction(c)
            BY <1>a, <2>1, <3>1, RunsInside
        <3>2. CASE ~ InTransaction(c)
            BY <2>1, <3>2, RunsAtOnce DEF Keeps
        <3>. QED
            BY <3>1, <3>2
    <2>. QED
        BY <1>0, <2>1, <2>2, <2>3, <2>4, <2>5, OneMoves
<1>4. ASSUME NEW c \in Callers, StatementFails(c) PROVE SInv' /\ Keeps
    <2>1. /\ UNCHANGED <<plan, itemKind, todo, step>> /\ Rollback(c)
          /\ \E l \in {"absent", "error"} : pc' = [pc EXCEPT ![c] = l]
        BY <1>4 DEF StatementFails, Goto, config
    <2>2. /\ pc' \in [Callers -> SPlaces] /\ \A d \in Callers : d # c => pc'[d] = pc[d]
          /\ pc'[c] \in {"absent", "error"}
        BY <1>0, <2>1 DEF SPlaces, Ends
    <2>3. TodoInv(c)'
        BY <2>1, <2>2 DEF SInv, TodoInv
    <2>. QED
        BY <1>0, <1>a, <2>1, <2>2, <2>3, RollsBack, OneMoves
<1>5. ASSUME NEW c \in Callers, AnswerLost(c) PROVE SInv' /\ Keeps
    <2>1. /\ UNCHANGED <<plan, itemKind, todo, step>> /\ pc[c] = "run" /\ Runs(c)
          /\ ~ InTransaction(c)
          /\ pc' = [pc EXCEPT ![c] = "error"] \/ pc' = pc
        BY <1>5 DEF AnswerLost, Goto, config
    <2>2. /\ pc' \in [Callers -> SPlaces] /\ \A d \in Callers : d # c => pc'[d] = pc[d]
          /\ pc'[c] \in {"run", "error"}
        BY <1>0, <2>1 DEF SPlaces, Ends
    <2>3. TodoInv(c)'
        BY <2>1, <2>2 DEF SInv, TodoInv
    <2>4. cat' \in [Qualified -> Objects] /\ LockInv' /\ TableInv' /\ Keeps
        BY <2>1, RunsAtOnce DEF Keeps
    <2>. QED
        BY <1>0, <2>1, <2>2, <2>3, <2>4, OneMoves
<1>6. ASSUME NEW c \in Callers, Commit(c) PROVE SInv' /\ Keeps
    <2>1. /\ UNCHANGED <<plan, itemKind, todo, step>> /\ pc[c] = "commit" /\ Publish(c)
          /\ pc' = [pc EXCEPT ![c] = IF step[c] <= Len(todo[c]) THEN "run" ELSE "reread"]
        BY <1>6 DEF Commit, Goto, config
    <2>2. /\ pc' \in [Callers -> SPlaces] /\ \A d \in Callers : d # c => pc'[d] = pc[d]
          /\ pc'[c] \in {"run", "reread"} /\ (pc'[c] = "run" => step[c] <= Len(todo[c]))
        BY <1>0, <2>1 DEF SPlaces
    <2>3. TodoInv(c)'
        BY <2>1, <2>2 DEF SInv, TodoInv
    <2>4. cat' \in [Qualified -> Objects] /\ LockInv' /\ TableInv' /\ Keeps
        BY <2>1, Publishes DEF Keeps
    <2>. QED
        BY <1>0, <2>1, <2>2, <2>3, <2>4, OneMoves
<1>7. ASSUME NEW c \in Callers, CommitFails(c) PROVE SInv' /\ Keeps
    <2>1. /\ UNCHANGED <<plan, itemKind, todo, step>> /\ (Publish(c) \/ Rollback(c))
          /\ pc' = [pc EXCEPT ![c] = "commit_failed"]
        BY <1>7 DEF CommitFails, Goto, config
    <2>2. /\ pc' \in [Callers -> SPlaces] /\ \A d \in Callers : d # c => pc'[d] = pc[d]
          /\ pc'[c] = "commit_failed"
        BY <1>0, <2>1 DEF SPlaces, Ends
    <2>3. TodoInv(c)'
        BY <2>1, <2>2 DEF SInv, TodoInv
    <2>4. cat' \in [Qualified -> Objects] /\ LockInv' /\ TableInv' /\ Keeps
        <3>1. CASE Publish(c)
            BY <2>1, <3>1, Publishes DEF Keeps
        <3>2. CASE Rollback(c)
            BY <1>a, <2>1, <3>2, RollsBack
        <3>. QED
            BY <2>1, <3>1, <3>2
    <2>. QED
        BY <1>0, <2>1, <2>2, <2>3, <2>4, OneMoves
<1>8. ASSUME NEW c \in Callers, Reread(c) \/ RereadFails(c) PROVE SInv' /\ Keeps
    <2>1. /\ UNCHANGED <<cat, before, plan, itemKind, todo, step>>
          /\ \E l \in {"ok", "not_found", "reread_failed"} : pc' = [pc EXCEPT ![c] = l]
        BY <1>8 DEF Reread, RereadFails, Goto, config
    <2>2. /\ pc' \in [Callers -> SPlaces] /\ \A d \in Callers : d # c => pc'[d] = pc[d]
          /\ pc'[c] \in {"ok", "not_found", "reread_failed"}
        BY <1>0, <2>1 DEF SPlaces, Ends
    <2>3. TodoInv(c)'
        BY <2>1, <2>2 DEF SInv, TodoInv
    <2>. QED
        BY <1>0, <1>a, <2>1, <2>2, <2>3, NothingChanges, OneMoves
<1>9. CASE UNCHANGED vars
    <2>1. /\ UNCHANGED <<cat, before, plan, itemKind, todo, step, pc>>
        BY <1>9 DEF vars
    <2>2. \A c \in Callers : TodoInv(c)'
        BY <2>1 DEF SInv, TodoInv
    <2>3. cat' \in [Qualified -> Objects] /\ LockInv' /\ TableInv' /\ Durable' = Durable
        BY <2>1, NothingChanges
    <2>. QED
        BY <1>0, <1>a, <2>1, <2>2, <2>3 DEF SInv
<1>. QED
    BY <1>1, <1>2, <1>3, <1>4, <1>5, <1>6, <1>7, <1>8, <1>9 DEF Next

\* Any calls of the services, on any catalogue and failing anywhere: on a SQL
\* endpoint the number of committed tables is the same after every step.
THEOREM EndpointKeepsTablesCorrect ==
    ASSUME PlansFit
    PROVE  Spec => EndpointKeepsTables
<1>1. Init => SInv
    BY InitSInv
<1>2. SInv /\ [Next]_vars => SInv'
    BY StepSInv
<1>3. SInv /\ [Next]_vars =>
          [itemKind = "endpoint" => Cardinality(Tables') = Cardinality(Tables)]_vars
    BY StepSInv DEF Keeps
<1>. QED
    BY <1>1, <1>2, <1>3, PTL DEF Spec, EndpointKeepsTables

-----------------------------------------------------------------------------
(* What a call reads back.  It has the lock on the name until it commits,  *)
(* so what its statement made of that name is what it finds, unless        *)
(* another call changes the name in between.                               *)

\* What a statement makes true of its name, once it was accepted.
Causes(s, what) ==
    \/ s.does \in Makes \cup {"touch"} /\ s.kind = what
    \/ s.does = "move"
    \/ s.does \in {"touch", "set"} /\ what = "any"
    \/ s.does = "put" /\ s.kind = what

\* A copy, something else, and the copy moved to the name that is read back.
Swaps(p) ==
    /\ p.mode = "deferred" /\ Len(p.stmts) = 3
    /\ p.stmts[1].does = "copy" /\ p.stmts[1].kind = p.what
    /\ p.stmts[1].at \notin Changes(p.stmts[2])
    /\ p.stmts[3].does = "move" /\ p.stmts[3].from = p.stmts[1].at /\ p.stmts[3].at = p.at

\* A call reads back what its statements were for.
PlanAnswers(p) ==
    p.mode # "read" /\ p.what # "none" =>
        /\ p.cascade = FALSE /\ p.at \in Qualified
        /\ \/ Len(p.stmts) = 1 /\ p.stmts[1].at = p.at /\ Causes(p.stmts[1], p.what)
           \/ Swaps(p)
PlansAnswer == \A p \in Plans : PlanAnswers(p)

-----------------------------------------------------------------------------
(* Every service has such a plan. *)

\* A call that reads back nothing, or does nothing else.
LEMMA ReadsAnswer ==
    ASSUME NEW p, p.mode = "read" \/ p.what = "none"
    PROVE  PlanAnswers(p)
BY DEF PlanAnswers

\* A plan of one statement, which reads back what that makes.
LEMMA OneStatementAnswers ==
    ASSUME NEW s, NEW what, s.at \in Qualified, Causes(s, what)
    PROVE  /\ PlanAnswers(Then(Committed(s), what, s.at))
           /\ PlanAnswers(OnWarehouse(Then(Committed(s), what, s.at)))
           /\ PlanAnswers(OnWarehouse(Then(AtOnce(s), what, s.at)))
           /\ PlanAnswers(Then([AtOnce(s) EXCEPT !.again = "never"], what, s.at))
           /\ PlanAnswers(OnEndpoint(Then([AtOnce(s) EXCEPT !.again = "always"], what, s.at)))
<1>1. Len(<<s>>) = 1 /\ <<s>>[1] = s
    OBVIOUS
<1>2. \A p : p.stmts = <<s>> /\ p.at = s.at /\ p.what = what /\ p.cascade = FALSE =>
                 PlanAnswers(p)
    BY <1>1 DEF PlanAnswers
<1>. QED
    BY <1>2 DEF Ask, Committed, AtOnce, Then, OnWarehouse, OnEndpoint

LEMMA TableWritesAnswer ==
    ASSUME NEW n \in Qualified, NEW m \in Qualified, NEW x, <<n[1], x>> \in Qualified \ {n},
           <<x, m[2]>> \in Qualified
    PROVE  /\ PlanAnswers(create_table(n)) /\ PlanAnswers(create_empty_table(n))
           /\ PlanAnswers(create_table_from_parquet(n)) /\ PlanAnswers(create_table_from_csv(n))
           /\ PlanAnswers(create_table_from_json(n)) /\ PlanAnswers(clone_table(m, n))
           /\ PlanAnswers(delete_table(n)) /\ PlanAnswers(clear_table(n))
           /\ PlanAnswers(rename_table(m, n)) /\ PlanAnswers(transfer_table(m, x))
           /\ PlanAnswers(refresh_table_metadata(n)) /\ PlanAnswers(recluster_table(n, x))
<1>1. /\ Causes(Create("table", n), "table") /\ Create("table", n).at = n
      /\ Causes(Touch("table", n), "table") /\ Touch("table", n).at = n
      /\ Causes(Clone(m, n), "table") /\ Clone(m, n).at = n
      /\ Causes(Move(m, n), "table") /\ Move(m, n).at = n
      /\ Causes(Move(m, <<x, m[2]>>), "table") /\ Move(m, <<x, m[2]>>).at = <<x, m[2]>>
    BY DEF Causes, Makes, Create, Touch, Clone, Move, Stmt
<1>2. /\ PlanAnswers(create_table(n)) /\ PlanAnswers(create_empty_table(n))
      /\ PlanAnswers(create_table_from_parquet(n)) /\ PlanAnswers(create_table_from_csv(n))
      /\ PlanAnswers(create_table_from_json(n))
    BY <1>1, OneStatementAnswers DEF create_table, create_empty_table,
           create_table_from_parquet, create_table_from_csv, create_table_from_json
<1>3. /\ PlanAnswers(clone_table(m, n)) /\ PlanAnswers(rename_table(m, n))
      /\ PlanAnswers(refresh_table_metadata(n))
    BY <1>1, OneStatementAnswers DEF clone_table, rename_table, refresh_table_metadata
<1>4. PlanAnswers(transfer_table(m, x))
    BY <1>1, OneStatementAnswers DEF transfer_table, transfer_object
<1>5. PlanAnswers(delete_table(n)) /\ PlanAnswers(clear_table(n))
    BY ReadsAnswer DEF delete_table, clear_table, Ask, Committed, OnWarehouse
<1>6. PlanAnswers(recluster_table(n, x))
    <2> DEFINE p == recluster_table(n, x)
    <2>1. /\ p.stmts = Swap(n, x) /\ p.mode = "deferred" /\ p.what = "table" /\ p.at = n
          /\ p.cascade = FALSE
        BY DEF recluster_table, Ask, Deferred, Then, OnWarehouse
    <2>2. /\ Len(Swap(n, x)) = 3
          /\ Swap(n, x)[1].does = "copy" /\ Swap(n, x)[1].kind = "table"
          /\ Swap(n, x)[1].at = <<n[1], x>> /\ Changes(Swap(n, x)[2]) = {n}
          /\ Swap(n, x)[3].does = "move" /\ Swap(n, x)[3].from = <<n[1], x>>
          /\ Swap(n, x)[3].at = n
        BY DEF Swap, CopyRows, Drop, Move, Stmt, Changes
    <2>. QED
        BY <2>1, <2>2 DEF PlanAnswers, Swaps
<1>. QED
    BY <1>2, <1>3, <1>4, <1>5, <1>6

LEMMA ModuleWritesAnswer ==
    ASSUME NEW n \in Qualified, NEW m \in Qualified, NEW s, <<s, m[2]>> \in Qualified,
           SchemaEntry(s) \in Qualified, NEW flag \in BOOLEAN
    PROVE  /\ PlanAnswers(create_view(n)) /\ PlanAnswers(update_view(n))
           /\ PlanAnswers(drop_view(n))
           /\ PlanAnswers(rename_view(m, n)) /\ PlanAnswers(transfer_view(m, s))
           /\ PlanAnswers(create_function(n)) /\ PlanAnswers(update_function(n))
           /\ PlanAnswers(transfer_function(m, s)) /\ PlanAnswers(drop_function(n, flag))
           /\ PlanAnswers(create_procedure(n)) /\ PlanAnswers(update_procedure(n))
           /\ PlanAnswers(drop_procedure(n)) /\ PlanAnswers(transfer_procedure(m, s))
           /\ PlanAnswers(create_schema(s)) /\ PlanAnswers(delete_schema(s, flag))
<1>1. \A k : /\ Causes(Create(k, n), k) /\ Create(k, n).at = n
             /\ Causes(CreateOrAlter(k, n), k) /\ CreateOrAlter(k, n).at = n
             /\ Causes(Move(m, n), k) /\ Move(m, n).at = n
             /\ Causes(Move(m, <<s, m[2]>>), k) /\ Move(m, <<s, m[2]>>).at = <<s, m[2]>>
             /\ Causes(Create(k, SchemaEntry(s)), k)
             /\ Create(k, SchemaEntry(s)).at = SchemaEntry(s)
    BY DEF Causes, Makes, Create, CreateOrAlter, Move, Stmt
<1>2. /\ PlanAnswers(create_view(n)) /\ PlanAnswers(update_view(n))
      /\ PlanAnswers(rename_view(m, n)) /\ PlanAnswers(transfer_view(m, s))
    BY <1>1, OneStatementAnswers DEF create_view, update_view, rename_view, transfer_view,
           transfer_object
<1>3. /\ PlanAnswers(create_function(n)) /\ PlanAnswers(update_function(n))
      /\ PlanAnswers(transfer_function(m, s))
    BY <1>1, OneStatementAnswers DEF create_function, update_function, transfer_function,
           transfer_object
<1>4. /\ PlanAnswers(create_procedure(n)) /\ PlanAnswers(update_procedure(n))
      /\ PlanAnswers(transfer_procedure(m, s)) /\ PlanAnswers(create_schema(s))
    BY <1>1, OneStatementAnswers DEF create_procedure, update_procedure,
           transfer_procedure, transfer_object, create_schema
<1>5. /\ PlanAnswers(drop_view(n)) /\ PlanAnswers(drop_function(n, flag))
      /\ PlanAnswers(drop_procedure(n)) /\ PlanAnswers(delete_schema(s, flag))
    BY ReadsAnswer DEF drop_view, drop_function, drop_procedure, delete_schema, Ask,
           Committed, Deferred
<1>. QED
    BY <1>2, <1>3, <1>4, <1>5

LEMMA OtherWritesAnswer ==
    ASSUME NEW n \in Qualified, NEW s, NEW flag \in BOOLEAN
    PROVE  /\ PlanAnswers(create_statistics(n)) /\ PlanAnswers(update_statistics(n))
           /\ PlanAnswers(drop_statistics(n))
           /\ PlanAnswers(create_security_policy(n)) /\ PlanAnswers(add_predicate(n))
           /\ PlanAnswers(drop_predicate(n)) /\ PlanAnswers(set_policy_state(n))
           /\ PlanAnswers(drop_security_policy(n))
           /\ PlanAnswers(set_column_mask(n)) /\ PlanAnswers(drop_column_mask(n))
           /\ PlanAnswers(grant_permission(n)) /\ PlanAnswers(deny_permission(n))
           /\ PlanAnswers(revoke_permission(n))
           /\ PlanAnswers(set_result_set_caching) /\ PlanAnswers(set_time_travel_retention)
           /\ PlanAnswers(set_data_lake_log_publishing)
           /\ PlanAnswers(kill) /\ PlanAnswers(roll_timestamp(flag)) /\ PlanAnswers(execute(s))
<1>1. DatabaseEntry \in Qualified
    BY DEF Qualified
<1>2. /\ Causes(Put("statistic", n), "statistic") /\ Put("statistic", n).at = n
      /\ Causes(Touch("database", DatabaseEntry), "any")
      /\ Touch("database", DatabaseEntry).at = DatabaseEntry
      /\ \A k : Causes(Set(k, DatabaseEntry), "any") /\ Set(k, DatabaseEntry).at = DatabaseEntry
    BY DEF Causes, Put, Touch, Set, Stmt
<1>3. PlanAnswers(create_statistics(n))
    BY <1>2, OneStatementAnswers DEF create_statistics
<1>4. /\ PlanAnswers(set_result_set_caching) /\ PlanAnswers(set_time_travel_retention)
      /\ PlanAnswers(set_data_lake_log_publishing)
    BY <1>1, <1>2, OneStatementAnswers DEF SetOption, set_result_set_caching,
           set_time_travel_retention, set_data_lake_log_publishing
<1>5. PlanAnswers(roll_timestamp(flag))
    <2>1. roll_timestamp(TRUE).what = "none"
        BY DEF roll_timestamp, Ask, AtOnce
    <2>2. PlanAnswers(roll_timestamp(FALSE))
        BY <1>1, <1>2, OneStatementAnswers DEF roll_timestamp
    <2>. QED
        BY <2>1, <2>2, ReadsAnswer
<1>6. /\ PlanAnswers(update_statistics(n)) /\ PlanAnswers(drop_statistics(n))
      /\ PlanAnswers(create_security_policy(n)) /\ PlanAnswers(add_predicate(n))
      /\ PlanAnswers(drop_predicate(n)) /\ PlanAnswers(set_policy_state(n))
      /\ PlanAnswers(drop_security_policy(n))
    BY ReadsAnswer DEF update_statistics, drop_statistics, create_security_policy,
           add_predicate, drop_predicate, set_policy_state, drop_security_policy, Ask,
           Committed, AtOnce, OnWarehouse
<1>7. /\ PlanAnswers(set_column_mask(n)) /\ PlanAnswers(drop_column_mask(n))
      /\ PlanAnswers(grant_permission(n)) /\ PlanAnswers(deny_permission(n))
      /\ PlanAnswers(revoke_permission(n)) /\ PlanAnswers(kill) /\ PlanAnswers(execute(s))
    BY ReadsAnswer DEF set_column_mask, drop_column_mask, grant_permission,
           deny_permission, revoke_permission, kill, execute, Ask, AtOnce
<1>. QED
    BY <1>3, <1>4, <1>5, <1>6, <1>7

-----------------------------------------------------------------------------
(* The calls. *)

\* What the call is to read back is there, in what is committed or will be.
Reached(c, committed) ==
    \/ Answers(plan[c].what, plan[c].at, committed)
    \/ todo[c][1].does = "move" /\ committed[plan[c].at] # Absent

\* What the call is for is on its way: in the scratch name, then in the name to be
\* read back, locked, and then committed.
AnswerInv(c) ==
    plan[c].mode # "read" /\ plan[c].what # "none" =>
        /\ pc[c] # "list" /\ todo[c] = plan[c].stmts
        /\ pc[c] = "run" /\ step[c] # 1 =>
               /\ Swaps(plan[c]) /\ todo[c][1].at \in Undone(c)
               /\ cat[todo[c][1].at].kind = plan[c].what
        /\ pc[c] = "commit" => plan[c].at \in Undone(c) /\ Reached(c, cat)
        /\ pc[c] = "reread" => overtaken[c] \/ Reached(c, Durable)

RInv ==
    /\ overtaken \in [Callers -> BOOLEAN]
    /\ \A c \in Callers : AnswerInv(c)

LEMMA Effected ==
    ASSUME NEW c \in Callers, NEW s \in Statements, cat \in [Qualified -> Objects], Accepts(s),
           NEW what, Causes(s, what)
    PROVE  \/ Answers(what, s.at, After(c, s))
           \/ s.does = "move" /\ After(c, s)[s.at] # Absent
<1>1. s.at \in Qualified /\ cat[s.at] \in Objects
    BY Parts
<1>2. CASE s.does \in {"create", "copy", "clone"} \/ (s.does = "alter" /\ cat[s.at] = Absent)
    <2>1. After(c, s) = [cat EXCEPT ![s.at] = [kind |-> s.kind, by |-> c, has |-> {}]]
        BY <1>2 DEF After
    <2>2. After(c, s)[s.at].kind = s.kind
        BY <1>1, <2>1
    <2>. QED
        BY <1>2, <2>2 DEF Causes, Answers
<1>3. CASE s.does = "alter" /\ cat[s.at] # Absent
    <2>1. After(c, s) = cat
        BY <1>3 DEF After
    <2>2. cat[s.at].kind = s.kind
        BY <1>1, <1>3 DEF Accepts, Objects
    <2>. QED
        BY <1>3, <2>1, <2>2 DEF Causes, Answers
<1>4. CASE s.does = "touch"
    <2>1. After(c, s) = cat /\ cat[s.at].kind = s.kind
        BY <1>4 DEF After, Accepts
    <2>2. CASE s.kind = what
        BY <2>1, <2>2 DEF Answers
    <2>3. CASE what = "any"
        <3>1. s.kind # "none"
            BY <1>4 DEF Statements, Kinds, Attributes
        <3>2. cat[s.at] # Absent
            BY <2>1, <3>1 DEF Absent
        <3>. QED
            BY <2>1, <2>3, <3>2 DEF Answers
    <2>. QED
        BY <1>4, <2>2, <2>3 DEF Causes, Makes
<1>5. CASE s.does \in {"set", "put"}
    <2>1. After(c, s) = [cat EXCEPT ![s.at].has = @ \cup {s.kind}]
        BY <1>5 DEF After
    <2>2. s.kind \in After(c, s)[s.at].has
        BY <1>1, <2>1 DEF Objects
    <2>3. After(c, s)[s.at] # Absent
        BY <2>2 DEF Absent
    <2>. QED
        BY <1>5, <2>2, <2>3 DEF Causes, Answers, Makes
<1>6. CASE s.does = "move"
    <2>1. /\ After(c, s) = [cat EXCEPT ![s.at] = cat[s.from], ![s.from] = Absent]
          /\ cat[s.from] # Absent /\ cat[s.at] = Absent /\ s.from \in Qualified
        BY <1>6, Parts DEF After, Accepts
    <2>2. After(c, s)[s.at] = cat[s.from]
        BY <1>1, <2>1
    <2>. QED
        BY <1>6, <2>1, <2>2
<1>. QED
    BY <1>2, <1>3, <1>4, <1>5, <1>6 DEF Causes, Makes

\* What is read back is read at one name.
LEMMA ReadAtOneName ==
    ASSUME NEW c, NEW f, NEW g, f[plan[c].at] = g[plan[c].at], Reached(c, f)
    PROVE  Reached(c, g)
BY DEF Reached, Answers

\* What the calls beside a step see of it.
Aside(c) == \A d \in Callers : d # c =>
    /\ pc'[d] = pc[d] /\ todo'[d] = todo[d] /\ step'[d] = step[d]
    /\ pc[d] = "reread" /\ plan[d].at \in Qualified =>
           \/ overtaken'[d]
           \/ overtaken'[d] = overtaken[d] /\ Durable'[plan[d].at] = Durable[plan[d].at]

LEMMA OtherStays ==
    ASSUME PlansAnswer, plan \in [Callers -> Plans], NEW c \in Callers, NEW d \in Callers, d # c,
           AnswerInv(d), plan' = plan, OthersHold(c), Aside(c)
    PROVE  AnswerInv(d)'
<1> SUFFICES ASSUME plan[d].mode # "read", plan[d].what # "none"
             PROVE  AnswerInv(d)'
    BY DEF AnswerInv
<1>1. /\ pc'[d] = pc[d] /\ todo'[d] = todo[d] /\ step'[d] = step[d] /\ plan'[d] = plan[d]
      /\ Undone(d)' = Undone(d) /\ \A n \in Undone(d) : cat'[n] = cat[n]
    BY DEF Aside, OthersHold
<1>2. /\ pc[d] # "list" /\ todo[d] = plan[d].stmts /\ plan[d].at \in Qualified
    BY DEF AnswerInv, PlansAnswer, PlanAnswers
<1>3. pc[d] = "run" /\ step[d] # 1 =>
          /\ Swaps(plan[d]) /\ todo[d][1].at \in Undone(d)
          /\ cat'[todo[d][1].at].kind = plan[d].what
    BY <1>1 DEF AnswerInv
<1>4. \A f : Reached(d, f)' <=> Reached(d, f)
    BY <1>1 DEF Reached, Answers
<1>5. pc[d] = "commit" => plan[d].at \in Undone(d) /\ Reached(d, cat')
    BY <1>1, ReadAtOneName DEF AnswerInv
<1>6. pc[d] = "reread" => overtaken'[d] \/ Reached(d, Durable')
    BY <1>2, ReadAtOneName DEF AnswerInv, Aside
<1>. QED
    BY <1>1, <1>2, <1>3, <1>5, <1>6 DEF AnswerInv, Reached, Answers, Swaps, Changes

LEMMA Overtaken ==
    ASSUME NEW c \in Callers, NEW committed, Overtake(c, committed),
           \A n \in Qualified : committed[n] = Durable'[n], overtaken \in [Callers -> BOOLEAN]
    PROVE  /\ overtaken' \in [Callers -> BOOLEAN]
           /\ \A d \in Callers : d # c /\ pc[d] = "reread" /\ plan[d].at \in Qualified =>
                  \/ overtaken'[d]
                  \/ overtaken'[d] = overtaken[d] /\ Durable'[plan[d].at] = Durable[plan[d].at]
<1>1. overtaken' \in [Callers -> BOOLEAN]
    BY DEF Overtake
<1>2. ASSUME NEW d \in Callers, d # c, pc[d] = "reread", plan[d].at \in Qualified, ~ overtaken'[d]
      PROVE  overtaken'[d] = overtaken[d] /\ Durable'[plan[d].at] = Durable[plan[d].at]
    BY <1>2, QualifiedNames DEF Overtake
<1>. QED
    BY <1>1, <1>2

-----------------------------------------------------------------------------
LEMMA InitRInv == PlansAnswer /\ Init => RInv
BY DEF Init, RInv, AnswerInv

\* A statement of a call that reads something back.
LEMMA StatementAnswers ==
    ASSUME PlansFit, PlansAnswer, SInv, NEW c \in Callers, AnswerInv(c), pc[c] = "run", Runs(c),
           plan[c].mode # "read", plan[c].what # "none"
    PROVE  LET s == Statement(c)
           IN  \/ /\ Len(todo[c]) = 1 /\ step[c] = 1 /\ s.at = plan[c].at
                  /\ Reached(c, After(c, s))
               \/ /\ Swaps(plan[c]) /\ step[c] \in {1, 2} /\ Len(todo[c]) = 3
                  /\ After(c, s)[todo[c][1].at].kind = plan[c].what
                  /\ todo[c][1].at \in Undone(c) \cup Changes(s)
               \/ /\ Swaps(plan[c]) /\ step[c] = 3 /\ Len(todo[c]) = 3
                  /\ s.at = plan[c].at /\ Reached(c, After(c, s))
<1> DEFINE s == Statement(c)
<1>1. /\ s \in Statements /\ s = todo[c][step[c]] /\ Accepts(s)
      /\ cat \in [Qualified -> Objects] /\ step[c] \in Nat \ {0} /\ step[c] <= Len(todo[c])
      /\ todo[c] \in Seq(Statements)
    BY StatementIs DEF Statement, Runs, SInv, TodoInv
<1>2. /\ todo[c] = plan[c].stmts /\ plan[c].at \in Qualified
      /\ \/ Len(todo[c]) = 1 /\ todo[c][1].at = plan[c].at /\ Causes(todo[c][1], plan[c].what)
         \/ Swaps(plan[c])
    BY DEF AnswerInv, PlansAnswer, PlanAnswers, SInv
<1> HIDE DEF s
<1>3. CASE /\ Len(todo[c]) = 1 /\ todo[c][1].at = plan[c].at
           /\ Causes(todo[c][1], plan[c].what)
    <2>1. step[c] = 1 /\ s = todo[c][1]
        BY <1>1, <1>3
    <2>2. \/ Answers(plan[c].what, s.at, After(c, s))
          \/ s.does = "move" /\ After(c, s)[s.at] # Absent
        BY <1>1, <1>3, <2>1, Effected
    <2>. QED
        BY <1>3, <2>1, <2>2 DEF Reached, s
<1>4. CASE Swaps(plan[c])
    <2>1. /\ Len(todo[c]) = 3 /\ step[c] \in {1, 2, 3}
          /\ todo[c][1].does = "copy" /\ todo[c][1].kind = plan[c].what
          /\ todo[c][1].at \notin Changes(todo[c][2])
          /\ todo[c][3].does = "move" /\ todo[c][3].from = todo[c][1].at
          /\ todo[c][3].at = plan[c].at
        BY <1>1, <1>2, <1>4 DEF Swaps
    <2>2. todo[c][1] \in Statements /\ todo[c][1].at \in Qualified
        BY <1>1, <2>1, Parts
    <2>3. step[c] # 1 => /\ todo[c][1].at \in Undone(c)
                         /\ cat[todo[c][1].at].kind = plan[c].what
        BY DEF AnswerInv
    <2>4. CASE step[c] = 1
        <3>1. s = todo[c][1]
            BY <1>1, <2>4
        <3>2. After(c, s) = [cat EXCEPT ![s.at] = [kind |-> s.kind, by |-> c, has |-> {}]]
            BY <2>1, <3>1 DEF After
        <3>3. After(c, s)[s.at].kind = plan[c].what
            BY <1>1, <2>1, <2>2, <3>1, <3>2
        <3>. QED
            BY <1>4, <2>1, <2>4, <3>1, <3>3 DEF Changes, s
    <2>5. CASE step[c] = 2
        <3>1. todo[c][1].at \notin Changes(s)
            BY <1>1, <2>1, <2>5
        <3>2. After(c, s)[todo[c][1].at] = cat[todo[c][1].at]
            BY <1>1, <2>2, <3>1, StatementEffect
        <3>. QED
            BY <1>4, <2>1, <2>3, <2>5, <3>2 DEF s
    <2>6. CASE step[c] = 3
        <3>1. s.does = "move" /\ s.from = todo[c][1].at /\ s.at = plan[c].at
            BY <1>1, <2>1, <2>6
        <3>2. /\ After(c, s) = [cat EXCEPT ![s.at] = cat[s.from], ![s.from] = Absent]
              /\ cat[s.from] # Absent /\ cat[s.at] = Absent
            BY <1>1, <3>1 DEF After, Accepts
        <3>3. After(c, s)[s.at] = cat[s.from]
            BY <1>1, <1>2, <3>1, <3>2
        <3>4. After(c, s)[plan[c].at].kind = plan[c].what
            BY <2>3, <2>6, <3>1, <3>3
        <3>. QED
            BY <1>4, <2>1, <2>6, <3>1, <3>4 DEF Reached, Answers, s
    <2>. QED
        BY <2>1, <2>4, <2>5, <2>6
<1>. QED
    BY <1>2, <1>3, <1>4

\* The call that moves, and the calls beside it.
LEMMA AllStay ==
    ASSUME PlansAnswer, SInv, RInv, NEW c \in Callers, plan' = plan, OthersHold(c), Aside(c),
           overtaken' \in [Callers -> BOOLEAN], AnswerInv(c)'
    PROVE  RInv'
<1>1. ASSUME NEW d \in Callers PROVE AnswerInv(d)'
    <2>1. CASE d = c
        BY <2>1
    <2>2. CASE d # c
        BY <2>2, OtherStays DEF SInv, RInv
    <2>. QED
        BY <2>1, <2>2
<1>. QED
    BY <1>1 DEF RInv

\* A step that leaves the catalogue and the transactions alone.
LEMMA NothingAside ==
    ASSUME NEW c \in Callers, UNCHANGED <<cat, before, overtaken>>,
           \A d \in Callers : d # c => pc'[d] = pc[d] /\ todo'[d] = todo[d] /\ step'[d] = step[d]
    PROVE  OthersHold(c) /\ Aside(c)
<1>1. Durable' = Durable
    BY DEF Durable, CommittedFor
<1>. QED
    BY <1>1 DEF OthersHold, Aside, Undone

LEMMA StepRInv ==
    ASSUME PlansFit, PlansWellFormed, PlansAnswer, SInv, IInv, RInv, [Next]_vars
    PROVE  RInv'
<1>0. /\ plan \in [Callers -> Plans] /\ DOMAIN todo = Callers
      /\ pc \in [Callers -> SPlaces] /\ step \in [Callers -> Nat \ {0}]
      /\ overtaken \in [Callers -> BOOLEAN] /\ \A c \in Callers : AnswerInv(c)
    BY DEF SInv, RInv
<1>1. ASSUME NEW c \in Callers, Begin(c) PROVE RInv'
    <2>1. /\ UNCHANGED <<cat, before, plan, itemKind, todo, step, overtaken>>
          /\ pc[c] = "start" /\ step[c] = 1 /\ todo[c] = plan[c].stmts
          /\ \A d \in Callers : d # c => pc'[d] = pc[d]
        BY <1>0, <1>1 DEF Begin, Goto, config, SInv, TodoInv
    <2>2. /\ pc'[c] \in {"refused", "ok", "list", "reread", "run"}
          /\ pc'[c] = "list" => plan[c].cascade # FALSE
          /\ pc'[c] = "reread" => plan[c].mode = "read"
        BY <1>0, <1>1 DEF Begin, Goto
    <2>3. AnswerInv(c)'
        BY <1>0, <2>1, <2>2 DEF AnswerInv, PlansAnswer, PlanAnswers
    <2>. QED
        BY <1>0, <2>1, <2>3, NothingAside, AllStay
<1>2. ASSUME NEW c \in Callers, List(c) PROVE RInv'
    <2>1. /\ UNCHANGED <<cat, before, plan, itemKind, step, overtaken>>
          /\ pc[c] = "list" /\ plan'[c] = plan[c]
          /\ \A d \in Callers : d # c => pc'[d] = pc[d] /\ todo'[d] = todo[d]
        BY <1>0, <1>2 DEF List, Goto, config
    <2>2. AnswerInv(c)'
        BY <1>0, <2>1 DEF AnswerInv
    <2>. QED
        BY <1>0, <2>1, <2>2, NothingAside, AllStay
<1>3. ASSUME NEW c \in Callers, RunStatement(c) PROVE RInv'
    <2> DEFINE s == Statement(c)
    <2>1. /\ UNCHANGED <<plan, itemKind, todo>> /\ pc[c] = "run" /\ Runs(c)
          /\ step' = [step EXCEPT ![c] = @ + 1] /\ cat' = After(c, s)
          /\ plan'[c] = plan[c] /\ todo'[c] = todo[c]
        BY <1>3 DEF RunStatement, Runs, config
    <2>2. /\ \A d \in Callers : d # c => pc'[d] = pc[d] /\ step'[d] = step[d]
          /\ step'[c] = step[c] + 1
          /\ pc'[c] = IF CommitIsDue(c) THEN "commit" ELSE IF IsLast(c) THEN "reread" ELSE "run"
        BY <1>0, <1>3 DEF RunStatement, Goto
    <2>3. plan[c].mode # "each"
        BY <1>0 DEF PlansWellFormed, WellFormed
    <2>4. CASE InTransaction(c)
        <3>1. /\ OthersHold(c) /\ Durable' = Durable /\ overtaken' = overtaken
              /\ Undone(c)' = Undone(c) \cup Changes(s)
            BY <2>1, <2>4, RunsInside DEF Runs
        <3>2. Aside(c)
            BY <2>1, <2>2, <3>1 DEF Aside
        <3>3. pc'[c] = IF step[c] = Len(todo[c]) THEN "commit" ELSE "run"
            BY <2>2, <2>3, <2>4 DEF CommitIsDue, IsLast
        <3>4. AnswerInv(c)'
            <4> SUFFICES ASSUME plan[c].mode # "read", plan[c].what # "none"
                         PROVE  AnswerInv(c)'
                BY <2>1 DEF AnswerInv
            <4>1. /\ todo'[c] = plan'[c].stmts /\ s.at \in Changes(s)
                BY <1>0, <2>1 DEF AnswerInv, Changes
            <4>2. \A f : Reached(c, f)' <=> Reached(c, f)
                BY <2>1 DEF Reached, Answers
            <4>3. CASE Len(todo[c]) = 1 /\ step[c] = 1 /\ s.at = plan[c].at /\ Reached(c, cat')
                BY <2>1, <3>1, <3>3, <4>1, <4>3 DEF AnswerInv, Reached, Answers
            <4>4. CASE /\ Swaps(plan[c]) /\ step[c] \in {1, 2} /\ Len(todo[c]) = 3
                       /\ cat'[todo[c][1].at].kind = plan[c].what
                       /\ todo[c][1].at \in Undone(c) \cup Changes(s)
                BY <2>1, <3>1, <3>3, <4>1, <4>4 DEF AnswerInv, Swaps, Changes
            <4>5. CASE /\ Swaps(plan[c]) /\ step[c] = 3 /\ Len(todo[c]) = 3
                       /\ s.at = plan[c].at /\ Reached(c, cat')
                BY <2>1, <3>1, <3>3, <4>1, <4>5 DEF AnswerInv, Reached, Answers
            <4>. QED
                BY <1>0, <2>1, <4>3, <4>4, <4>5, StatementAnswers
        <3>. QED
            BY <1>0, <2>1, <3>1, <3>2, <3>4, AllStay
    <2>5. CASE ~ InTransaction(c)
        <3>1. /\ OthersHold(c)
              /\ \A n \in Qualified : Durable'[n] =
                     IF n \in Changes(s) THEN After(c, s)[n] ELSE Durable[n]
            BY <2>1, <2>5, RunsAtOnce
        <3>2. Overtake(c, [n \in Qualified |->
                  IF n \in Changes(s) THEN After(c, s)[n] ELSE Durable[n]])
            BY <2>1, <2>5 DEF Runs
        <3>3. overtaken' \in [Callers -> BOOLEAN] /\ Aside(c)
            BY <1>0, <2>1, <2>2, <3>1, <3>2, Overtaken DEF Aside
        <3>4. pc'[c] = IF step[c] = Len(todo[c]) THEN "reread" ELSE "run"
            BY <2>2, <2>5 DEF CommitIsDue, IsLast
        <3>5. AnswerInv(c)'
            <4> SUFFICES ASSUME plan[c].mode # "read", plan[c].what # "none"
                         PROVE  AnswerInv(c)'
                BY <2>1 DEF AnswerInv
            <4>1. /\ Len(todo[c]) = 1 /\ step[c] = 1 /\ s.at = plan[c].at
                  /\ Reached(c, After(c, s))
                BY <1>0, <2>1, <2>5, StatementAnswers DEF Swaps, InTransaction
            <4>2. todo[c] = plan[c].stmts /\ plan[c].at \in Qualified
                BY <1>0 DEF AnswerInv, PlansAnswer, PlanAnswers
            <4>3. Durable'[plan[c].at] = After(c, s)[plan[c].at]
                BY <3>1, <4>1, <4>2 DEF Changes
            <4>4. Reached(c, Durable')
                BY <4>1, <4>3, ReadAtOneName
            <4>. QED
                BY <2>1, <3>4, <4>1, <4>2, <4>4 DEF AnswerInv, Reached, Answers
        <3>. QED
            BY <1>0, <2>1, <3>1, <3>3, <3>5, AllStay
    <2>. QED
        BY <2>4, <2>5
<1>4. ASSUME NEW c \in Callers, StatementFails(c) PROVE RInv'
    <2>1. /\ UNCHANGED <<plan, itemKind, todo, step, overtaken>> /\ Rollback(c)
          /\ pc'[c] \in {"absent", "error"}
          /\ \A d \in Callers : d # c => pc'[d] = pc[d]
        BY <1>0, <1>4 DEF StatementFails, Goto, config
    <2>2. OthersHold(c) /\ Durable' = Durable
        BY <2>1, RollsBack
    <2>3. Aside(c)
        BY <2>1, <2>2 DEF Aside
    <2>4. AnswerInv(c)'
        BY <1>0, <1>4, <2>1 DEF AnswerInv, StatementFails
    <2>. QED
        BY <1>0, <2>1, <2>2, <2>3, <2>4, AllStay
<1>5. ASSUME NEW c \in Callers, AnswerLost(c) PROVE RInv'
    <2> DEFINE s == Statement(c)
    <2>1. /\ UNCHANGED <<plan, itemKind, todo, step>> /\ pc[c] = "run" /\ Runs(c)
          /\ ~ InTransaction(c) /\ pc'[c] \in {"run", "error"}
          /\ \A d \in Callers : d # c => pc'[d] = pc[d]
        BY <1>0, <1>5 DEF AnswerLost, Goto, config
    <2>2. /\ OthersHold(c)
          /\ \A n \in Qualified : Durable'[n] =
                 IF n \in Changes(s) THEN After(c, s)[n] ELSE Durable[n]
        BY <2>1, RunsAtOnce
    <2>3. Overtake(c, [n \in Qualified |->
              IF n \in Changes(s) THEN After(c, s)[n] ELSE Durable[n]])
        BY <2>1 DEF Runs
    <2>4. overtaken' \in [Callers -> BOOLEAN] /\ Aside(c)
        BY <1>0, <2>1, <2>2, <2>3, Overtaken DEF Aside
    <2>5. AnswerInv(c)'
        BY <1>0, <2>1 DEF AnswerInv, Swaps, InTransaction
    <2>. QED
        BY <1>0, <2>1, <2>2, <2>4, <2>5, AllStay
<1>6. ASSUME NEW c \in Callers, UNCHANGED <<plan, itemKind, todo, step>>, pc[c] = "commit",
             Publish(c), pc'[c] \in {"run", "reread", "commit_failed"},
             pc'[c] = "run" => plan[c].mode = "read" \/ plan[c].what = "none",
             \A d \in Callers : d # c => pc'[d] = pc[d]
      PROVE  RInv'
    <2>1. /\ OthersHold(c) /\ Undone(c) \in SUBSET Qualified
          /\ \A n \in Qualified : Durable'[n] = IF n \in Undone(c) THEN cat[n] ELSE Durable[n]
        BY <1>6, Publishes DEF SInv, LockInv
    <2>2. Overtake(c, [n \in Qualified |-> IF n \in Undone(c) THEN cat[n] ELSE Durable[n]])
        BY <1>6 DEF Publish, Undone
    <2>3. overtaken' \in [Callers -> BOOLEAN] /\ Aside(c)
        BY <1>0, <1>6, <2>1, <2>2, Overtaken DEF Aside
    <2>4. AnswerInv(c)'
        <3> SUFFICES ASSUME plan[c].mode # "read", plan[c].what # "none"
                     PROVE  AnswerInv(c)'
            BY <1>6 DEF AnswerInv
        <3>1. /\ todo[c] = plan[c].stmts /\ plan[c].at \in Undone(c) /\ Reached(c, cat)
            BY <1>0, <1>6 DEF AnswerInv
        <3>2. Reached(c, Durable')
            BY <2>1, <3>1, ReadAtOneName
        <3>. QED
            BY <1>6, <3>1, <3>2 DEF AnswerInv, Reached, Answers
    <2>. QED
        BY <1>0, <1>6, <2>1, <2>3, <2>4, AllStay
<1>7. ASSUME NEW c \in Callers, Commit(c) PROVE RInv'
    <2>1. /\ UNCHANGED <<plan, itemKind, todo, step>> /\ pc[c] = "commit" /\ Publish(c)
          /\ \A d \in Callers : d # c => pc'[d] = pc[d]
          /\ pc'[c] = IF step[c] <= Len(todo[c]) THEN "run" ELSE "reread"
        BY <1>0, <1>7 DEF Commit, Goto, config
    <2>2. InTransaction(c) => Len(todo[c]) = step[c] - 1
        BY <2>1 DEF IInv, Progress
    <2>3. plan[c].mode # "read" /\ plan[c].what # "none" => InTransaction(c)
        BY <1>0, <2>1 DEF AnswerInv, SInv, LockInv
    <2>4. pc'[c] = "run" => plan[c].mode = "read" \/ plan[c].what = "none"
        BY <1>0, <2>1, <2>2, <2>3
    <2>. QED
        BY <1>0, <1>6, <2>1, <2>4
<1>8. ASSUME NEW c \in Callers, CommitFails(c) PROVE RInv'
    <2>1. /\ UNCHANGED <<plan, itemKind, todo, step>> /\ pc[c] = "commit"
          /\ pc'[c] = "commit_failed"
          /\ \A d \in Callers : d # c => pc'[d] = pc[d]
          /\ Publish(c) \/ (Rollback(c) /\ UNCHANGED overtaken)
        BY <1>0, <1>8 DEF CommitFails, Goto, config
    <2>2. CASE Publish(c)
        BY <1>6, <2>1, <2>2
    <2>3. CASE Rollback(c) /\ UNCHANGED overtaken
        <3>1. OthersHold(c) /\ Durable' = Durable
            BY <2>1, <2>3, RollsBack
        <3>2. Aside(c)
            BY <2>1, <2>3, <3>1 DEF Aside
        <3>3. AnswerInv(c)'
            BY <1>0, <2>1 DEF AnswerInv
        <3>. QED
            BY <1>0, <2>1, <2>3, <3>1, <3>2, <3>3, AllStay
    <2>. QED
        BY <2>1, <2>2, <2>3
<1>9. ASSUME NEW c \in Callers, Reread(c) \/ RereadFails(c) PROVE RInv'
    <2>1. /\ UNCHANGED <<cat, before, plan, itemKind, todo, step, overtaken>>
          /\ pc'[c] \in {"ok", "not_found", "reread_failed"} /\ pc[c] = "reread"
          /\ \A d \in Callers : d # c => pc'[d] = pc[d]
        BY <1>0, <1>9 DEF Reread, RereadFails, Goto, config
    <2>2. AnswerInv(c)'
        BY <1>0, <2>1 DEF AnswerInv
    <2>. QED
        BY <1>0, <2>1, <2>2, NothingAside, AllStay
<1>10. CASE UNCHANGED vars
    <2>1. UNCHANGED <<cat, before, plan, itemKind, todo, step, pc, overtaken>>
        BY <1>10 DEF vars
    <2>2. Durable' = Durable /\ \A c \in Callers : Undone(c)' = Undone(c)
        BY <2>1 DEF Durable, CommittedFor, Undone
    <2>3. \A c \in Callers : AnswerInv(c)'
        BY <1>0, <2>1, <2>2 DEF AnswerInv, Reached, Answers, Swaps, Changes
    <2>. QED
        BY <1>0, <2>1, <2>3 DEF RInv
<1>. QED
    BY <1>1, <1>2, <1>3, <1>4, <1>5, <1>7, <1>8, <1>9, <1>10 DEF Next

LEMMA NotFoundStep ==
    ASSUME SInv, RInv, [Next]_vars
    PROVE  \A c \in Callers :
               plan[c].mode # "read" /\ pc[c] = "reread" /\ pc'[c] = "not_found" =>
                   \/ overtaken[c]
                   \/ todo[c][1].does = "move" /\ Durable[plan[c].at] # Absent
<1> SUFFICES ASSUME NEW c \in Callers, plan[c].mode # "read", pc[c] = "reread",
                    pc'[c] = "not_found"
             PROVE  \/ overtaken[c]
                    \/ todo[c][1].does = "move" /\ Durable[plan[c].at] # Absent
    OBVIOUS
<1>1. pc \in [Callers -> SPlaces] /\ AnswerInv(c)
    BY DEF SInv, RInv
<1>2. Reread(c)
    <2>1. ~ UNCHANGED vars
        BY DEF vars
    <2>2. PICK d \in Callers :
              \/ Begin(d) \/ List(d) \/ RunStatement(d) \/ StatementFails(d) \/ AnswerLost(d)
              \/ Commit(d) \/ CommitFails(d) \/ Reread(d) \/ RereadFails(d)
        BY <2>1 DEF Next
    <2>3. d = c
        BY <1>1, <2>2 DEF Begin, List, RunStatement, StatementFails, AnswerLost, Commit,
                          CommitFails, Reread, RereadFails, Goto
    <2>4. ~ RereadFails(c)
        BY <1>1 DEF RereadFails, Goto
    <2>. QED
        BY <2>2, <2>3, <2>4 DEF Begin, List, RunStatement, StatementFails, AnswerLost, Commit,
                                CommitFails
<1>3. ~ Answers(plan[c].what, plan[c].at, Durable)
    BY <1>1, <1>2 DEF Reread, Goto
<1>4. plan[c].what # "none"
    BY <1>3 DEF Answers
<1>. QED
    BY <1>1, <1>3, <1>4 DEF AnswerInv, Reached

\* Any calls of the services, on any catalogue and failing anywhere: a "not
\* found" after a statement that succeeded is true and has a cause.
THEOREM NotFoundHasCauseCorrect ==
    ASSUME PlansFit, PlansWellFormed, PlansAnswer
    PROVE  Spec => NotFoundHasCause
<1>1. Init => SInv /\ IInv /\ RInv
    BY InitSInv, InitIInv, InitRInv
<1>2. SInv /\ IInv /\ RInv /\ [Next]_vars => SInv' /\ IInv' /\ RInv'
    BY StepSInv, StepIInv, StepRInv
<1>3. SInv /\ IInv /\ RInv /\ [Next]_vars =>
          [\A c \in Callers :
               plan[c].mode # "read" /\ pc[c] = "reread" /\ pc'[c] = "not_found" =>
                   \/ overtaken[c]
                   \/ todo[c][1].does = "move" /\ Durable[plan[c].at] # Absent]_vars
    BY NotFoundStep
<1>. QED
    BY <1>1, <1>2, <1>3, PTL DEF Spec, NotFoundHasCause
=============================================================================
