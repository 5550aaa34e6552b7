------------------------------- MODULE MC_Load -------------------------------
(* Two callers on one table, with each entry point and every policy it takes. *)
EXTENDS Load

CONSTANTS l1, l2

CallOf(entry, policy, keep, cleanup) ==
    [entry |-> entry, policy |-> policy, keepStaging |-> keep, cleanupOnFailure |-> cleanup]

MCCalls ==
    {CallOf("create_and_load", "fail", FALSE, TRUE),
     CallOf("create_and_load", "append", FALSE, TRUE),
     CallOf("create_and_load", "truncate", FALSE, FALSE),
     CallOf("create_and_load", "replace", FALSE, TRUE),
     CallOf("load_local_file", "fail", FALSE, FALSE),
     CallOf("load_local_file", "append", FALSE, FALSE),
     CallOf("load_local_file", "truncate", TRUE, FALSE),
     CallOf("import_table_from_url", "append", FALSE, FALSE),
     CallOf("import_table_from_url", "truncate", FALSE, FALSE),
     CallOf("import_table_from_url", "fail", FALSE, FALSE),
     CallOf("import_table_from_url", "replace", FALSE, FALSE),
     CallOf("copy_into_from_url", "fail", FALSE, FALSE),
     CallOf("copy_into_from_url", "append", FALSE, FALSE)}
=============================================================================
