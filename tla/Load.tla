-------------------------------- MODULE Load --------------------------------
(***************************************************************************)
(* Loading a file into a table (services/load.py): create_and_load,        *)
(* load_local_file through a staging Lakehouse, and COPY INTO from a URL   *)
(* as the CLI and the MCP tools call it, by several callers on one table.  *)
(*                                                                         *)
(* A SQL statement is one step of run_query or run_statements: it returns  *)
(* and is durable, or it raises and is durable or not (SqlQuery, SqlBatch).*)
(***************************************************************************)
EXTENDS Naturals

CONSTANTS
    Loaders,        \* callers, one call each
    Old,            \* whoever loaded the rows that were there before
    Calls,          \* what they may call
    CreateRetries   \* _DFS_CREATE_MAX_RETRIES

\* load_local_file and copy_into_from_url called by the CLI take the table as
\* it is; import_table_from_url looks at it first.
Direct == {"load_local_file", "copy_into_from_url"}
FromUrl == {"copy_into_from_url", "import_table_from_url"}
Entries == Direct \cup FromUrl \cup {"create_and_load"}
Policies == {"fail", "append", "truncate", "replace"}

\* The CLI sends replace to create_and_load only, and truncate never to a URL.
ASSUME LoadAssumption ==
    /\ Old \notin Loaders
    /\ Calls \subseteq [entry : Entries, policy : Policies, keepStaging : BOOLEAN,
                        cleanupOnFailure : BOOLEAN]
    /\ \A c \in Calls : c.entry \in Direct => c.policy # "replace"
    /\ \A c \in Calls : c.entry = "copy_into_from_url" => c.policy # "truncate"
    /\ CreateRetries \in Nat \ {0}

VARIABLES
    table,      \* the table: whether it exists and whose rows it holds
    pc,         \* where each caller is
    call,       \* what it called
    created,    \* we_created
    lake,       \* its staging Lakehouse
    tries,      \* attempts of the DFS create
    outcome,    \* what the call is about to return or raise
    copies      \* COPY INTOs of the caller that were committed

vars == <<table, pc, call, created, lake, tries, outcome, copies>>

Owners == Loaders \cup {Old}
NoRows == [o \in Owners |-> 0]
Absent == [exists |-> FALSE, rows |-> NoRows]
Empty == [exists |-> TRUE, rows |-> NoRows]
WithRowsOf(t, l) == [t EXCEPT !.rows[l] = @ + 1]

Init ==
    /\ table \in {Absent, Empty, WithRowsOf(Empty, Old)}
    /\ pc = [l \in Loaders |-> "start"]
    /\ call \in [Loaders -> Calls]
    /\ created = [l \in Loaders |-> FALSE]
    /\ lake = [l \in Loaders |-> "none"]
    /\ tries = [l \in Loaders |-> 1]
    /\ outcome = [l \in Loaders |-> "none"]
    /\ copies = [l \in Loaders |-> 0]

Goto(l, place) == pc' = [pc EXCEPT ![l] = place]
Ends(l, how) == outcome' = [outcome EXCEPT ![l] = how]

\* What a statement that raises may leave behind, when it could run at all.
Leaves(t, possible) == IF possible THEN {table, t} ELSE {table}

-----------------------------------------------------------------------------
\* The if_exists policies, by what _table_exists told.
IgnoreExisting(c, exists) ==
    IF c.entry \in FromUrl THEN "copy" ELSE IF exists THEN "stage" ELSE "create"

AfterCheck(c, exists) ==
    IF c.entry \in FromUrl
    THEN IF exists /\ c.policy \in {"append", "truncate"} THEN "copy" ELSE "refused"
    ELSE IF ~ exists THEN "create"
    ELSE CASE c.policy = "fail"     -> "refused"
           [] c.policy = "append"   -> "stage"
           [] c.policy = "truncate" -> "truncate"
           [] c.policy = "replace"  -> "drop"

CheckExists(l) ==
    /\ pc[l] = "start"
    /\ call[l].entry \notin Direct
    /\ LET next == AfterCheck(call[l], table.exists) IN
       IF next = "refused" THEN Goto(l, "done") /\ Ends(l, "refused")
                           ELSE Goto(l, next) /\ UNCHANGED outcome
    /\ UNCHANGED <<table, call, created, lake, tries, copies>>

\* The CLI without --create: it truncates first when told to, and looks at no
\* other policy.
StartDirect(l) ==
    /\ pc[l] = "start"
    /\ call[l].entry \in Direct
    /\ Goto(l, IF call[l].entry \in FromUrl THEN "copy"
               ELSE IF call[l].policy = "truncate" THEN "truncate" ELSE "stage")
    /\ UNCHANGED <<table, call, created, lake, tries, outcome, copies>>

Truncate(l) ==
    /\ pc[l] = "truncate"
    /\ table.exists
    /\ table' = Empty
    /\ Goto(l, "stage")
    /\ UNCHANGED <<call, created, lake, tries, outcome, copies>>

Drop(l) ==
    /\ pc[l] = "drop"
    /\ table.exists
    /\ table' = Absent
    /\ Goto(l, "create")
    /\ UNCHANGED <<call, created, lake, tries, outcome, copies>>

CreateTable(l) ==
    /\ pc[l] = "create"
    /\ ~ table.exists
    /\ table' = Empty
    /\ created' = [created EXCEPT ![l] = TRUE]
    /\ Goto(l, "stage")
    /\ UNCHANGED <<call, lake, tries, outcome, copies>>

\* The existence check or one of these statements raises: nothing has been
\* staged, and we_created is not set.
PrepareFails(l) ==
    /\ \/ pc[l] = "start" /\ UNCHANGED table
       \/ pc[l] = "truncate" /\ table' \in Leaves(Empty, table.exists)
       \/ pc[l] = "drop" /\ table' \in Leaves(Absent, table.exists)
       \/ pc[l] = "create" /\ table' \in Leaves(Empty, ~ table.exists)
    /\ Goto(l, "done")
    /\ Ends(l, "failed")
    /\ UNCHANGED <<call, created, lake, tries, copies>>

-----------------------------------------------------------------------------
\* load_local_file.

\* create_staging_lakehouse returns the id.
Stage(l) ==
    /\ pc[l] = "stage"
    /\ lake' = [lake EXCEPT ![l] = "known"]
    /\ Goto(l, "upload")
    /\ UNCHANGED <<table, call, created, tries, outcome, copies>>

\* The conversion of the file, or create_staging_lakehouse, raises: no finally
\* deletes a Lakehouse whose id never arrived.
StageFails(l) ==
    /\ pc[l] = "stage"
    /\ \E left \in {"none", "unknown"} : lake' = [lake EXCEPT ![l] = left]
    /\ Ends(l, "failed")
    /\ Goto(l, "raised")
    /\ UNCHANGED <<table, call, created, tries, copies>>

\* onelake_upload_file: only the DFS create is repeated, on a transient status.
TriesLeft(l) == tries[l] < CreateRetries
CountTry(l) == tries' = [tries EXCEPT ![l] = @ + 1]

RetryUpload(l) ==
    /\ pc[l] = "upload"
    /\ TriesLeft(l)
    /\ CountTry(l)
    /\ UNCHANGED <<table, pc, call, created, lake, outcome, copies>>

Upload(l) ==
    /\ pc[l] = "upload"
    /\ Goto(l, "copy")
    /\ UNCHANGED <<table, call, created, lake, tries, outcome, copies>>

StartOver(l) == Goto(l, "stage") /\ UNCHANGED outcome
RaiseUpload(l) == Ends(l, "failed") /\ Goto(l, "unstage")

UploadFails(l) ==
    /\ pc[l] = "upload"
    /\ RaiseUpload(l)
    /\ UNCHANGED <<table, call, created, lake, tries, copies>>

-----------------------------------------------------------------------------
\* copy_into_from_url.

TruncateFirst(l) == call[l].entry \in FromUrl /\ call[l].policy = "truncate"
Copied(l) == WithRowsOf(IF TruncateFirst(l) THEN Empty ELSE table, l)

\* Where the copy leads: a staged one to the finally block that unstages.
AfterCopy(l) == IF call[l].entry \in FromUrl THEN "done" ELSE "unstage"

CopyInto(l) ==
    /\ pc[l] = "copy"
    /\ table.exists
    /\ table' = Copied(l)
    /\ copies' = [copies EXCEPT ![l] = @ + 1]
    /\ Ends(l, "result")
    /\ Goto(l, AfterCopy(l))
    /\ UNCHANGED <<call, created, lake, tries>>

\* TRUNCATE and COPY INTO share a transaction: neither or both are left.
TruncateAlone(l) == UNCHANGED copies /\ table' \in Leaves(Empty, TruncateFirst(l))
BothOrNone(l) ==
    \/ UNCHANGED <<table, copies>>
    \/ /\ table.exists
       /\ table' = Copied(l)
       /\ copies' = [copies EXCEPT ![l] = @ + 1]

RetryCopy(l) == Goto(l, "copy") /\ UNCHANGED outcome
RaiseCopy(l) == Ends(l, "failed") /\ Goto(l, AfterCopy(l))

CopyFails(l) ==
    /\ pc[l] = "copy"
    /\ BothOrNone(l)
    /\ RaiseCopy(l)
    /\ UNCHANGED <<call, created, lake, tries>>

-----------------------------------------------------------------------------
\* The finally block of load_local_file, and what the caller's except does.

SkipFailed(l) == call[l].keepStaging \/ outcome[l] = "failed"
KeepStaging(l) == call[l].keepStaging

AfterLoad(l) ==
    Goto(l, IF outcome'[l] = "result" THEN "done" ELSE "raised")

\* delete_lakehouse, for which a 404 is as good as a success.
Unstage(l) ==
    /\ pc[l] = "unstage"
    /\ lake' = IF KeepStaging(l) THEN lake ELSE [lake EXCEPT ![l] = "gone"]
    /\ UNCHANGED outcome
    /\ AfterLoad(l)
    /\ UNCHANGED <<table, call, created, tries, copies>>

\* The exception of the finally block takes the place of the result.
UnstageFails(l) ==
    /\ pc[l] = "unstage"
    /\ ~ KeepStaging(l)
    /\ \E left \in {"known", "gone"} : lake' = [lake EXCEPT ![l] = left]
    /\ Ends(l, "unstage_failed")
    /\ AfterLoad(l)
    /\ UNCHANGED <<table, call, created, tries, copies>>

\* except Exception of create_and_load.
CleanupWanted(l) == call[l].entry = "create_and_load" /\ call[l].cleanupOnFailure
MustCleanUp(l) == CleanupWanted(l) /\ created[l]

Reraise(l) ==
    /\ pc[l] = "raised"
    /\ ~ MustCleanUp(l)
    /\ Goto(l, "done")
    /\ UNCHANGED <<table, call, created, lake, tries, outcome, copies>>

\* DROP TABLE, whose own failure is only logged.
CleanUp(l) ==
    /\ pc[l] = "raised"
    /\ MustCleanUp(l)
    /\ table' \in Leaves(Absent, table.exists)
    /\ Goto(l, "done")
    /\ UNCHANGED <<call, created, lake, tries, outcome, copies>>

\* The process is killed.
Kill(l) ==
    /\ pc[l] \notin {"start", "done"}
    /\ Goto(l, "done")
    /\ Ends(l, "killed")
    /\ UNCHANGED <<table, call, created, lake, tries, copies>>

Work(l) ==
    \/ CheckExists(l)
    \/ StartDirect(l)
    \/ Truncate(l)
    \/ Drop(l)
    \/ CreateTable(l)
    \/ PrepareFails(l)
    \/ Stage(l)
    \/ StageFails(l)
    \/ RetryUpload(l)
    \/ Upload(l)
    \/ UploadFails(l)
    \/ CopyInto(l)
    \/ CopyFails(l)
    \/ Unstage(l)
    \/ UnstageFails(l)
    \/ Reraise(l)
    \/ CleanUp(l)

Next == \E l \in Loaders : Work(l) \/ Kill(l)

Spec == Init /\ [][Next]_vars

\* Requests and statements end by their own timeouts, and the coroutine goes on.
FairSpec == Spec /\ \A l \in Loaders : WF_vars(Work(l))

-----------------------------------------------------------------------------
(* Properties. *)

\* Every variable stays in its set; the DFS create is tried no more often than
\* it may be, and a table that does not exist holds no rows.
TypeOK ==
    /\ table \in [exists : BOOLEAN, rows : [Owners -> Nat]]
    /\ ~ table.exists => table.rows = NoRows
    /\ pc \in [Loaders -> {"start", "truncate", "drop", "create", "stage", "upload",
                           "copy", "unstage", "raised", "done"}]
    /\ call \in [Loaders -> Calls]
    /\ created \in [Loaders -> BOOLEAN]
    /\ lake \in [Loaders -> {"none", "unknown", "known", "gone"}]
    /\ tries \in [Loaders -> 1..CreateRetries]
    /\ outcome \in [Loaders -> {"none", "result", "refused", "failed",
                                "unstage_failed", "killed"}]
    /\ copies \in [Loaders -> Nat]

\* A call loads its rows at most once, however it fails; a result means that
\* it has, a refusal that it has not.
LoadedOnce ==
    \A l \in Loaders :
        /\ copies[l] <= 1
        /\ outcome[l] = "result" => copies[l] = 1
        /\ outcome[l] = "refused" => copies[l] = 0

\* A call that comes back leaves no staging Lakehouse it knows of behind,
\* unless it was told to keep it or says that it could not delete it.
StagingRemoved ==
    \A l \in Loaders :
        pc[l] = "done" /\ lake[l] = "known" =>
            call[l].keepStaging \/ outcome[l] \in {"unstage_failed", "killed"}

\* if_exists="fail" at the entry points that look at the table (create_and_load
\* and import_table_from_url): whatever others do after the look, such a call
\* only ever loads into a table that it made itself, and from a URL not at all.
\* The direct ones, tables load without --create, pay no heed to this policy.
FailPolicyNeedsNewTable ==
    \A l \in Loaders :
        call[l].policy = "fail" /\ call[l].entry \notin Direct /\ copies[l] > 0 => created[l]

\* When a URL load moves on and somebody's rows go, its own have come.
UrlLoadKeepsRows ==
    \A l \in Loaders :
        call[l].entry \in FromUrl /\ pc'[l] # pc[l]
        /\ (\E o \in Owners : table'.rows[o] < table.rows[o])
        => copies'[l] > copies[l]

\* A URL load that truncates first takes rows away only in the step that puts
\* its own in: a failed load leaves the existing rows intact.
FailedUrlLoadKeepsRows == [][UrlLoadKeepsRows]_vars

\* The step that leaves the except clause takes none of o's rows.
CleanupSparesRowsOf(l, o) ==
    pc[l] = "raised" /\ pc'[l] = "done" => table'.rows[o] >= table.rows[o]

\* A pre-existing table is never dropped by the cleanup: whatever the other
\* callers did meanwhile, it takes away no row that was there before them all.
CleanupSparesOldRows == [][\A l \in Loaders : CleanupSparesRowsOf(l, Old)]_vars

\* Every load that has started comes to an end.
LoadsEnd == \A l \in Loaders : pc[l] = "stage" ~> pc[l] = "done"

-----------------------------------------------------------------------------
(* What the documentation says and the code does not do. *)

\* "drop the table if WE created it in this call and the subsequent COPY INTO
\* fails": the rows of a COPY INTO that was committed stay.
CleanupSparesLoadedRows == [][\A l \in Loaders : CleanupSparesRowsOf(l, l)]_vars
=============================================================================
