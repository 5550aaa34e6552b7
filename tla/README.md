# Verification of fabric-dw

`fabric-dw` is a command line (`fdw`), a Python library and an MCP server for
Microsoft Fabric data warehouses. Everything under `src/src/fabric_dw/` talks to
two remote services, the Fabric REST API and a SQL server, and keeps two files on
disk, a lookup cache and the user's config. The hard part of the program is what
happens when those services throttle, lag, lose answers or fail half-way, and when
several coroutines, threads or processes do it at once. That is what is modelled
here.

Paths without a prefix are below `src/src/fabric_dw/`. `PROJECT.json` lists the
components, the runs, the hazards, and for each definition the lines it models.

## 1. The system

### Components and their state

| Component | Source | State it keeps | Operations | Modelled |
|---|---|---|---|---|
| HTTP client | `http_client.py` | rate limiter, token cache with lock, 429 pause deadline | `request`, `poll_operation`, `get_operation_result`, `iter_paginated` | partly: `HttpClient`, `Lro` |
| SQL runner | `sql.py`, `sql_pool.py`, `sql_errors.py` | one connection per call | `run_query`, `run_statements` | `SqlConnect`, `SqlQuery`, `SqlBatch`, `SqlRunner`, `SqlCall` |
| Lookup cache | `cache.py` | a JSON file and a lock file, shared by processes | get, put, evict, clear | `CacheContent`, `AtomicCache`, `LookupCache` |
| Resolver | `resolver.py`, `_fabric_api.py` | none (uses the cache) | `workspace_id`, `item`, `connection_string` | partly: `ItemLookup`, `McpGuards` |
| Warehouse and snapshot items | `services/warehouses.py`, `services/snapshots.py` | none; the service's items | create, rename, delete, takeover, roll timestamp | partly: `ItemLookup`, `Lro`, `SqlServices` |
| LRO helper | `services/_lro.py` | none | `resolve_lro_item_id` | `Lro` |
| Other REST services | `services/restore.py`, `permissions.py`, `workspaces.py`, ... | none | one request or listing each; `create_point` is an operation | partly: `Lro` |
| Settings documents | `services/audit.py`, `sql_pools.py` | the service's documents | read, change, write back | `Settings` |
| SQL object services | `services/tables.py`, `views.py`, `schemas.py`, `rls.py`, ... | none; the database | DDL and reads over the SQL runner | partly: `SqlServices`, `SqlObjects` |
| Database settings, live queries | `services/settings.py`, `queries.py`, `query_insights.py`, `sql_exec.py` | none | one statement each | partly: `SqlServices`, `SqlObjects` |
| Data loading | `services/load.py`, `mcp/tools/load.py`, `cli/commands/tables.py` | a staging Lakehouse, a table | `create_and_load`, `load_local_file`, `copy_into_from_url` | partly: `Load` |
| SQL endpoints | `services/sql_endpoints.py` | none | metadata refresh, discovery cross-check | partly: `Lro` |
| Concurrency helper | `services/_concurrency.py` | a task group and a semaphore | `bounded_gather` | partly: `HttpClient` |
| MCP server and tools | `mcp/` | HTTP client, cache, guard settings for the life of the process | 123 tools behind guards | partly: `McpTools`, `McpGuards` |
| CLI | `cli/_main.py`, `cli/_context.py`, `cli/commands/` | one context per command | commands that resolve a name and call one service | partly: `CliCommands`, `Cli` |
| Configuration | `config.py`, `config_resolve.py` | a TOML file and a lock file | load, set, unset, clear, precedence of the layers | `Config`, `Cli` |
| Plans, schema inference, formatting, rendering, models, authentication | `plan/`, `services/schema_infer.py`, `cli/_render.py`, `models.py`, `auth.py` | none | pure functions and wiring | no, see section 6 |

### How they interact

A CLI command is one process with one event loop: it takes its options from the
command line, the environment and the *config*, resolves a workspace and an item
through the *resolver*, which reads the *cache* and on a miss asks the *HTTP
client*; then it calls one *service*, which uses the HTTP client or, in a worker
thread, the *SQL runner*. The MCP server does the same for many tool calls at a
time on one event loop, so its coroutines share the HTTP client's token, pause and
limiter, and the cache. Cache methods run in worker threads; CLI processes and the
server share the cache file, and the config file, through lock files.

`rename` and `delete` keep the cache up to date when they are handed one.
`create_and_load` calls `load_local_file`, which creates an item (an operation
to be polled), uploads to OneLake, runs a `COPY INTO` and deletes the item again
in a `finally`. A service on database objects checks the kind of item, runs its
statements on one connection and reads the object back on another.

### What is hard

* **Retries inside retries.** A request is retried by tenacity around a loop
  that counts 429s; a query is retried around a connect that retries by itself.
  A retry must not repeat what the server has done, and all of it must end.
* **Awaits and shared state.** Token, pause and limiter are read before an await
  and used after it.
* **Answers that say nothing.** A lost answer, a commit that raises, a 2xx
  without a body: the server may or may not have acted.
* **Lag.** A new item is missing from lists, its `/result` is a 404, its
  properties are empty, its name in the cache is the old one, a settings document
  is an old version.
* **Read, change, write back.** Settings, the cache and the config are whole
  documents; only the last two have a lock.
* **Processes.** Several share the files, and any may be killed.
* **One step of several fails.** Cleanup code then runs on what it believes; a
  sequence of DDL statements stops in the middle.
* **Names.** A qualified name stands for another object by the time it is used, and
  a workspace name for another workspace.

`PROJECT.json` lists these as hazards, each at its line, with the properties
that would notice it going wrong.

## 2. The modules

```
HttpClient \                            CacheContent <- LookupCache (refines AtomicCache) \
Lro        <- RestProofs                            \- ItemLookup  <----------------- CacheProofs
SqlConnect <- SqlQuery (refines SqlCall) <- SqlRunner <- SqlRunnerProofs
           <- SqlBatch
SqlServices <- SqlObjects <- SqlObjectsProofs
Settings    <- SettingsProofs           McpTools, CacheContent <- McpGuards <- McpGuardsProofs
Load        <- LoadProofs               McpTools <- CliCommands \
                                        Config   <--------------- Cli <- ConfigProofs
```

An arrow is `EXTENDS`; each `MC_...` module extends one module and gives TLC its
constants. `LookupCache` instantiates `AtomicCache`, `SqlQuery` instantiates
`SqlCall`, and `SqlRunner` has one `SqlBatch` beside the `SqlQuery` it extends. The
modules are stacked by what one shows and the next assumes: `ItemLookup` and `McpGuards`
take a cache method as one step because `LookupCache` implements `AtomicCache`;
`Load` and `SqlObjects` take a SQL statement as one step that returns and is
durable, or raises and may be durable, because that is what `SqlQuery`
(as `SqlCall`) and `SqlBatch` show; `Lro` takes a request as one step that ends,
which `HttpClient` shows; and `Settings` takes a PATCH as one that is carried out
at most once, which `HttpClient` shows as well.

### HttpClient (`http_client.py`)

Several coroutines share a client. An action is the code between two awaits of
one coroutine: `Request` starts the combined deadline, `CheckDeadline` is the top
of the 429 loop, `PassPause`, `UseCachedToken`, `StartTokenFetch`, `TokenArrives`
and `TokenFails` and `Send` are the awaits of `_send_once`, and `Succeed`,
`Refuse`, `FailForGood`, `Throttle` and `FailAttempt` are the answers as
`_map_status` and the tenacity predicate see them. `Cancel` is what
`bounded_gather` does to the siblings of a task that failed. A `Tick` moves the
clock; deadlines are kept as ticks that remain. `commits` counts how often the
server carried a request out, which the program cannot see.

### SqlConnect, SqlQuery, SqlBatch, SqlRunner, SqlCall (`sql.py`, `sql_pool.py`, `sql_errors.py`)

An exception is the set of what the code can tell of it (`capacity`,
`transient`, `auth_failed`, one of the program's own). `SqlConnect` has the
connect retry and `_translate_connect_error`; `SqlQuery` adds `run_query`:
execute, the execute retry with its deadline that starts at the first error, and
the commit. `SqlBatch` adds `run_statements` in its three commit modes. `SqlRunner`
is a call of one or of the other, each with variables of its own.
`pending` and `applied` are the effects on the server, in the open transaction
and durable. `SqlCall` is the abstract specification: no connections, no retries,
no time, only how often the statement may take effect and what the caller is told.
The refinement maps `effects` to `applied` and `result` to the kind of outcome.

### SqlServices, SqlObjects (`services/tables.py`, `views.py`, `functions.py`, `procedures.py`, `schemas.py`, `columns.py`, `statistics.py`, `rls.py`, `mask.py`, `permissions.py`, `settings.py`, `queries.py`, `query_insights.py`, `sql_exec.py`)

`SqlServices` has one definition per service function: a *plan*, which says
what kind of item the function accepts, which statements it sends, how they are
committed (`commit`, `autocommit`, `deferred`), what is read back afterwards, and
whether `run_query` may execute it again. `SqlObjects` carries plans out:
`Begin` is the guard, `List` the listing of a cascading `delete_schema`,
`RunStatement`, `StatementFails`, `AnswerLost`, `Commit` and `CommitFails` the
connection, `Reread` and `RereadFails` the read-back on another connection. The
server is a catalogue of qualified names. It keeps DDL locks to the end of a
transaction, so no other statement touches what an open transaction changed;
`before` is what a rollback brings back. `overtaken` remembers whether another
call changed what a call is about to read back.

### Settings (`services/audit.py`, `services/sql_pools.py`)

A call reads a document (`ReadAudit`, `ReadPools`), refuses or returns early, or
computes the whole body that `Patch` sends; `PatchFails` may have been carried out.
`auditSeen` are the versions a lagging audit GET may still return, `Settle` ends
the lag. Enable, disable and set_retention read the document again; the group
functions return what they sent.

### Config, CliCommands, Cli (`config.py`, `config_resolve.py`, `cli/`)

A config file gives each key a value, a value the parser drops, or nothing; it can
be absent or broken. `Config` has `load_config` (existence, lock with timeout,
read) and `set_config` and `clear_config` (lock, read of all sections, change of
one, temporary file, `os.replace`), with processes that are killed and writes that
fail at each step. `CliCommands` is a table of every command of the CLI: how it
finds its target, when it asks for confirmation, what it does to the server, and
the MCP tool that calls the same service. A command is `grave` when that tool is
guarded as destructive or its own effect is a removal. `Cli` runs any row: `Begin`
is the root group with its options, which may be repeated after the
subcommand, `LoadConfig` the lazily loaded config, `ResolveWorkspace` and
`ResolveWarehouse` the shared steps, `Connect` the building of the client and the
look-up (`warehouses list` and `sql-endpoints list` build the client first and
resolve the workspace after it), `Ask` the prompt at the point where the command has it, `Serve` the
service call. `config set`, `unset` and `clear` run `Config`'s steps. `known` is
what the file has said since the command began.

### CacheContent, AtomicCache, LookupCache (`cache.py`)

`CacheContent` says what each method makes of the document, with the freshness
test. `LookupCache` runs the methods as the code does: lock with a timeout, read
of the whole file, temporary file, `os.replace`, by processes that fail or are
killed anywhere. `AtomicCache` is what callers want: one atomic change of a
complete document per call. The refinement mapping is the identity on `file`.

### ItemLookup (`resolver.py`, `services/warehouses.py`, `services/snapshots.py`)

`Begin`, `Hit`, `Miss`, `List`, `Generic`, `Detail`, `Put` are `Resolver.item`
and `_fetch_item_detail`; `Patch`, `EvictOld`, `PutName`, `PutGuid` a rename;
`DeleteItem`, `EvictName`, `EvictGuid` a delete. `Fail` is a process that dies or
a call that raises, `Outsider` a change made in the portal, `ClearItems` the tool
`clear_cache`. `lastTrue` remembers when a name was last right.

### McpTools, McpGuards (`mcp/_guards.py`, `mcp/_helpers.py`, `mcp/tools/`, `resolver.py`)

`McpTools` is a table of the 123 tools that `register_all` registers, one
definition per file of `mcp/tools/` or block of one: which flags a tool asserts
and when, whose workspaces it works on, and whether its service reads, changes
or removes something (a PATCH or ALTER that takes an audit group or a predicate out of
a setting is a change). That is all that the guards depend on; the arguments and
the services behind the tools are not in the table. A call of `McpGuards` is any
row of it. `Submit` is `mutating_tool` and the tool up to its first await;
`TakeGuid`, `Hit`, `Miss`, `Answer` and `Put` are `Resolver.workspace_id`;
`Authorize` is the second workspace check, `Serve` the service call with the
check that `import_table_from_url` makes late. `Rename` is what others do to
workspaces; flags and lists stay as they are while the server runs.

### Load (`services/load.py`)

Several callers load into one table by the four ways the program offers. The
existence check, `TRUNCATE`, `DROP` and `CREATE` come first, each a statement on
a connection of its own; then staging, upload with its retry, `COPY INTO` (one
transaction with the `TRUNCATE` of a URL load), the `finally` that unstages and
the `except` that cleans up. `rows` counts loads by owner, so that a property
can say whose rows went.

### Lro (`http_client.py`, `services/_lro.py`, the create functions)

POST with its three answers (accepted, created, bare), `poll_operation`, then the
ways to the id of the new item: status body (Path A), `/result` (Path B), the
list (by name for a warehouse, by largest id for a restore point, Path C), and
the detail request of a snapshot. The kind `in_place` is an operation that
creates nothing: `restore_in_place` and `refresh_metadata`. The server may finish,
abort or never end an operation; a new item appears in lists and gets its
properties at any time; and others create items.

## 3. What the runs show

| Run | Instance | Shows |
|---|---|---|
| `http_requests` | 2 coroutines, GET and POST, 2 attempts, 2 429s, 2 sends per tick | the safety properties of the client, and that every request ends |
| `sql` | `run_query` with every argument combination, 3 execute and 2 connect delays, deadline of 5 ticks; or `run_statements` with 0 to 3 statements in 3 commit modes | `run_query` implements `SqlCall`; no doubled effect, no leaked connection, prefixes or the whole, an end |
| `sql_objects` | 2 calls of any 2 services, 2 schemas, 3 names, warehouse and endpoint | all or nothing, no false "not found", endpoint tables kept |
| `settings` | 3 calls of audit functions, or of pool functions | nothing unasked, valid pools, fresh writes keep the rest |
| `config_cli` | any command with 5 command lines, beside 2 commands that set, unset or clear | commands act where told, removals are agreed to, each change of the file is one request |
| `cache` | 2 processes, 7 calls | refinement of `AtomicCache`, every call ends |
| `lookup` | 2 clients (one without cache upkeep), 2 items, 3 names, failures | what is served is never older than the lifetime plus one fetch; a client that keeps the cache up undoes its own traces |
| `mcp_guards` | any tool call beside a read by name, 2 workspaces, 2 names, all flags, 4 settings of the lists | no call passes a gate that is closed to it, none is refused too early |
| `load` | 2 callers, each entry point with every policy it takes | see Load below |
| `lro` | 1 caller, 5 kinds of create, 3 items | see Lro below |
| `load_cleanup` | as `load` | **violation**: the cleanup drops rows that were loaded |
| `lro_id` | as `lro` | **violation**: an operation id is taken for an item's |

Every property of a passing run has a mutant: a definition changed as a
plausible bug would, on which the same run finds the property violated.

### Properties worth an explanation

* `NoDuplicateEffect`: the nested loops never let a POST, PATCH or DELETE take
  effect twice in one call. 429 is retried for every method (the server did
  nothing), 5xx and timeouts for safe methods only.
* `SendsBounded`, `AtMostOneLateSend`: the 429 count starts afresh with each
  tenacity attempt, so the limits multiply; the deadline is read before three
  awaits, so a send can come after it, but only one.
* `ImplementsSqlCall`: an effect is doubled only by a statement that runs under
  autocommit and fetches, or by one the operator allowed to be retried; a result
  under `commit` is durable; an error other than a failed commit left nothing
  behind. After a commit that raised either may be the case, and the program says
  so by raising. `NoDoubleApply` is the part of it that is easiest to break.
* `PrefixOrWhole`: a batch leaves a prefix of its list behind, under one deferred
  commit the whole or nothing, and executes no statement twice.
* `AllOrNothing` (SqlObjects): reclustering is copy, drop and rename, a cascade many
  drops: outside autocommit neither leaves a part, and a call that fails before its
  commit has changed nothing.
* `NotFoundHasCause`: the read-back is on another connection. When it says "not
  found" after a statement that succeeded, another call changed the object in
  between, or a rename or transfer took an object of another kind, which it does
  without asking.
* `EndpointKeepsTables`: the guards on the kind of item, and the filter of a
  cascade, hold the number of tables of an endpoint against every pair of calls. It counts
  tables; that `rename_view` or `transfer_view` moves a table (section 5) it does
  not notice.
* `NothingUnasked`: the audit GET may be old and the PATCH resets what it omits; still,
  no retention, group or switch comes up that nobody asked for.
  `FreshWriteKeepsTheRest` says what a call may change when its read was current;
  that a concurrent change is lost is documented, and is not a violation.
* `PoolsStayValid`: two updates that are each valid never add up to more than 100
  percent, because the list is written as a whole: the price is the lost update.
* `EachChangeIsOneRequest`: at every step of any process the config file stays as it is,
  becomes what one `set` makes of the file as it is then, or is removed by a `clear`.
* `ActsWhereTold`: each of workspace and item comes from the option, the environment
  or the file, in that order, and what comes from the file was in one version of it.
* `RemovalsConfirmed`: no way through a command that removes something misses both
  `--yes` and the prompt, wherever in the command the prompt is.
* `ImplementsAtomicCache`: no lost update, no torn file, whoever is killed.
* `BoundedStaleness`: the clock of an entry starts only after the answer that
  told the name, so the bound is the lifetime plus the time of one fetch.
* `OwnChangesNeedNoClear`: in a calm world, where the commands of a client with a
  cache run one after the other and nothing else happens, its renames and deletes
  leave nothing false in the cache.
* `ReadOnlyChangesNothing`, `RemovalsNeedBothFlags` (McpGuards): they relate what
  a service does to the flags, over every tool; some tools assert in their body,
  one only after it has found the table, `execute_sql` by the keywords of its text.
* `OnlyListedWorkspaces`: a call that names a workspace is let through by that name
  or by the GUID it led to. With a cache between, all that can be promised is that
  the name was right within the lifetime of an entry plus one fetch.
* `NoHastyDenial`: the first check must not refuse a name that leads to a workspace
  listed by GUID.
* `LoadedOnce`, `StagingRemoved`, `FailPolicyNeedsNewTable`,
  `FailedUrlLoadKeepsRows`, `CleanupSparesOldRows` (Load): rows count once; a
  staging Lakehouse whose id is known is deleted or reported; `fail` is kept by the
  entry points that look at the table (`create_and_load`, `import_table_from_url`),
  whatever other callers do after the look, those included that come in directly and
  pay no heed to the policy themselves (section 5); a failed URL load takes no rows away; the cleanup
  only ever drops a table that its own call had made.
* `OneItemPerCall`, `ReturnsOwnItem`, `ReturnsOnlyAfterSuccess`, `SnapshotHasParent`,
  `PathCNotOlder` (Lro): a bare 2xx never leads to a second POST; the item returned
  is the caller's; nothing is returned for an operation that failed or goes on; a
  snapshot has its parent; Path C never answers with a point older than the
  caller's once that one is listed.

### Bounds

* Two callers of the client, of the cache, of a load and of the SQL services: their
  shared state is a lock, a maximum, a file, a table or a catalogue, and each
  conflict is between two. The client's two methods are one on each side of the
  retry predicate. The proofs cover any number.
* Two attempts and two 429s make every branch of both loops happen, the last
  and the one before; Retry-After goes beyond the deadline.
* Three execute delays and a deadline of five ticks: either limit is reached
  first in some behaviour. The clock stands still once nothing waits for it.
* Three statements have a first, a middle and a last.
* `sql_objects`: one name that is taken by a table, a view or a function, one that is
  free, one for the scratch table, and a second schema that may be missing: each
  statement may be accepted and refused. `AnswerLost` happens once in a call.
* `settings`: three calls, so that a stale document can undo two changes, or one
  change be made between the read and the write of two others. Two groups, two
  retentions beside the first one, two pools whose shares fit together in some
  requests and not in others, and arguments that the functions refuse.
* `config_cli`: five command lines give each of workspace, item, mode and `--yes` at
  each place and at none, also each over the next one. The other process changes the
  file twice, so that one command can see three versions of it.
* In `lookup` a world is calm or not. In the calm one, two items and three names let a
  name move from one item to another and back; the other one has one item and two
  names, and everybody at once. `MaxTime` is past the end of an entry's life. The
  clock starts so late that a name which was never right is older than any bound.
* In `mcp_guards` the second call reads by name and so fills the cache for the
  first. The allowlists are none, a name, and a GUID with a name, the two sources
  of lists together giving each in each order. Renames and ticks go on while a
  call does.
* One caller in `lro`: creates meet only in the items they make, and
  `OtherItem` makes those of further callers. `MaxItems` is 3: the caller's own, an
  older and a newer one. What settles after the last call is back is cut off
  (`Looking`). Timeout 3 with waits up to 2 lets polling overshoot.
* Deadlock checking is off where calls simply end (all but `http_requests`, whose
  clock runs on).

### Fairness

* `HttpClient`: the clock runs, and each coroutine that can go on does. The event
  loop is fair, and httpx bounds the wait for an answer by its timeout.
  Cancellation and new requests are never owed.
* `SqlRunner`: the thread goes on; login and query timeouts bound every call.
* `LookupCache`: a process that is not killed goes on. A process that waits for the
  lock is owed either the lock or the timeout.
* `Load`, `Lro`: each caller goes on, as every request and statement ends. The
  server owes nothing: in `Lro` the operation may run for ever and the create still
  comes back.
* `SqlObjects`, `Settings`, `Cli`, `ItemLookup` and `McpGuards` have safety properties
  only and state no fairness: what one of their calls waits for ends by the above.

## 4. Proofs

Each proof module extends its component and proves the theorems for every value
of the constants that meets the module's `ASSUME`s. TLC evaluates these in the runs.

| Module | Theorems | Inductive invariant |
|---|---|---|
| `RestProofs` | `TypeCorrect`, `NoDuplicateEffectCorrect`, `SendsBoundedCorrect`, `AtMostOneLateSendCorrect`, `TokenLockCorrect`; `OneItemCorrect`, `ReturnsCorrect`, `SnapshotCorrect`, `PathCCorrect` | for `HttpClient`, `TypeOK` and `IInv`: an unsafe request has attempt 1 and no effect while it may be sent again; sends are accounted for attempt by attempt; after a late send only the deadline check is ahead; the lock is held exactly in `fetch`. For `Lro`, `LInv`: what a caller has made is one item of the kind and name it asked for, and none before its POST or while its operation runs; the places after polling are reached only by an operation that succeeded; warehouse names are unique, so a list by name finds the caller's own (`UniqueNames`) |
| `SqlRunnerProofs` | `QueryTypeCorrect`, `NoDoubleApplyCorrect`, `OutcomeCorrect`, `ConnectionsCorrect`, `ConnectFailureCorrect`, `QueryImplementsCall`; `RunnerRunsBoth`, `PrefixOrWholeCorrect` | for `SqlQuery`, `IInv`: connections follow the place of the call; nothing is applied in a transaction before its commit; a statement outside the retry boundary is executed once. For the refinement, `CallInv` adds what a call that goes on may have left on the server; each step then is a step of `SqlCall` or a stutter. For `SqlBatch`, `BatchInv`: in the middle of the list, what is pending and what is durable are the statements up to `next`, split as the commit mode says; `RunnerRunsBoth` carries it over to a runner whose other entry point is idle |
| `SqlObjectsProofs` | `AllOrNothingCorrect`, `EndpointKeepsTablesCorrect`, `NotFoundHasCauseCorrect` | `IInv`: every transaction has the statements up to `step` in it, and commits after the last. `SInv`: on an endpoint no statement still to be sent makes or drops a table (`TodoInv`), a name is in one open transaction at most (`LockInv`), and a transaction leaves as many tables as it found among the names it changed (`TableInv`), so that what is committed has as many after every commit and rollback. `RInv`: a call that reads something back holds the lock on that name from its last statement to the commit, and what it asked for is there, in the transaction and then in what is committed, unless another call has changed it since |
| `SettingsProofs` | `NothingUnaskedCorrect`, `PoolsValidCorrect`, `FreshWriteCorrect` | every version of the audit document that a read may return, and every body about to be sent, holds only what was there or asked for; every pool list about to be sent is valid; a body about to be sent is what the function makes of the document it read (`BodyInv`) |
| `ConfigProofs` | `OneInTheFileHolds`, `EachChangeIsOneRequestHolds`, `CommandsChangeByRequest`, `RemovalsConfirmedCorrect`, `ActsWhereToldCorrect` | the lock is held from the read to the replace, so the draft is still what the request makes of the file. For a command, `CliIInv`: past the place of its prompt it was told `--yes` or has been agreed to (`PromptInv`), which takes that every grave row of the table has a prompt (`KindsFit`) and that a command which goes back to load the config returns to the place it left (`PlaceInv`); what is settled before the config is loaded is what any config would have it, after that what the one loaded has (`ToldInv`), and that one stood in the file since the command began (`KnownInv`) |
| `CacheProofs` | `OneWriterCorrect`, `CacheImplementsAtomic`; `LookupCorrect`, `StalenessCorrect`, `OwnChangesCorrect` | for `LookupCache`, the lock is held exactly inside the section, and what a process will replace is what it read; `Replace` then maps to a step of `AtomicCache`, all else to a stutter. For `ItemLookup`, `LookupInv`: the timestamp of each entry of the file, and of each that a client is about to write, is at most `FetchSpan` later than a time at which its name was right (`Vouched`, `InFlight`), and a client between its read and its write is within that span. `CalmInv`: one command runs at a time, it knows its item, and every entry is right or stands under a key that this command is about to renew or evict |
| `McpGuardsProofs` | `McpTypeCorrect`, `ReadOnlyCorrect`, `RemovalsCorrect`, `AllowlistCorrect`, `DenialCorrect` | what the cache says of a name was right at most `FetchSpan` before its timestamp, and a call past a guard still satisfies it, since `lastTrue` only grows. That a tool which changes something asserts something is shown for the whole table (`RowFits`) |
| `LoadProofs` | `LoadTypeCorrect`, `LoadedOnceCorrect`, `StagingCorrect`, `FailPolicyCorrect`, `FailedUrlLoadCorrect`, `CleanupCorrect` | nothing is loaded before the copy; a known Lakehouse is ahead of its `finally`, or kept, or reported; under `fail` who is past the check has made the table; and once any caller has made the table, no row of before is left, which is why dropping it by name is harmless to them |

Assumptions of theorems beyond those of the modules:

* `SqlObjectsProofs`: the set `Plans` holds plans like those of `SqlServices`.
  `PlansWellFormed`: a plan that only reads sends no statement of its own.
  `PlansFit`: a plan that changes something sends one, and one that an endpoint
  accepts neither makes nor drops a table. `PlansAnswer`: a plan reads back what
  its statements made, at the name they made it. For each of
  the three, lemmas show that every service of `SqlServices` has such a plan for
  every argument (`TableServicesWellFormed`, ..., `TableWritesFit`, ...,
  `TableWritesAnswer`, ...), with two provisos. The scratch name of a reclustering
  is not the table's own, which the code's random suffix sees to. And a statement
  that the user hands to `execute` is no table DDL: the program has no guard there,
  and on an endpoint it is the server that refuses it.
* `NothingUnaskedCorrect`: `PoolRequestsAreOthers`, the two files have no function in
  common. `PoolsValidCorrect` and `FreshWriteCorrect`: pool requests are for the
  functions of `sql_pools.py` (`PoolRequestsFit`), and the pools are valid at first;
  `FreshWriteCorrect` also that a request which updates or deletes a pool names it
  and carries no whole one (`PoolRequestsNamed`).

`DatabaseAssumption` of `SqlObjects` says that there are finitely many names, so that
tables can be counted, and that a catalogue gives each an object or nothing.
`EachChangeIsOneRequestHolds` is about `config.py` alone, where any process asks for
anything; `CommandsChangeByRequest` is about the commands of the CLI beside one
another.

So every safety invariant, every action property and both refinements that a passing
run checks are theorems.
Model-checked only: liveness (`EveryRequestEnds`, `CallEnds`, `CallsEnd`, `LoadsEnd`,
`EveryCreateEnds`). Fairness is a statement about `ENABLED`, which the provers do not
handle. Proved only: the type invariants, `OutcomeMatchesServer` (which the run sees as
a part of `ImplementsSqlCall`), `OneWriterAtATime`, and that the token lock is held
exactly during a credential call (`LockOnlyWhileFetching`, which the run sees as
`EveryRequestEnds`: a lock that is kept stops every other caller).

## 5. What the code does and its documents do not say

Two disagreements are runs that end in a violation (section 3, `findings` in
`PROJECT.json`). These others were met while modelling and are described here only:

* "fail: Error if table exists" says the help of `tables load`
  (`cli/commands/tables.py:1226`). Without `--create` it holds for neither source: a
  file goes to `load_local_file`, before which only `truncate` is acted on (`:1473`),
  and `_load_cmd_url` is not handed the policy at all (`:1370`), so both load into a
  table that exists. The run `load` has both calls among those of its callers;
  `FailPolicyNeedsNewTable` does not speak of them.
* An aborted confirmation exits 1 according to `docs/reference/exit-codes.md:10`; the
  commands print "Aborted." and return 0, the policy of `cli/commands/_utils.py:528`.
* "In CLI, destructive commands prompt for confirmation" says
  `docs/guides/warehouse-performance.md:284`; `sql-endpoints refresh --recreate-tables`
  does not (`cli/commands/sql_endpoints.py:175`). `RemovalsConfirmed` leaves it out.
* `load_config` "never raises" (`config.py:273`), but does on a file that is not UTF-8:
  only `OSError` and lock timeouts are caught.
* A key of the config file whose value the parser drops is lost for good when `set`
  changes another one: what is written back is what was parsed.
* `rename_view`, `transfer_view` and their like take whatever object has the name; the
  object is moved and the call then raises that it was not found.
* A 429 pause that another coroutine sets after a caller has passed the pause
  check does not hold that caller back (`http_client.py:582`).
* The pause of a Retry-After is slept in full even when it goes beyond the
  combined deadline; the deadline is looked at afterwards (`http_client.py:584`).
* `poll_operation` sleeps a whole Retry-After between two looks at its timeout, so
  it ends up to one wait late.
* Under autocommit a statement that fetches is retried although the server may
  have applied it (`sql.py:546`); the comment at `sql.py:368` calls that safe.
  With `sql_retry_executes` the same goes for statements that fetch nothing.
* `conn.cursor()` of `run_statements` is called before the `try` whose `finally`
  closes the connection (`sql.py:663`): the connection leaks when it raises.
* `snapshots.create` insists on a `Location` header: a 201 with the item in its
  body raises although the snapshot exists.
* The MCP tools `rename_warehouse` and `delete_warehouse` hand no cache to the
  services (`mcp/tools/warehouses.py:145`, `:163`), so the old name and the GUID
  serve the old entry for up to 24 hours. `docs/concepts.md:56` asks for a cleared
  cache only "after renaming items outside this tool". In `lookup` the client that
  is not in `CacheAware` is such a tool.
* When a name is let through to the lookup, the item is looked up as well before
  the second workspace check (`mcp/_helpers.py:332`): a read of a workspace that
  then turns out not to be listed.
* A GUID argument is refused when its workspace is listed by name only.
* `execute_sql` asks for read-only mode but never for the destructive flag, so a
  `DROP` goes through it where the tool that drops is closed. `RemovalsNeedBothFlags`
  leaves it out.
* `clear_cache` counts entries before it clears, in a second lock of the file; the
  counts it returns may be those of before another call's write.
* A rename can be undone in the cache by a resolver that read the old name before
  it and writes after it; `BoundedStaleness` bounds for how long.
* `cleanup_on_failure` drops the table by name: rows that another caller added to
  it meanwhile go too.
* Path C of a restore point can return a newer point of another creator.

## 6. Not modelled, and why

* Pure functions without state: query plans, schema inference, rendering, quoting
  of identifiers, result files, the models. They are parsing and formatting, and what
  they would be checked against is their own text.
* Authentication: wiring around azure-identity. The credential is what `HttpClient` asks.
* The `item_type` filter of `Resolver.item`: no caller of the program hands it over.
* The text of statements: column lists, bodies, filters, and the validators of SELECT
  bodies and identifiers, which end a call before its plan begins.
* The discovery cross-check of `sql_endpoints.py`, the listings of warehouses and
  snapshots, pagination, and the REST services that are one request each: they read, or
  what can go wrong with one request is in `HttpClient`.
* Clock skew between hosts that share a cache file; dropping of single corrupt
  buckets; the append and flush requests of one upload; a config file that is not UTF-8.
* In the MCP server: the canonical forms of a GUID, the keyword scan of
  `assert_readonly_sql`, the transport and the lifespan.
* In the CLI: rendering, help, the shifting of positional arguments, exit codes.
* Cancellation of `Load`, `Lro` and `SqlObjects` by Ctrl-C other than as a kill or a
  failure of the step.

## 7. Plan

What remains, in order:

1. Refinements of abstract specifications beyond `SqlCall` and `AtomicCache`, where a
   module takes for granted what another one shows: a request of `Lro` and a PATCH of
   `Settings` against `HttpClient`.
2. `BoundedGather` with its semaphore, and pagination against lists that change.
