------------------------------ MODULE SqlQuery ------------------------------
(***************************************************************************)
(* run_query (sql.py): one statement on a connection of its own, with      *)
(* connect-phase retry, execute-phase retry and one commit, against a      *)
(* server that may apply a statement whose answer is lost.                 *)
(***************************************************************************)
EXTENDS SqlConnect

CONSTANT ExecuteDelays     \* _EXECUTE_RETRY_DELAYS, in ticks

ASSUME ExecuteAssumption ==
    /\ ExecuteDelays \in Seq(Nat \ {0})
    /\ Len(ExecuteDelays) > 0

VARIABLES
    fetch, commit, autocommit,  \* arguments of the call
    retryExecutes,              \* _resolve_sql_retry_executes()
    executeAttempt,             \* execute_attempt, from 1
    executeLeft,                \* ticks to execute_deadline
    deadlineSet,                \* execute_deadline is not None
    pending,                    \* effects in the open transaction
    applied,                    \* effects that are durable on the server
    executes,                   \* times cursor.execute was begun
    commitTried                 \* conn.commit() was called

argVars == <<fetch, commit, autocommit, retryExecutes>>
execVars == <<executeAttempt, executeLeft, deadlineSet>>
serverVars == <<pending, applied, executes, commitTried>>
vars == <<pc, outcome, connectVars, argVars, execVars, serverVars>>

Fetches == {"all", "one", "none", "rowcount"}

\* What map_driver_error, is_transient_connection_error and the ddbc_error
\* attribute tell about a failure of execute or fetch.
ExecuteErrors == SUBSET {"mapped", "transient", "ddbc"}

MaxExecuteAttempts == Len(ExecuteDelays) + 1

\* execute_retry_allowed
AlwaysAllowed == TRUE
ExecuteRetryAllowed == fetch # "none" \/ retryExecutes

\* A classified SQL error is the server's refusal of the statement; any other
\* failure may have hit before or after the server ran it.
MayHaveRun(e) == "mapped" \notin e

RaisedFor(e) == IF "mapped" \in e THEN "mapped"
                ELSE IF "ddbc" \in e THEN "server_error" ELSE "raw"

-----------------------------------------------------------------------------
Init ==
    /\ pc = "start"
    /\ outcome = [kind |-> "none", error |-> {}]
    /\ ConnectInit
    /\ fetch \in Fetches
    /\ commit \in BOOLEAN
    /\ autocommit \in BOOLEAN
    /\ retryExecutes \in BOOLEAN
    /\ executeAttempt = 1
    /\ executeLeft = 0
    /\ deadlineSet = FALSE
    /\ pending = 0
    /\ applied = 0
    /\ executes = 0
    /\ commitTried = FALSE

Start ==
    /\ pc = "start"
    /\ EnterConnect
    /\ UNCHANGED <<outcome, argVars, execVars, serverVars>>

Connect == ConnectStep /\ UNCHANGED <<argVars, execVars, serverVars>>

\* The server runs the statement: durable at once under autocommit, else part
\* of the transaction of the connection.
Effect(n) ==
    IF autocommit THEN applied' = applied + n /\ UNCHANGED pending
                  ELSE pending' = pending + n /\ UNCHANGED applied

\* conn.close(): an open transaction is rolled back.
LeaveOpen == UNCHANGED <<conns, pending>>
Close == conns' = conns - 1 /\ pending' = 0

\* _execute_and_fetch returns.
ExecuteOk ==
    /\ pc = "opened"
    /\ executes' = executes + 1
    /\ Effect(1)
    /\ pc' = "commit"
    /\ UNCHANGED <<outcome, connectVars, argVars, execVars, commitTried>>

\* The statement reaches the server and its answer, or its rows, do not.
Execute ==
    /\ pc = "opened"
    /\ executes' = executes + 1
    /\ \E n \in {0, 1} : Effect(n)
    /\ pc' = "failing"
    /\ UNCHANGED <<outcome, connectVars, argVars, execVars, commitTried>>

\* The server refuses the statement.
Refused ==
    /\ pc = "opened"
    /\ executes' = executes + 1
    /\ pc' = "refused"
    /\ UNCHANGED <<outcome, connectVars, argVars, execVars, pending, applied,
                   commitTried>>

\* The execute or fetch raised e, and e is not retried: close and raise.
GiveUp(e) ==
    /\ \/ pc = "refused" /\ ~ MayHaveRun(e)
       \/ pc = "failing" /\ MayHaveRun(e)
    /\ ~ ("transient" \in e /\ "mapped" \notin e /\ ExecuteRetryAllowed)
    /\ Close
    /\ pc' = "done"
    /\ outcome' = [kind |-> RaisedFor(e), error |-> e]
    /\ UNCHANGED <<connectAttempt, connectLeft, argVars, execVars, applied,
                   executes, commitTried>>

\* Both limits of the execute retry: attempts and the deadline.
RetriesSpent(left) == executeAttempt >= MaxExecuteAttempts \/ left = 0

\* A transient error that may be retried: the first one sets the deadline, the
\* broken connection is closed, and the limits are looked at.
TransientError(e) ==
    /\ pc = "failing"
    /\ MayHaveRun(e)
    /\ "transient" \in e
    /\ ExecuteRetryAllowed
    /\ LET left == IF deadlineSet THEN executeLeft ELSE RetryDeadline IN
       /\ executeLeft' = left
       /\ deadlineSet' = TRUE
       /\ Close
       /\ IF RetriesSpent(left)
          THEN pc' = "done" /\ outcome' = [kind |-> "raw", error |-> e]
          ELSE pc' = "execute_sleep" /\ UNCHANGED outcome
    /\ UNCHANGED <<connectAttempt, connectLeft, argVars, executeAttempt, applied,
                   executes, commitTried>>

\* time.sleep, then a new connection with a connect retry of its own.
ExecuteSleep ==
    /\ pc = "execute_sleep"
    /\ executeLeft' = Sub(executeLeft, DelayAt(ExecuteDelays, executeAttempt - 1))
    /\ executeAttempt' = executeAttempt + 1
    /\ EnterConnect
    /\ UNCHANGED <<outcome, argVars, deadlineSet, serverVars>>

CommitFetchNone == commit /\ ~ autocommit /\ fetch = "none"
MustCommit == commit /\ ~ autocommit

\* Nothing to commit: close, return the result.
Return ==
    /\ pc = "commit"
    /\ ~ MustCommit
    /\ Close
    /\ pc' = "done"
    /\ outcome' = [kind |-> "result", error |-> {}]
    /\ UNCHANGED <<connectAttempt, connectLeft, argVars, execVars, applied,
                   executes, commitTried>>

CommitOk ==
    /\ pc = "commit"
    /\ MustCommit
    /\ applied' = applied + pending
    /\ commitTried' = TRUE
    /\ Close
    /\ pc' = "done"
    /\ outcome' = [kind |-> "result", error |-> {}]
    /\ UNCHANGED <<connectAttempt, connectLeft, argVars, execVars, executes>>

\* Where a failed commit leads: out, never back to the statement.
RetryCommit == pc' = "execute_sleep" /\ UNCHANGED outcome
RaiseCommit == pc' = "done" /\ outcome' = [kind |-> "commit_failed", error |-> {}]

\* conn.commit() raises, whether or not the server committed.
CommitFails ==
    /\ pc = "commit"
    /\ MustCommit
    /\ \E n \in {0, pending} : applied' = applied + n
    /\ commitTried' = TRUE
    /\ Close
    /\ RaiseCommit
    /\ UNCHANGED <<connectAttempt, connectLeft, argVars, execVars, executes>>

\* Time that connects and statements take.
Tick ==
    /\ pc \notin {"start", "done"}
    /\ connectLeft + executeLeft > 0
    /\ connectLeft' = Sub(connectLeft, 1)
    /\ executeLeft' = Sub(executeLeft, 1)
    /\ UNCHANGED <<pc, outcome, conns, connectAttempt, argVars, executeAttempt,
                   deadlineSet, serverVars>>

Work ==
    \/ Start
    \/ Connect
    \/ ExecuteOk
    \/ Execute
    \/ Refused
    \/ \E e \in ExecuteErrors : GiveUp(e) \/ TransientError(e)
    \/ ExecuteSleep
    \/ Return
    \/ CommitOk
    \/ CommitFails

Next == Work \/ Tick

\* The thread runs; the login timeout and the query timeout bound every wait.
Spec == Init /\ [][Next]_vars
FairSpec == Spec /\ WF_vars(Work)

-----------------------------------------------------------------------------
(* Properties. *)

\* Every variable stays in its set; the attempt cap is never passed.
TypeOK ==
    /\ pc \in {"start", "connect", "connect_sleep", "opened", "failing",
               "refused", "execute_sleep", "commit", "done"}
    /\ ConnectTypeOK
    /\ fetch \in Fetches
    /\ commit \in BOOLEAN /\ autocommit \in BOOLEAN /\ retryExecutes \in BOOLEAN
    /\ executeAttempt \in 1..MaxExecuteAttempts
    /\ executeLeft \in 0..RetryDeadline
    /\ deadlineSet \in BOOLEAN
    /\ pending \in {0, 1}
    /\ applied \in Nat
    /\ executes \in Nat
    /\ commitTried \in BOOLEAN

\* Retries never double an effect: a statement that runs in a transaction is
\* applied at most once, and so is one that fetches nothing unless the
\* operator opted in to retrying it (sql_retry_executes).
NoDoubleApply ==
    ~ autocommit \/ (fetch = "none" /\ ~ retryExecutes) => applied <= 1

\* A result handed back under commit=True is durable, and an error raised
\* before commit was tried left nothing behind.
OutcomeMatchesServer ==
    pc = "done" /\ ~ autocommit =>
        /\ outcome.kind = "result" /\ commit => applied = 1
        /\ ~ commitTried => applied = 0

\* At most one connection is open at any time, and whichever way the call
\* ends, none is: every exit of the nested retries closes what it opened.
NoConnectionLeak ==
    /\ conns <= 1
    /\ pc \in {"start", "connect", "connect_sleep", "execute_sleep", "done"} => conns = 0

\* A connect that ran out of time raises one of fabric_dw's own errors, at
\* whichever retry of the statement it happened.
ConnectFailureRenderable ==
    outcome.kind = "connect_failed" => "cli" \in outcome.error

\* The nested connect and execute retries end.
Terminates == <>(pc = "done")

Call == INSTANCE SqlCall WITH effects <- applied, result <- outcome.kind

\* run_query does what it promises: retries, transactions and lost answers show
\* to the caller as SqlCall says, and an error never hides more than that.
ImplementsSqlCall == Call!Spec
=============================================================================
