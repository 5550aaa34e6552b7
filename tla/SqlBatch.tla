------------------------------ MODULE SqlBatch ------------------------------
(***************************************************************************)
(* run_statements (sql.py): a list of statements on one connection, with a *)
(* commit per statement, one deferred commit, or autocommit.               *)
(***************************************************************************)
EXTENDS SqlConnect

CONSTANT MaxStatements     \* longest list of statements

VARIABLES
    count,                            \* len(statements)
    autocommit, commitPerStatement,   \* arguments of the call
    next,                             \* statement the loop is at, from 1
    pending,                          \* statements in the open transaction
    applied,                          \* statements that are durable
    begun                             \* begun[i]: executions of statement i

argVars == <<count, autocommit, commitPerStatement>>
vars == <<pc, outcome, connectVars, argVars, next, pending, applied, begun>>

Statements == 1..MaxStatements

Init ==
    /\ pc = "start"
    /\ outcome = [kind |-> "none", error |-> {}]
    /\ ConnectInit
    /\ count \in 0..MaxStatements
    /\ autocommit \in BOOLEAN
    /\ commitPerStatement \in BOOLEAN
    /\ next = 1
    /\ pending = {}
    /\ applied = {}
    /\ begun = [i \in Statements |-> 0]

Start ==
    /\ pc = "start"
    /\ EnterConnect
    /\ UNCHANGED <<outcome, argVars, next, pending, applied, begun>>

Connect == ConnectStep /\ UNCHANGED <<argVars, next, pending, applied, begun>>

\* The finally block: the connection is closed, its transaction rolled back.
Finally == conns' = conns - 1 /\ pending' = {}

Raise(kind) == pc' = "done" /\ outcome' = [kind |-> kind, error |-> {}]

\* conn.cursor() raises: this line stands before the try.
CursorFails ==
    /\ pc = "opened"
    /\ Raise("raw")
    /\ UNCHANGED <<connectVars, argVars, next, pending, applied, begun>>

CursorOk ==
    /\ pc = "opened"
    /\ pc' = "loop"
    /\ UNCHANGED <<outcome, connectVars, argVars, next, pending, applied, begun>>

CommitEach == ~ autocommit
CommitAtOnce == ~ autocommit /\ commitPerStatement
CommitAtEnd == ~ autocommit /\ ~ commitPerStatement

\* for stmt in statements
MoreStatements == next <= count

\* One statement runs, and under commitPerStatement is committed with it.
RunStatement ==
    /\ pc = "loop"
    /\ MoreStatements
    /\ begun' = [begun EXCEPT ![next] = @ + 1]
    /\ IF autocommit
       THEN applied' = applied \cup {next} /\ UNCHANGED <<pending, pc>>
       ELSE /\ pending' = pending \cup {next}
            /\ pc' = IF CommitAtOnce THEN "commit_one" ELSE "loop"
            /\ UNCHANGED applied
    /\ next' = next + 1
    /\ UNCHANGED <<outcome, connectVars, argVars>>

\* cursor.execute raises: the statement may have run before its answer was
\* lost, and nothing is executed again.
StopBatch == Raise("execute_failed") /\ Finally /\ UNCHANGED next

StatementFails ==
    /\ pc = "loop"
    /\ MoreStatements
    /\ begun' = [begun EXCEPT ![next] = @ + 1]
    /\ \E ran \in IF autocommit THEN {{}, {next}} ELSE {{}} : applied' = applied \cup ran
    /\ StopBatch
    /\ UNCHANGED <<connectAttempt, connectLeft, argVars>>

CommitPending == applied' = applied \cup pending /\ pending' = {}

\* conn.commit() after one statement.
CommitOne ==
    /\ pc = "commit_one"
    /\ CommitPending
    /\ pc' = "loop"
    /\ UNCHANGED <<outcome, connectVars, argVars, next, begun>>

\* The deferred commit, skipped in the other modes, then the finally block.
CommitLast ==
    /\ pc = "loop"
    /\ ~ MoreStatements
    /\ IF CommitAtEnd THEN applied' = applied \cup pending ELSE UNCHANGED applied
    /\ Finally
    /\ Raise("result")
    /\ UNCHANGED <<connectAttempt, connectLeft, argVars, next, begun>>

\* A commit that raises, whether or not the server carried it out.
CommitFails ==
    /\ \/ pc = "commit_one"
       \/ pc = "loop" /\ ~ MoreStatements /\ CommitAtEnd
    /\ \E done \in {{}, pending} : applied' = applied \cup done
    /\ Finally
    /\ Raise("commit_failed")
    /\ UNCHANGED <<connectAttempt, connectLeft, argVars, next, begun>>

Tick ==
    /\ pc = "connect"
    /\ connectLeft > 0
    /\ connectLeft' = Sub(connectLeft, 1)
    /\ UNCHANGED <<pc, outcome, conns, connectAttempt, argVars, next, pending,
                   applied, begun>>

Work ==
    \/ Start
    \/ Connect
    \/ CursorOk
    \/ CursorFails
    \/ RunStatement
    \/ StatementFails
    \/ CommitOne
    \/ CommitLast
    \/ CommitFails

Next == Work \/ Tick

Spec == Init /\ [][Next]_vars

-----------------------------------------------------------------------------
(* Properties. *)

\* Every variable stays in its set.
TypeOK ==
    /\ pc \in {"start", "connect", "connect_sleep", "opened", "loop",
               "commit_one", "done"}
    /\ ConnectTypeOK
    /\ count \in 0..MaxStatements
    /\ autocommit \in BOOLEAN /\ commitPerStatement \in BOOLEAN
    /\ next \in 1..(MaxStatements + 1)
    /\ pending \subseteq Statements
    /\ applied \subseteq Statements
    /\ begun \in [Statements -> Nat]

\* What is durable is the whole list or nothing under one deferred commit, and
\* a prefix of it in the other modes: no statement is applied over a failed one.
\* Nothing is executed twice, and a result means that all of it is durable.
PrefixOrWhole ==
    /\ ~ autocommit /\ ~ commitPerStatement => applied \in {{}, 1..count}
    /\ \A i \in applied : \A j \in 1..(i - 1) : j \in applied
    /\ \A i \in Statements : begun[i] <= 1
    /\ outcome.kind = "result" => applied = 1..count
=============================================================================
