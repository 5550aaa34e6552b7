------------------------------ MODULE SqlRunner ------------------------------
(***************************************************************************)
(* The two entry points of sql.py in one module: a call of run_query       *)
(* (SqlQuery) or a call of run_statements (SqlBatch).  Neither shares      *)
(* anything with the other: each call opens connections of its own.        *)
(***************************************************************************)
EXTENDS SqlQuery

CONSTANT MaxStatements     \* longest list of statements

ASSUME BatchAssumption == MaxStatements \in Nat

VARIABLES batchPc, batchOutcome, batchConns, batchAttempt, batchLeft, count,
          batchAutocommit, commitPerStatement, next, batchPending, batchApplied, begun

batchVars == <<batchPc, batchOutcome, batchConns, batchAttempt, batchLeft, count,
               batchAutocommit, commitPerStatement, next, batchPending, batchApplied,
               begun>>
runnerVars == <<vars, batchVars>>

Batch == INSTANCE SqlBatch WITH
    pc <- batchPc, outcome <- batchOutcome, conns <- batchConns,
    connectAttempt <- batchAttempt, connectLeft <- batchLeft,
    autocommit <- batchAutocommit, pending <- batchPending, applied <- batchApplied

\* The one that is not called has nothing to choose, and never starts.
NoQuery == fetch = "all" /\ ~ commit /\ ~ autocommit /\ ~ retryExecutes
NoBatch == count = 0 /\ ~ batchAutocommit /\ ~ commitPerStatement

RunnerInit ==
    /\ Init
    /\ Batch!Init
    /\ NoQuery \/ NoBatch

QueryWork == batchPc = "start" /\ Work /\ UNCHANGED batchVars
BatchWork == pc = "start" /\ Batch!Work /\ UNCHANGED vars

RunnerNext ==
    \/ QueryWork
    \/ batchPc = "start" /\ Tick /\ UNCHANGED batchVars
    \/ BatchWork
    \/ pc = "start" /\ Batch!Tick /\ UNCHANGED vars

RunnerSpec == RunnerInit /\ [][RunnerNext]_runnerVars

\* The thread of the call runs; timeouts bound every wait for the server.
RunnerFairSpec == RunnerSpec /\ WF_runnerVars(QueryWork \/ BatchWork)

-----------------------------------------------------------------------------
(* Properties. *)

\* Of run_statements: what is durable is the whole list or nothing under one
\* deferred commit, and a prefix in the other modes (SqlBatch).
PrefixOrWhole == Batch!PrefixOrWhole

\* The retries of either end.
CallEnds == <>("done" \in {pc, batchPc})
=============================================================================
