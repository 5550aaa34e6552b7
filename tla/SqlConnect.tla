----------------------------- MODULE SqlConnect -----------------------------
(***************************************************************************)
(* Opening a SQL connection with the connect-phase retry of sql.py:        *)
(* open_connection (sql_pool.py), its error translation and                *)
(* _with_connect_retry.  run_query and run_statements extend this module.  *)
(*                                                                         *)
(* An exception is the set of the things the code can tell about it.  Time *)
(* is counted in ticks that remain until a deadline.                       *)
(***************************************************************************)
EXTENDS Naturals, Sequences, FiniteSets

CONSTANTS
    RetryDeadline,    \* _resolve_sql_retry_deadline_s, in ticks
    ConnectDelays     \* _CONNECT_RETRY_DELAYS, in ticks

ASSUME ConnectAssumption ==
    /\ RetryDeadline \in Nat \ {0}
    /\ ConnectDelays \in Seq(Nat \ {0})
    /\ Len(ConnectDelays) > 0

VARIABLES
    pc,             \* where the call is
    outcome,        \* what it returned or raised
    conns,          \* connections it has opened and not closed
    connectAttempt, \* attempt of the running _with_connect_retry, from 0
    connectLeft     \* ticks until its deadline

connectVars == <<conns, connectAttempt, connectLeft>>

\* cli: already one of fabric_dw's own errors (a token failure).
ConnectTraits == {"cli", "capacity", "transient", "auth_failed"}

\* Failures of driver.connect, and the token failure raised before the try.
ConnectErrors == {e \in SUBSET ConnectTraits : "cli" \in e => "capacity" \notin e}

\* _is_connect_retryable
TransientOnly(e) == "transient" \in e
ConnectRetryable(e) == e \cap {"transient", "auth_failed"} # {}

\* _translate_connect_error: an inactive capacity hides every other trait, a
\* retryable error keeps its type, anything else becomes a FabricError whose
\* text quotes an error that was not retryable.
Translate(e) ==
    IF "cli" \in e THEN e
    ELSE IF "capacity" \in e THEN {"cli", "capacity"}
    ELSE IF ConnectRetryable(e) THEN e
    ELSE {"cli"}

\* _wrap_connect_retry_exhausted: never a raw driver exception.
RaiseRaw(e) == e
WrapExhausted(e) == e \cup {"cli"}

Sub(n, k) == IF n > k THEN n - k ELSE 0

\* The delay list is used up to its last entry, then that entry repeats.
DelayAt(delays, i) == delays[IF i < Len(delays) THEN i + 1 ELSE Len(delays)]

-----------------------------------------------------------------------------
ConnectInit ==
    /\ conns = 0
    /\ connectAttempt = 0
    /\ connectLeft = 0

\* Entering _with_connect_retry: a new deadline and a new count.
EnterConnect ==
    /\ pc' = "connect"
    /\ connectAttempt' = 0
    /\ connectLeft' = RetryDeadline
    /\ UNCHANGED conns

\* open_connection returns.
Opened ==
    /\ pc = "connect"
    /\ conns' = conns + 1
    /\ pc' = "opened"
    /\ UNCHANGED <<outcome, connectAttempt, connectLeft>>

\* open_connection raises e.
NotOpened(e) ==
    /\ pc = "connect"
    /\ LET raised == Translate(e) IN
       \/ /\ ~ ConnectRetryable(raised)
          /\ pc' = "done"
          /\ outcome' = [kind |-> "connect_failed", error |-> raised]
       \/ /\ ConnectRetryable(raised)
          /\ connectLeft = 0
          /\ pc' = "done"
          /\ outcome' = [kind |-> "connect_failed", error |-> WrapExhausted(raised)]
       \/ /\ ConnectRetryable(raised)
          /\ connectLeft > 0
          /\ pc' = "connect_sleep"
          /\ UNCHANGED outcome
    /\ UNCHANGED connectVars

\* time.sleep(delay) between two connects; a retry by a fresh call would start
\* over with the whole deadline.
RestartConnect == pc = "connect_sleep" /\ EnterConnect /\ UNCHANGED outcome

ConnectSleep ==
    /\ pc = "connect_sleep"
    /\ connectLeft' = Sub(connectLeft, DelayAt(ConnectDelays, connectAttempt))
    /\ connectAttempt' = connectAttempt + 1
    /\ pc' = "connect"
    /\ UNCHANGED <<outcome, conns>>

ConnectStep == Opened \/ (\E e \in ConnectErrors : NotOpened(e)) \/ ConnectSleep

ConnectTypeOK ==
    /\ conns \in Nat
    /\ connectAttempt \in Nat
    /\ connectLeft \in 0..RetryDeadline
=============================================================================
