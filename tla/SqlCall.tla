------------------------------ MODULE SqlCall ------------------------------
(***************************************************************************)
(* What run_query (sql.py) promises its caller, without connections,       *)
(* retries or time: how often the statement may take effect, and what the  *)
(* result or the exception tells about that.                               *)
(***************************************************************************)
EXTENDS Naturals

VARIABLES
    fetch, commit, autocommit, retryExecutes,   \* as in SqlQuery
    effects,        \* times the statement has taken effect for good
    result          \* "none" while the call runs

vars == <<fetch, commit, autocommit, retryExecutes, effects, result>>

Init ==
    /\ fetch \in {"all", "one", "none", "rowcount"}
    /\ commit \in BOOLEAN /\ autocommit \in BOOLEAN /\ retryExecutes \in BOOLEAN
    /\ effects = 0
    /\ result = "none"

\* Only an autocommit statement may take effect more than once, and only if it
\* returns something or the operator opted in (sql_retry_executes).
MayRepeat == autocommit /\ (fetch # "none" \/ retryExecutes)

Args == <<fetch, commit, autocommit, retryExecutes>>

\* An autocommit statement takes effect before the caller knows.
TakeEffect ==
    /\ result = "none"
    /\ autocommit
    /\ effects = 0 \/ MayRepeat
    /\ effects' = effects + 1
    /\ UNCHANGED <<Args, result>>

\* A result: the statement has taken effect, unless nobody was to commit it.
Return ==
    /\ result = "none"
    /\ \/ autocommit /\ effects > 0 /\ UNCHANGED effects
       \/ ~ autocommit /\ effects' = IF commit THEN 1 ELSE 0
    /\ result' = "result"
    /\ UNCHANGED Args

\* Only a commit that fails leaves a transaction in doubt.
CommitFails ==
    /\ result = "none"
    /\ commit /\ ~ autocommit
    /\ effects' \in {0, 1}
    /\ result' = "commit_failed"
    /\ UNCHANGED Args

\* A refusal of the server, and a connection that could not be opened, are final
\* where there is no second try; nothing was changed then.
Refuse ==
    /\ result = "none"
    /\ effects = 0 \/ MayRepeat
    /\ result' \in {"mapped", "connect_failed"}
    /\ UNCHANGED <<Args, effects>>

\* Any other exception: what autocommit has made durable stays.
Raise ==
    /\ result = "none"
    /\ result' \in {"raw", "server_error"}
    /\ UNCHANGED <<Args, effects>>

Next == TakeEffect \/ Return \/ CommitFails \/ Refuse \/ Raise

Spec == Init /\ [][Next]_vars
=============================================================================
