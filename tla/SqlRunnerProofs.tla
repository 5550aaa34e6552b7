--------------------------- MODULE SqlRunnerProofs ---------------------------
(***************************************************************************)
(* Proofs about the SQL runner for any retry deadline, any delay lists and *)
(* statement lists of any length.  run_query: the retry boundary keeps     *)
(* effects from doubling, every exit closes its connection, and what the   *)
(* caller is told matches the server.  run_statements: what is durable is  *)
(* a prefix of the list, or the whole of it.                               *)
(***************************************************************************)
EXTENDS SqlRunner, TLAPS

\* A retry is scheduled only below the attempt cap.
SleepInv == pc = "execute_sleep" => executeAttempt < MaxExecuteAttempts

\* A connection is open exactly from its opening to the end of its attempt.
ConnInv ==
    conns = IF pc \in {"opened", "failing", "refused", "commit"} THEN 1 ELSE 0

\* A transaction is open only while its statement awaits its commit.
PendingInv ==
    /\ pc \notin {"failing", "commit"} => pending = 0
    /\ autocommit => pending = 0
    /\ pc = "commit" /\ ~ autocommit => pending = 1

\* Without autocommit, nothing is durable before the one commit.
CommitInv ==
    /\ commitTried => pc = "done"
    /\ outcome.kind = "result" => pc = "done"
    /\ ~ autocommit => applied <= 1
    /\ ~ autocommit /\ ~ commitTried => applied = 0
    /\ ~ autocommit /\ outcome.kind = "result" /\ commit => applied = 1

\* A statement that must not be retried is begun at most once.
OnceInv ==
    ~ ExecuteRetryAllowed =>
        /\ pc # "execute_sleep"
        /\ pc \in {"start", "connect", "connect_sleep", "opened"} => executes = 0
        /\ executes <= 1
        /\ autocommit => applied <= executes

IInv ==
    /\ TypeOK
    /\ SleepInv
    /\ ConnInv
    /\ PendingInv
    /\ CommitInv
    /\ OnceInv
    /\ ConnectFailureRenderable

LEMMA SubInRange ==
    ASSUME NEW n \in 0..RetryDeadline, NEW k \in Nat
    PROVE  Sub(n, k) \in 0..RetryDeadline
BY ConnectAssumption DEF Sub

LEMMA DelayIsNat ==
    ASSUME NEW delays \in Seq(Nat \ {0}), Len(delays) > 0, NEW i \in Nat
    PROVE  DelayAt(delays, i) \in Nat
<1>1. Len(delays) \in Nat /\ \A j \in 1..Len(delays) : delays[j] \in Nat
    OBVIOUS
<1>. QED
    BY <1>1 DEF DelayAt

\* Every error a failed connect ends with is one of fabric_dw's own.
LEMMA NotOpenedRenderable ==
    ASSUME NEW e \in ConnectErrors, NotOpened(e), ConnectFailureRenderable
    PROVE  ConnectFailureRenderable'
<1>1. ~ ConnectRetryable(Translate(e)) => "cli" \in Translate(e)
    BY DEF Translate
<1>2. "cli" \in WrapExhausted(Translate(e))
    BY DEF WrapExhausted
<1>. QED
    BY <1>1, <1>2 DEF NotOpened, ConnectFailureRenderable

LEMMA InitIInv == Init => IInv
<1> SUFFICES ASSUME Init PROVE IInv
    OBVIOUS
<1>1. MaxExecuteAttempts \in Nat /\ 1 \in 1..MaxExecuteAttempts
    BY ExecuteAssumption DEF MaxExecuteAttempts
<1> USE DEF Init, ConnectInit
<1>2. TypeOK
    <2>1. deadlineSet \in BOOLEAN /\ commitTried \in BOOLEAN
        OBVIOUS
    <2>2. 0 \in 0..RetryDeadline /\ 0 \in {0, 1} /\ 0 \in Nat
        BY ConnectAssumption
    <2>. QED
        BY <1>1, <2>1, <2>2 DEF TypeOK, ConnectTypeOK
<1>3. SleepInv /\ ConnInv /\ PendingInv /\ ConnectFailureRenderable
    BY DEF SleepInv, ConnInv, PendingInv, ConnectFailureRenderable
<1>4. CommitInv /\ OnceInv
    BY DEF CommitInv, OnceInv
<1>. QED
    BY <1>2, <1>3, <1>4 DEF IInv

LEMMA StepIInv == IInv /\ [Next]_vars => IInv'
<1> SUFFICES ASSUME IInv, [Next]_vars PROVE IInv'
    OBVIOUS
<1> DEFINE NothingElse == UNCHANGED <<argVars, execVars, serverVars>>
<1>0. MaxExecuteAttempts \in Nat /\ RetryDeadline \in Nat
    BY ConnectAssumption, ExecuteAssumption DEF MaxExecuteAttempts
<1> USE <1>0
    DEF IInv, TypeOK, ConnectTypeOK, SleepInv, ConnInv, PendingInv, CommitInv, OnceInv,
        ExecuteRetryAllowed, connectVars, argVars, execVars, serverVars
<1>1. CASE UNCHANGED vars
    BY <1>1 DEF vars, ConnectFailureRenderable
<1>2. CASE Start
    BY <1>2 DEF Start, EnterConnect, ConnectFailureRenderable
<1>3. CASE Opened /\ NothingElse
    BY <1>3 DEF Opened, ConnectFailureRenderable
<1>4. ASSUME NEW e \in ConnectErrors, NotOpened(e), NothingElse PROVE IInv'
    <2>1. ConnectFailureRenderable'
        BY <1>4, NotOpenedRenderable
    <2>. QED
        BY <1>4, <2>1 DEF NotOpened
<1>5. CASE ConnectSleep /\ NothingElse
    <2>1. connectLeft' \in 0..RetryDeadline
        BY <1>5, SubInRange, DelayIsNat, ConnectAssumption DEF ConnectSleep
    <2>. QED
        BY <1>5, <2>1 DEF ConnectSleep, ConnectFailureRenderable
<1>6. CASE ExecuteOk
    BY <1>6 DEF ExecuteOk, Effect, ConnectFailureRenderable
<1>7. CASE Execute
    BY <1>7 DEF Execute, Effect, ConnectFailureRenderable
<1>8. CASE Refused
    BY <1>8 DEF Refused, ConnectFailureRenderable
<1>9. ASSUME NEW e \in ExecuteErrors, GiveUp(e) PROVE IInv'
    BY <1>9 DEF GiveUp, Close, RaisedFor, ConnectFailureRenderable
<1>10. ASSUME NEW e \in ExecuteErrors, TransientError(e) PROVE IInv'
    <2> DEFINE left == IF deadlineSet THEN executeLeft ELSE RetryDeadline
    <2>1. left \in 0..RetryDeadline
        OBVIOUS
    <2>2. /\ executeLeft' = left /\ deadlineSet' = TRUE /\ Close
          /\ IF RetriesSpent(left)
             THEN pc' = "done" /\ outcome' = [kind |-> "raw", error |-> e]
             ELSE pc' = "execute_sleep" /\ UNCHANGED outcome
        BY <1>10 DEF TransientError
    <2> HIDE DEF left
    <2>3. CASE RetriesSpent(left)
        BY <1>10, <2>1, <2>2, <2>3 DEF TransientError, Close, ConnectFailureRenderable
    <2>4. CASE ~ RetriesSpent(left)
        BY <1>10, <2>1, <2>2, <2>4
           DEF TransientError, Close, RetriesSpent, ConnectFailureRenderable
    <2>. QED
        BY <2>3, <2>4
<1>11. CASE ExecuteSleep
    <2>1. executeLeft' \in 0..RetryDeadline
        <3>1. executeAttempt - 1 \in Nat /\ executeLeft \in 0..RetryDeadline
            OBVIOUS
        <3>2. DelayAt(ExecuteDelays, executeAttempt - 1) \in Nat
            BY <3>1, DelayIsNat, ExecuteAssumption
        <3>. QED
            BY <1>11, <3>1, <3>2, SubInRange DEF ExecuteSleep
    <2>. QED
        BY <1>11, <2>1 DEF ExecuteSleep, EnterConnect, ConnectFailureRenderable
<1>12. CASE Return
    BY <1>12 DEF Return, MustCommit, Close, ConnectFailureRenderable
<1>13. CASE CommitOk
    BY <1>13 DEF CommitOk, MustCommit, Close, ConnectFailureRenderable
<1>14. CASE CommitFails
    BY <1>14 DEF CommitFails, RaiseCommit, MustCommit, Close, ConnectFailureRenderable
<1>15. CASE Tick
    <2>1. connectLeft' \in 0..RetryDeadline /\ executeLeft' \in 0..RetryDeadline
        BY <1>15, SubInRange DEF Tick
    <2>. QED
        BY <1>15, <2>1 DEF Tick, ConnectFailureRenderable
<1> HIDE DEF IInv, TypeOK, ConnectTypeOK, SleepInv, ConnInv, PendingInv, CommitInv, OnceInv,
             ExecuteRetryAllowed, connectVars, argVars, execVars, serverVars
<1>16. CASE Connect
    BY <1>3, <1>4, <1>5, <1>16 DEF Connect, ConnectStep
<1>. QED
    BY <1>1, <1>2, <1>6, <1>7, <1>8, <1>9, <1>10, <1>11, <1>12, <1>13, <1>14, <1>15,
       <1>16 DEF Next, Work

LEMMA Invariant == Spec => []IInv
BY InitIInv, StepIInv, PTL DEF Spec

\* run_query keeps its types; in particular the attempt cap holds.
THEOREM QueryTypeCorrect == Spec => []TypeOK
<1>1. IInv => TypeOK
    BY DEF IInv
<1>. QED
    BY Invariant, <1>1, PTL

\* No retry doubles an effect that a transaction or the fetch="none" boundary
\* protects.
THEOREM NoDoubleApplyCorrect == Spec => []NoDoubleApply
<1>1. IInv => NoDoubleApply
    BY DEF IInv, TypeOK, CommitInv, OnceInv, ExecuteRetryAllowed, NoDoubleApply
<1>. QED
    BY Invariant, <1>1, PTL

\* What the caller is told agrees with what is durable on the server.
THEOREM OutcomeCorrect == Spec => []OutcomeMatchesServer
<1>1. IInv => OutcomeMatchesServer
    BY DEF IInv, CommitInv, OutcomeMatchesServer
<1>. QED
    BY Invariant, <1>1, PTL

\* Every exit of the nested retries closes the connection it opened.
THEOREM ConnectionsCorrect == Spec => []NoConnectionLeak
<1>1. IInv => NoConnectionLeak
    BY DEF IInv, ConnInv, NoConnectionLeak
<1>. QED
    BY Invariant, <1>1, PTL

\* An exhausted connect retry raises an error of fabric_dw, at whichever retry
\* of the statement it happened.
THEOREM ConnectFailureCorrect == Spec => []ConnectFailureRenderable
<1>1. IInv => ConnectFailureRenderable
    BY DEF IInv
<1>. QED
    BY Invariant, <1>1, PTL

-----------------------------------------------------------------------------
(* Refinement of SqlCall. *)

\* What SqlCall asks of a step that ends the call: the outcome is there when the
\* call is over and not before, an autocommit statement that has returned is
\* durable, and one the server refuses at its only try is not.
CallInv ==
    /\ pc = "done" <=> outcome.kind # "none"
    /\ autocommit /\ pc = "commit" => applied > 0
    /\ ~ ExecuteRetryAllowed /\ pc = "refused" => applied = 0

LEMMA InitCallInv == Init => CallInv
BY DEF Init, CallInv

LEMMA StepCallInv == IInv /\ CallInv /\ [Next]_vars => CallInv'
<1> SUFFICES ASSUME IInv, CallInv, [Next]_vars PROVE CallInv'
    OBVIOUS
<1> USE DEF IInv, TypeOK, CommitInv, OnceInv, CallInv, ExecuteRetryAllowed, connectVars,
        argVars, execVars, serverVars
<1>1. CASE UNCHANGED vars
    BY <1>1 DEF vars
<1>2. CASE Start
    BY <1>2 DEF Start, EnterConnect
<1>3. CASE Connect
    BY <1>3 DEF Connect, ConnectStep, Opened, NotOpened, ConnectSleep
<1>4. CASE ExecuteOk
    BY <1>4 DEF ExecuteOk, Effect
<1>5. CASE Execute
    BY <1>5 DEF Execute
<1>6. CASE Refused
    BY <1>6 DEF Refused
<1>7. ASSUME NEW e \in ExecuteErrors, GiveUp(e) PROVE CallInv'
    BY <1>7 DEF GiveUp, RaisedFor
<1>8. ASSUME NEW e \in ExecuteErrors, TransientError(e) PROVE CallInv'
    BY <1>8 DEF TransientError
<1>9. CASE ExecuteSleep
    BY <1>9 DEF ExecuteSleep, EnterConnect
<1>10. CASE Return
    BY <1>10 DEF Return
<1>11. CASE CommitOk
    BY <1>11 DEF CommitOk
<1>12. CASE CommitFails
    BY <1>12 DEF CommitFails, RaiseCommit
<1>13. CASE Tick
    BY <1>13 DEF Tick
<1>. QED
    BY <1>1, <1>2, <1>3, <1>4, <1>5, <1>6, <1>7, <1>8, <1>9, <1>10, <1>11, <1>12, <1>13
       DEF Next, Work

\* The arguments stay what they are.
LEMMA ArgsKept == Next => UNCHANGED argVars
BY DEF Next, Work, Start, Connect, ExecuteOk, Execute, Refused, GiveUp, TransientError,
       ExecuteSleep, Return, CommitOk, CommitFails, Tick, argVars, execVars, serverVars

\* Every step of run_query is one of SqlCall, or shows nothing.
LEMMA StepCall == IInv /\ CallInv /\ [Next]_vars => [Call!Next]_(Call!vars)
<1> SUFFICES ASSUME IInv, CallInv, [Next]_vars PROVE [Call!Next]_(Call!vars)
    OBVIOUS
<1> DEFINE Same == UNCHANGED argVars
<1>0. Same
    BY ArgsKept DEF vars, argVars
<1> USE DEF IInv, TypeOK, CallInv, Call!vars, Call!Next
<1>1. CASE UNCHANGED <<applied, outcome>>
    BY <1>0, <1>1 DEF argVars
<1>2. CASE Connect /\ outcome' # outcome
    <2>1. PICK e \in ConnectErrors : NotOpened(e)
        BY <1>2 DEF Connect, ConnectStep, Opened, ConnectSleep
    <2>2. outcome'.kind = "connect_failed" /\ UNCHANGED applied /\ pc = "connect"
        BY <1>2, <2>1 DEF Connect, NotOpened, serverVars
    <2>3. applied = 0 \/ Call!MayRepeat
        BY <2>2 DEF CommitInv, OnceInv, ExecuteRetryAllowed, Call!MayRepeat
    <2>. QED
        BY <1>0, <2>2, <2>3 DEF Call!Refuse, Call!Args, argVars
<1>3. CASE (ExecuteOk \/ Execute) /\ applied' # applied
    <2>1. pc = "opened" /\ autocommit /\ applied' = applied + 1 /\ UNCHANGED outcome
        BY <1>3 DEF ExecuteOk, Execute, Effect
    <2>2. applied = 0 \/ Call!MayRepeat
        BY <2>1 DEF OnceInv, ExecuteRetryAllowed, Call!MayRepeat
    <2>. QED
        BY <1>0, <2>1, <2>2 DEF Call!TakeEffect, Call!Args, argVars
<1>4. ASSUME NEW e \in ExecuteErrors, GiveUp(e) PROVE Call!Next
    <2>1. outcome'.kind = RaisedFor(e) /\ UNCHANGED applied /\ pc # "done"
        BY <1>4 DEF GiveUp
    <2>2. CASE pc = "refused"
        <3>1. outcome'.kind = "mapped"
            BY <1>4, <2>1, <2>2 DEF GiveUp, MayHaveRun, RaisedFor
        <3>2. applied = 0 \/ Call!MayRepeat
            BY <2>2 DEF CommitInv, ExecuteRetryAllowed, Call!MayRepeat
        <3>. QED
            BY <1>0, <2>1, <3>1, <3>2 DEF Call!Refuse, Call!Args, argVars
    <2>3. CASE pc = "failing"
        <3>1. outcome'.kind \in {"raw", "server_error"}
            BY <1>4, <2>1, <2>3 DEF GiveUp, MayHaveRun, RaisedFor
        <3>. QED
            BY <1>0, <2>1, <3>1 DEF Call!Raise, Call!Args, argVars
    <2>. QED
        BY <1>4, <2>2, <2>3 DEF GiveUp
<1>5. ASSUME NEW e \in ExecuteErrors, TransientError(e), outcome' # outcome
      PROVE  Call!Next
    <2>1. outcome'.kind = "raw" /\ UNCHANGED applied /\ pc # "done"
        BY <1>5 DEF TransientError
    <2>. QED
        BY <1>0, <2>1 DEF Call!Raise, Call!Args, argVars
<1>6. CASE Return
    <2>1. outcome'.kind = "result" /\ UNCHANGED applied /\ pc = "commit" /\ ~ MustCommit
        BY <1>6 DEF Return
    <2>. QED
        BY <1>0, <2>1 DEF CommitInv, MustCommit, Call!Return, Call!Args, argVars
<1>7. CASE CommitOk
    <2>1. /\ outcome'.kind = "result" /\ applied' = applied + pending
          /\ pc = "commit" /\ MustCommit
        BY <1>7 DEF CommitOk
    <2>. QED
        BY <1>0, <2>1 DEF CommitInv, PendingInv, MustCommit, Call!Return, Call!Args, argVars
<1>8. CASE CommitFails
    <2>1. /\ outcome'.kind = "commit_failed" /\ pc = "commit" /\ MustCommit
          /\ applied' = applied \/ applied' = applied + pending
        BY <1>8 DEF CommitFails, RaiseCommit
    <2>. QED
        BY <1>0, <2>1 DEF CommitInv, PendingInv, MustCommit, Call!CommitFails, Call!Args, argVars
<1>9. UNCHANGED vars \/ Start \/ Refused \/ ExecuteSleep \/ Tick => UNCHANGED <<applied, outcome>>
    BY DEF vars, Start, Refused, ExecuteSleep, Tick, serverVars
<1>10. /\ Connect => UNCHANGED applied
       /\ ExecuteOk \/ Execute => UNCHANGED outcome
       /\ \A e \in ExecuteErrors : TransientError(e) => UNCHANGED applied
    BY DEF Connect, ExecuteOk, Execute, TransientError, serverVars
<1>. QED
    BY <1>1, <1>2, <1>3, <1>4, <1>5, <1>6, <1>7, <1>8, <1>9, <1>10 DEF Next, Work

LEMMA InitCall == Init => Call!Init
BY DEF Init, Call!Init, Fetches

\* run_query implements SqlCall: what it tells its caller about the effects of the
\* statement is so, whatever fails and however it is retried.
THEOREM QueryImplementsCall == Spec => ImplementsSqlCall
<1>1. Spec => [](IInv /\ CallInv)
    BY Invariant, InitCallInv, StepCallInv, PTL DEF Spec
<1>. QED
    BY <1>1, InitCall, StepCall, PTL DEF Spec, ImplementsSqlCall, Call!Spec

-----------------------------------------------------------------------------
(***************************************************************************)
(* run_statements.  PrefixOrWhole is about what is durable; that it stays  *)
(* so depends on what is pending and on where the loop is.                 *)
(***************************************************************************)

BatchPlaces == {"start", "connect", "connect_sleep", "opened", "loop", "commit_one", "done"}

BatchTypes ==
    /\ batchPc \in BatchPlaces
    /\ count \in 0..MaxStatements
    /\ batchAutocommit \in BOOLEAN /\ commitPerStatement \in BOOLEAN
    /\ next \in 1..(count + 1)
    /\ begun \in [1..MaxStatements -> Nat]

\* Each statement is begun when the loop is at it, and not again.
BegunInv ==
    /\ \A i \in 1..MaxStatements : begun[i] <= 1
    /\ batchPc # "done" => \A i \in next..MaxStatements : begun[i] = 0

\* What is durable and what is pending, in the middle of the list.
Halfway ==
    /\ batchPc \notin {"loop", "commit_one"} => next = 1
    /\ batchPc = "commit_one" => ~ batchAutocommit /\ commitPerStatement /\ next > 1
    /\ batchApplied = IF ~ batchAutocommit /\ ~ commitPerStatement THEN {}
                      ELSE IF batchPc = "commit_one" THEN 1..(next - 2)
                      ELSE 1..(next - 1)
    /\ batchPending = IF ~ batchAutocommit /\ ~ commitPerStatement THEN 1..(next - 1)
                      ELSE IF batchPc = "commit_one" THEN {next - 1}
                      ELSE {}

\* What is durable once the call is over.
Settled ==
    /\ \E m \in 0..count : batchApplied = 1..m
    /\ ~ batchAutocommit /\ ~ commitPerStatement => batchApplied \in {{}, 1..count}
    /\ batchOutcome.kind = "result" => batchApplied = 1..count

BatchInv ==
    /\ BatchTypes
    /\ BegunInv
    /\ IF batchPc = "done" THEN Settled ELSE Halfway /\ batchOutcome.kind # "result"

\* Before the call there is nothing to undo.
LEMMA BatchInit == Batch!Init => BatchInv
<1> SUFFICES ASSUME Batch!Init PROVE BatchInv
    OBVIOUS
<1> USE BatchAssumption DEF Batch!Init, Batch!Statements
<1>1. BatchTypes
    BY DEF BatchTypes, BatchPlaces
<1>2. BegunInv
    BY DEF BegunInv
<1>3. Halfway
    BY DEF Halfway
<1>. QED
    BY <1>1, <1>2, <1>3 DEF BatchInv

\* Nothing of the list is touched before the loop.
LEMMA BeforeLoop ==
    ASSUME BatchInv, Batch!Start \/ Batch!Connect \/ Batch!CursorOk \/ Batch!CursorFails \/ Batch!Tick
    PROVE  BatchInv'
<1>1. /\ UNCHANGED <<count, batchAutocommit, commitPerStatement, next, batchPending, batchApplied,
                     begun>>
      /\ batchPc \in {"start", "connect", "connect_sleep", "opened"}
      /\ batchPc' \in BatchPlaces \ {"commit_one"}
      /\ batchOutcome'.kind # "result"
    BY DEF BatchInv, BatchPlaces, Batch!Start, Batch!Connect, Batch!CursorOk, Batch!CursorFails,
       Batch!Tick, Batch!EnterConnect, Batch!ConnectStep, Batch!Opened, Batch!NotOpened,
       Batch!ConnectSleep, Batch!Raise, Batch!argVars
<1>2. next = 1 /\ batchApplied = {} /\ batchPending = {} /\ Halfway
    BY <1>1 DEF BatchInv, Halfway
<1>3. BatchTypes' /\ BegunInv'
    BY <1>1 DEF BatchInv, BatchTypes, BegunInv
<1>4. CASE batchPc' = "done"
    <2>1. Settled'
        BY <1>1, <1>2, <1>4 DEF BatchInv, BatchTypes, Settled
    <2>. QED
        BY <1>3, <1>4, <2>1 DEF BatchInv
<1>5. CASE batchPc' # "done"
    BY <1>1, <1>2, <1>3, <1>5 DEF BatchInv, Halfway
<1>. QED
    BY <1>4, <1>5

\* The end of the call, wherever the loop was.
LEMMA AtTheEnd ==
    ASSUME BatchInv, batchPc' = "done", UNCHANGED <<count, batchAutocommit, commitPerStatement>>,
           next' = next, begun' \in [1..MaxStatements -> Nat],
           \A i \in 1..MaxStatements : begun'[i] <= 1,
           Settled'
    PROVE  BatchInv'
BY DEF BatchInv, BatchTypes, BatchPlaces, BegunInv

\* The loop begins a statement it has not begun before.
LEMMA BeginOne ==
    ASSUME BatchInv, batchPc = "loop", next <= count, begun' = [begun EXCEPT ![next] = @ + 1]
    PROVE  /\ next \in 1..MaxStatements
           /\ begun' \in [1..MaxStatements -> Nat]
           /\ \A i \in 1..MaxStatements : begun'[i] <= 1
           /\ \A i \in (next + 1)..MaxStatements : begun'[i] = 0
<1>1. next \in 1..MaxStatements
    BY BatchAssumption DEF BatchInv, BatchTypes
<1>. QED
    BY <1>1, BatchAssumption DEF BatchInv, BatchTypes, BegunInv

\* A statement that runs is pending, or durable at once under autocommit.
LEMMA RunStep ==
    ASSUME BatchInv, Batch!RunStatement
    PROVE  BatchInv'
<1>1. batchPc = "loop" /\ next <= count /\ begun' = [begun EXCEPT ![next] = @ + 1]
    BY DEF Batch!RunStatement, Batch!MoreStatements
<1>2. /\ next \in 1..MaxStatements
      /\ begun' \in [1..MaxStatements -> Nat]
      /\ \A i \in 1..MaxStatements : begun'[i] <= 1
      /\ \A i \in (next + 1)..MaxStatements : begun'[i] = 0
    BY <1>1, BeginOne
<1>3. /\ next' = next + 1
      /\ UNCHANGED <<count, batchAutocommit, commitPerStatement, batchOutcome>>
      /\ batchPc' = IF ~ batchAutocommit /\ commitPerStatement THEN "commit_one" ELSE "loop"
      /\ batchApplied' = IF batchAutocommit THEN batchApplied \cup {next} ELSE batchApplied
      /\ batchPending' = IF batchAutocommit THEN batchPending ELSE batchPending \cup {next}
    BY <1>1 DEF Batch!RunStatement, Batch!argVars, Batch!CommitAtOnce
<1>4. BatchTypes'
    BY <1>1, <1>2, <1>3 DEF BatchInv, BatchTypes, BatchPlaces
<1>5. BegunInv'
    BY <1>2, <1>3 DEF BegunInv
<1>6. Halfway'
    <2>1. Halfway
        BY <1>1 DEF BatchInv
    <2>2. next' - 1 = next /\ next' - 2 = next - 1 /\ next' > 1 /\ 1..next = 1..(next - 1) \cup {next}
        BY <1>2, <1>3
    <2>3. CASE batchAutocommit
        BY <1>1, <1>3, <2>1, <2>2, <2>3 DEF Halfway
    <2>4. CASE ~ batchAutocommit /\ commitPerStatement
        BY <1>1, <1>3, <2>1, <2>2, <2>4 DEF Halfway
    <2>5. CASE ~ batchAutocommit /\ ~ commitPerStatement
        BY <1>1, <1>3, <2>1, <2>2, <2>5 DEF Halfway
    <2>. QED
        BY <2>3, <2>4, <2>5 DEF BatchInv, BatchTypes
<1>. QED
    BY <1>1, <1>3, <1>4, <1>5, <1>6 DEF BatchInv

\* A statement that fails leaves the ones before it, and ends the call.
LEMMA FailStep ==
    ASSUME BatchInv, Batch!StatementFails
    PROVE  BatchInv'
<1>1. batchPc = "loop" /\ next <= count /\ begun' = [begun EXCEPT ![next] = @ + 1]
    BY DEF Batch!StatementFails, Batch!MoreStatements
<1>2. /\ next \in 1..MaxStatements
      /\ begun' \in [1..MaxStatements -> Nat]
      /\ \A i \in 1..MaxStatements : begun'[i] <= 1
    BY <1>1, BeginOne
<1>3. /\ batchPc' = "done" /\ batchOutcome'.kind = "execute_failed" /\ next' = next
      /\ UNCHANGED <<count, batchAutocommit, commitPerStatement>>
      /\ \/ batchApplied' = batchApplied
         \/ batchAutocommit /\ batchApplied' = batchApplied \cup {next}
    BY DEF Batch!StatementFails, Batch!StopBatch, Batch!Raise, Batch!argVars
<1>4. 1..next = 1..(next - 1) \cup {next} /\ next \in 0..count /\ next - 1 \in 0..count
    BY <1>1, <1>2 DEF BatchInv, BatchTypes
<1>5. Settled'
    <2>1. CASE batchAutocommit
        <3>1. batchApplied = 1..(next - 1)
            BY <1>1, <2>1 DEF BatchInv, Halfway
        <3>2. batchApplied' \in {1..(next - 1), 1..next}
            BY <1>3, <1>4, <3>1
        <3>. QED
            BY <1>3, <1>4, <2>1, <3>2 DEF Settled
    <2>2. CASE ~ batchAutocommit /\ commitPerStatement
        <3>1. batchApplied' = 1..(next - 1)
            BY <1>1, <1>3, <2>2 DEF BatchInv, Halfway
        <3>. QED
            BY <1>3, <1>4, <2>2, <3>1 DEF Settled
    <2>3. CASE ~ batchAutocommit /\ ~ commitPerStatement
        <3>1. batchApplied' = {} /\ {} = 1..0 /\ 0 \in 0..count
            BY <1>1, <1>3, <2>3 DEF BatchInv, BatchTypes, Halfway
        <3>. QED
            BY <1>3, <3>1 DEF Settled
    <2>. QED
        BY <2>1, <2>2, <2>3 DEF BatchInv, BatchTypes
<1>. QED
    BY <1>2, <1>3, <1>5, AtTheEnd

\* The commit after one statement.
LEMMA CommitOneStep ==
    ASSUME BatchInv, Batch!CommitOne
    PROVE  BatchInv'
<1>1. /\ batchPc = "commit_one" /\ batchPc' = "loop"
      /\ batchApplied' = batchApplied \cup batchPending /\ batchPending' = {}
      /\ UNCHANGED <<count, batchAutocommit, commitPerStatement, batchOutcome, next, begun>>
    BY DEF Batch!CommitOne, Batch!CommitPending, Batch!argVars
<1>2. BatchTypes' /\ BegunInv'
    BY <1>1 DEF BatchInv, BatchTypes, BatchPlaces, BegunInv
<1>3. 1..(next - 1) = 1..(next - 2) \cup {next - 1}
    BY <1>1 DEF BatchInv, BatchTypes, Halfway
<1>4. Halfway'
    BY <1>1, <1>3 DEF BatchInv, Halfway
<1>. QED
    BY <1>1, <1>2, <1>4 DEF BatchInv

\* Behind the last statement.
LEMMA Whole ==
    ASSUME BatchInv, batchPc = "loop", ~ (next <= count)
    PROVE  next - 1 = count
BY DEF BatchInv, BatchTypes

\* The end of the list, with the one deferred commit if there is one.
LEMMA CommitLastStep ==
    ASSUME BatchInv, Batch!CommitLast
    PROVE  BatchInv'
<1>1. /\ batchPc = "loop" /\ ~ (next <= count) /\ batchPc' = "done"
      /\ UNCHANGED <<count, batchAutocommit, commitPerStatement, begun>> /\ next' = next
      /\ batchApplied' = IF ~ batchAutocommit /\ ~ commitPerStatement
                         THEN batchApplied \cup batchPending ELSE batchApplied
    BY DEF Batch!CommitLast, Batch!MoreStatements, Batch!CommitAtEnd, Batch!Raise, Batch!argVars
<1>2. next - 1 = count
    BY <1>1, Whole
<1>3. batchApplied' = 1..count
    BY <1>1, <1>2 DEF BatchInv, Halfway
<1>4. Settled'
    <2>0. count' = count /\ count \in Nat
        BY <1>1 DEF BatchInv, BatchTypes
    <2>1. count' \in 0..count' /\ batchApplied' = 1..count'
        BY <1>3, <2>0
    <2>2. \E m \in 0..count' : batchApplied' = 1..m
        BY <2>1, Zenon
    <2>. QED
        BY <2>1, <2>2, Zenon DEF Settled
<1>5. begun' \in [1..MaxStatements -> Nat] /\ \A i \in 1..MaxStatements : begun'[i] <= 1
    BY <1>1 DEF BatchInv, BatchTypes, BegunInv
<1>. QED
    BY <1>1, <1>4, <1>5, AtTheEnd

\* A commit that fails, whichever it is, whether or not it was carried out.
LEMMA CommitFailsStep ==
    ASSUME BatchInv, Batch!CommitFails
    PROVE  BatchInv'
<1>1. /\ \/ batchPc = "commit_one"
         \/ batchPc = "loop" /\ ~ (next <= count) /\ ~ batchAutocommit /\ ~ commitPerStatement
      /\ batchPc' = "done" /\ batchOutcome'.kind = "commit_failed"
      /\ UNCHANGED <<count, batchAutocommit, commitPerStatement, begun>> /\ next' = next
      /\ batchApplied' \in {batchApplied, batchApplied \cup batchPending}
    BY DEF Batch!CommitFails, Batch!MoreStatements, Batch!CommitAtEnd, Batch!Raise, Batch!argVars
<1>2. Settled'
    <2>1. CASE batchPc = "commit_one"
        <3>1. /\ batchApplied = 1..(next - 2) /\ batchPending = {next - 1}
              /\ 1..(next - 1) = 1..(next - 2) \cup {next - 1}
              /\ next - 1 \in 0..count /\ next - 2 \in 0..count
              /\ ~ batchAutocommit /\ commitPerStatement
            BY <2>1 DEF BatchInv, BatchTypes, Halfway
        <3>. QED
            BY <1>1, <3>1 DEF Settled
    <2>2. CASE batchPc = "loop"
        <3>1. batchApplied = {} /\ batchPending = 1..count /\ count \in 0..count
            BY <1>1, <2>2, Whole DEF BatchInv, BatchTypes, Halfway
        <3>2. {} = 1..0 /\ 0 \in 0..count
            BY DEF BatchInv, BatchTypes
        <3>. QED
            BY <1>1, <3>1, <3>2 DEF Settled
    <2>. QED
        BY <1>1, <2>1, <2>2
<1>3. begun' \in [1..MaxStatements -> Nat] /\ \A i \in 1..MaxStatements : begun'[i] <= 1
    BY <1>1 DEF BatchInv, BatchTypes, BegunInv
<1>. QED
    BY <1>1, <1>2, <1>3, AtTheEnd

\* The invariant is inductive.
LEMMA BatchStep == BatchInv /\ [Batch!Next]_(Batch!vars) => BatchInv'
<1> SUFFICES ASSUME BatchInv, [Batch!Next]_(Batch!vars) PROVE BatchInv'
    OBVIOUS
<1>1. CASE UNCHANGED Batch!vars
    BY <1>1 DEF Batch!vars, Batch!connectVars, Batch!argVars, BatchInv, BatchTypes, BegunInv,
       Settled, Halfway
<1>2. CASE Batch!Next
    BY <1>2, BeforeLoop, RunStep, FailStep, CommitOneStep, CommitLastStep, CommitFailsStep
       DEF Batch!Next, Batch!Work
<1>. QED
    BY <1>1, <1>2

\* What BatchInv says of the list, the loop and the server holds throughout
\* every call of run_statements.
THEOREM BatchInvariant == Batch!Spec => []BatchInv
BY BatchInit, BatchStep, PTL DEF Batch!Spec

\* Each entry point runs as if the other was not there.
THEOREM RunnerRunsBoth == RunnerSpec => Spec /\ Batch!Spec
<1>1. RunnerInit => Init /\ Batch!Init
    BY DEF RunnerInit
<1>2. [RunnerNext]_runnerVars => [Next]_vars /\ [Batch!Next]_(Batch!vars)
    <2>1. UNCHANGED batchVars => UNCHANGED Batch!vars
        BY DEF batchVars, Batch!vars, Batch!connectVars, Batch!argVars
    <2>. QED
        BY <2>1 DEF RunnerNext, runnerVars, QueryWork, BatchWork, Next, Batch!Next
<1>. QED
    BY <1>1, <1>2, PTL DEF RunnerSpec, Spec, Batch!Spec

\* Whichever statement or commit fails, a batch is durable as a whole or not at
\* all under one deferred commit, and up to some statement otherwise; a result
\* means that all of it is.
THEOREM PrefixOrWholeCorrect == RunnerSpec => []PrefixOrWhole
<1>1. BatchInv => PrefixOrWhole
    <2> SUFFICES ASSUME BatchInv PROVE PrefixOrWhole
        OBVIOUS
    <2>1. /\ ~ batchAutocommit /\ ~ commitPerStatement => batchApplied \in {{}, 1..count}
          /\ batchOutcome.kind = "result" => batchApplied = 1..count
          /\ \A i \in 1..MaxStatements : begun[i] <= 1
        BY DEF BatchInv, BegunInv, Settled, Halfway
    <2>2. \E m \in Nat : batchApplied = 1..m
        <3>1. CASE batchPc = "done"
            BY <3>1 DEF BatchInv, BatchTypes, Settled
        <3>2. CASE batchPc # "done"
            <4>1. {} = 1..0 /\ next - 1 \in Nat /\ (next > 1 => next - 2 \in Nat)
                BY DEF BatchInv, BatchTypes
            <4>2. /\ batchPc = "commit_one" => next > 1
                  /\ batchApplied \in {{}, 1..(next - 1)}
                        \cup (IF batchPc = "commit_one" THEN {1..(next - 2)} ELSE {})
                BY <3>2 DEF BatchInv, Halfway
            <4>. QED
                BY <4>1, <4>2
        <3>. QED
            BY <3>1, <3>2
    <2>3. \A i \in batchApplied : \A j \in 1..(i - 1) : j \in batchApplied
        BY <2>2
    <2>. QED
        BY <2>1, <2>3 DEF PrefixOrWhole, Batch!PrefixOrWhole, Batch!Statements
<1>. QED
    BY <1>1, RunnerRunsBoth, BatchInvariant, PTL
=============================================================================
