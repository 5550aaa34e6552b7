----------------------------- MODULE RestProofs -----------------------------
(***************************************************************************)
(* Safety of the two layers every REST call goes through, for every set of *)
(* callers and every value of the limits: the client of HttpClient, and    *)
(* the creates of Lro that send their requests through it.                 *)
(***************************************************************************)
EXTENDS HttpClient, Lro, FiniteSetTheorems, WellFoundedInduction, TLAPS

(***************************************************************************)
(* The client.                                                             *)
(***************************************************************************)

\* Before the answer of its last attempt a coroutine has counted few enough
\* 429s to go round again, and only safe methods ever start a new attempt.
CounterInv ==
    \A c \in Callers :
        /\ pc[c] = "idle" => sends[c] = 0 /\ attempt[c] = 1 /\ n429[c] = 0
        /\ pc[c] # "done" => n429[c] < Max429
        /\ method[c] \notin Idempotent => attempt[c] = 1

\* An unsafe request has taken no effect as long as it may be sent again.
EffectInv ==
    \A c \in Callers :
        method[c] \notin Idempotent => commits[c] <= IF pc[c] = "done" THEN 1 ELSE 0

\* Every send is accounted for by a finished attempt, by a 429 of this attempt
\* or by the answer that is awaited.
SendInv ==
    \A c \in Callers :
        sends[c] <= (attempt[c] - 1) * Max429
                    + (IF pc[c] = "done" THEN Max429
                       ELSE IF pc[c] = "sent" THEN n429[c] + 1 ELSE n429[c])

\* A late send leaves no way to a second one but the deadline check.
LateInv ==
    \A c \in Callers :
        /\ lateSends[c] <= 1
        /\ pc[c] = "idle" => lateSends[c] = 0
        /\ lateSends[c] > 0 =>
              budget[c] = 0 /\ pc[c] \in {"sent", "check", "backoff", "done"}

LockInv == LockOnlyWhileFetching /\ NoRedundantFetch

IInv == CounterInv /\ EffectInv /\ SendInv /\ LateInv /\ LockInv

-----------------------------------------------------------------------------
\* Every variable stays in its set in every behaviour of the client.
THEOREM TypeCorrect == Spec => []TypeOK
<1>1. Init => TypeOK
  BY HttpAssumption DEF Init, TypeOK, Places, Outcomes
<1>2. TypeOK /\ [Next]_vars => TypeOK'
  <2> SUFFICES ASSUME TypeOK, [Next]_vars
               PROVE  TypeOK'
    OBVIOUS
  <2> USE HttpAssumption DEF TypeOK, Places, Outcomes, Goto, Finish, callerVars,
        retryVars, sharedVars, ghostVars
  <2>1. ASSUME NEW c \in Callers, Request(c) PROVE TypeOK'
    BY <2>1 DEF Request
  <2>2. ASSUME NEW c \in Callers, CheckDeadline(c) PROVE TypeOK'
    BY <2>2 DEF CheckDeadline
  <2>3. ASSUME NEW c \in Callers, PassPause(c) PROVE TypeOK'
    BY <2>3 DEF PassPause
  <2>4. ASSUME NEW c \in Callers, UseCachedToken(c) PROVE TypeOK'
    BY <2>4 DEF UseCachedToken
  <2>5. ASSUME NEW c \in Callers, StartTokenFetch(c) PROVE TypeOK'
    BY <2>5 DEF StartTokenFetch, HoldLock
  <2>6. ASSUME NEW c \in Callers, TokenArrives(c) PROVE TypeOK'
    BY <2>6 DEF TokenArrives, ReleaseLock
  <2>7. ASSUME NEW c \in Callers, TokenFails(c) PROVE TypeOK'
    BY <2>7 DEF TokenFails, ReleaseLock
  <2>8. ASSUME NEW c \in Callers, Send(c) PROVE TypeOK'
    BY <2>8 DEF Send
  <2>9. ASSUME NEW c \in Callers, Succeed(c) PROVE TypeOK'
    BY <2>9 DEF Succeed, AnswerOutcome
  <2>10. ASSUME NEW c \in Callers, Refuse(c) PROVE TypeOK'
    BY <2>10 DEF Refuse, AnswerOutcome
  <2>11. ASSUME NEW c \in Callers, FailForGood(c) PROVE TypeOK'
    BY <2>11 DEF FailForGood, MayCommit, AnswerOutcome
  <2>12. ASSUME NEW c \in Callers, NEW h \in RetryAfterHeaders, Throttle(c, h)
         PROVE  TypeOK'
    <3>1. ParseRetryAfter(h) \in Nat
      BY DEF ParseRetryAfter, RetryAfterHeaders
    <3> QED
      BY <2>12, <3>1 DEF Throttle, Last429, LargerPause
  <2>13. ASSUME NEW c \in Callers, NEW f \in RetriableFailures, FailAttempt(c, f)
         PROVE  TypeOK'
    BY <2>13 DEF FailAttempt, MayCommit, AttemptsLeft
  <2>14. ASSUME NEW c \in Callers, Backoff(c) PROVE TypeOK'
    BY <2>14 DEF Backoff
  <2>15. ASSUME NEW c \in Callers, Cancel(c) PROVE TypeOK'
    BY <2>15 DEF Cancel, MayCommit, ReleaseLock
  <2>16. CASE Tick
    BY <2>16 DEF Tick, Less
  <2>17. CASE UNCHANGED vars
    BY <2>17 DEF vars
  <2> QED
    BY <2>1, <2>2, <2>3, <2>4, <2>5, <2>6, <2>7, <2>8, <2>9, <2>10, <2>11,
       <2>12, <2>13, <2>14, <2>15, <2>16, <2>17 DEF Next, Progress
<1> QED
  BY <1>1, <1>2, PTL DEF Spec

-----------------------------------------------------------------------------
\* The counters, ghosts and lock follow the places of the coroutines.
THEOREM InvariantCorrect == Spec => []IInv
<1>1. Init => IInv
  BY HttpAssumption DEF Init, IInv, CounterInv, EffectInv, SendInv, LateInv,
     LockInv, LockOnlyWhileFetching, NoRedundantFetch
<1>2. TypeOK /\ IInv /\ [Next]_vars => IInv'
  <2> SUFFICES ASSUME TypeOK, IInv, [Next]_vars
               PROVE  IInv'
    OBVIOUS
  <2> USE HttpAssumption DEF TypeOK, IInv, Goto, Finish, callerVars, retryVars,
        sharedVars, ghostVars
  <2>1. ASSUME NEW c \in Callers, Request(c)
         PROVE  IInv'
    <3>1. CounterInv'
      BY <2>1 DEF Request, CounterInv
    <3>2. EffectInv'
      BY <2>1 DEF Request, CounterInv, EffectInv
    <3>3. SendInv'
      BY <2>1 DEF Request, CounterInv, SendInv
    <3>4. LateInv'
      BY <2>1 DEF Request, LateInv
    <3>5. LockInv'
      BY <2>1 DEF Request, LockInv, LockOnlyWhileFetching, NoRedundantFetch, TokenFresh
    <3> QED
      BY <3>1, <3>2, <3>3, <3>4, <3>5
  <2>2. ASSUME NEW c \in Callers, CheckDeadline(c)
         PROVE  IInv'
    <3>1. CounterInv'
      BY <2>2 DEF CheckDeadline, BudgetSpent, CounterInv
    <3>2. EffectInv'
      BY <2>2 DEF CheckDeadline, BudgetSpent, CounterInv, EffectInv
    <3>3. SendInv'
      BY <2>2 DEF CheckDeadline, BudgetSpent, CounterInv, SendInv
    <3>4. LateInv'
      BY <2>2 DEF CheckDeadline, BudgetSpent, LateInv
    <3>5. LockInv'
      BY <2>2 DEF CheckDeadline, BudgetSpent, LockInv, LockOnlyWhileFetching, NoRedundantFetch, TokenFresh
    <3> QED
      BY <3>1, <3>2, <3>3, <3>4, <3>5
  <2>3. ASSUME NEW c \in Callers, PassPause(c)
         PROVE  IInv'
    <3>1. CounterInv'
      BY <2>3 DEF PassPause, CounterInv
    <3>2. EffectInv'
      BY <2>3 DEF PassPause, CounterInv, EffectInv
    <3>3. SendInv'
      BY <2>3 DEF PassPause, CounterInv, SendInv
    <3>4. LateInv'
      BY <2>3 DEF PassPause, LateInv
    <3>5. LockInv'
      BY <2>3 DEF PassPause, LockInv, LockOnlyWhileFetching, NoRedundantFetch, TokenFresh
    <3> QED
      BY <3>1, <3>2, <3>3, <3>4, <3>5
  <2>4. ASSUME NEW c \in Callers, UseCachedToken(c)
         PROVE  IInv'
    <3>1. CounterInv'
      BY <2>4 DEF UseCachedToken, CounterInv
    <3>2. EffectInv'
      BY <2>4 DEF UseCachedToken, CounterInv, EffectInv
    <3>3. SendInv'
      BY <2>4 DEF UseCachedToken, CounterInv, SendInv
    <3>4. LateInv'
      BY <2>4 DEF UseCachedToken, LateInv
    <3>5. LockInv'
      BY <2>4 DEF UseCachedToken, LockInv, LockOnlyWhileFetching, NoRedundantFetch, TokenFresh
    <3> QED
      BY <3>1, <3>2, <3>3, <3>4, <3>5
  <2>5. ASSUME NEW c \in Callers, StartTokenFetch(c)
         PROVE  IInv'
    <3>1. CounterInv'
      BY <2>5 DEF StartTokenFetch, HoldLock, CounterInv
    <3>2. EffectInv'
      BY <2>5 DEF StartTokenFetch, HoldLock, CounterInv, EffectInv
    <3>3. SendInv'
      BY <2>5 DEF StartTokenFetch, HoldLock, CounterInv, SendInv
    <3>4. LateInv'
      BY <2>5 DEF StartTokenFetch, HoldLock, LateInv
    <3>5. LockInv'
      BY <2>5 DEF StartTokenFetch, HoldLock, LockInv, LockOnlyWhileFetching, NoRedundantFetch, TokenFresh
    <3> QED
      BY <3>1, <3>2, <3>3, <3>4, <3>5
  <2>6. ASSUME NEW c \in Callers, TokenArrives(c)
         PROVE  IInv'
    <3>1. CounterInv'
      BY <2>6 DEF TokenArrives, ReleaseLock, CounterInv
    <3>2. EffectInv'
      BY <2>6 DEF TokenArrives, ReleaseLock, CounterInv, EffectInv
    <3>3. SendInv'
      BY <2>6 DEF TokenArrives, ReleaseLock, CounterInv, SendInv
    <3>4. LateInv'
      BY <2>6 DEF TokenArrives, ReleaseLock, LateInv
    <3>5. LockInv'
      BY <2>6 DEF TokenArrives, ReleaseLock, LockInv, LockOnlyWhileFetching, NoRedundantFetch, TokenFresh
    <3> QED
      BY <3>1, <3>2, <3>3, <3>4, <3>5
  <2>7. ASSUME NEW c \in Callers, TokenFails(c)
         PROVE  IInv'
    <3>1. CounterInv'
      BY <2>7 DEF TokenFails, ReleaseLock, CounterInv
    <3>2. EffectInv'
      BY <2>7 DEF TokenFails, ReleaseLock, CounterInv, EffectInv
    <3>3. SendInv'
      BY <2>7 DEF TokenFails, ReleaseLock, CounterInv, SendInv
    <3>4. LateInv'
      BY <2>7 DEF TokenFails, ReleaseLock, LateInv
    <3>5. LockInv'
      BY <2>7 DEF TokenFails, ReleaseLock, LockInv, LockOnlyWhileFetching, NoRedundantFetch, TokenFresh
    <3> QED
      BY <3>1, <3>2, <3>3, <3>4, <3>5
  <2>8. ASSUME NEW c \in Callers, Send(c)
         PROVE  IInv'
    <3>1. CounterInv'
      BY <2>8 DEF Send, CounterInv
    <3>2. EffectInv'
      BY <2>8 DEF Send, CounterInv, EffectInv
    <3>3. SendInv'
      BY <2>8 DEF Send, CounterInv, SendInv
    <3>4. LateInv'
      BY <2>8 DEF Send, LateInv
    <3>5. LockInv'
      BY <2>8 DEF Send, LockInv, LockOnlyWhileFetching, NoRedundantFetch, TokenFresh
    <3> QED
      BY <3>1, <3>2, <3>3, <3>4, <3>5
  <2>9. ASSUME NEW c \in Callers, Succeed(c)
         PROVE  IInv'
    <3>1. CounterInv'
      BY <2>9 DEF Succeed, CounterInv
    <3>2. EffectInv'
      BY <2>9 DEF Succeed, CounterInv, EffectInv
    <3>3. SendInv'
      BY <2>9 DEF Succeed, CounterInv, SendInv
    <3>4. LateInv'
      BY <2>9 DEF Succeed, LateInv
    <3>5. LockInv'
      BY <2>9 DEF Succeed, LockInv, LockOnlyWhileFetching, NoRedundantFetch, TokenFresh
    <3> QED
      BY <3>1, <3>2, <3>3, <3>4, <3>5
  <2>10. ASSUME NEW c \in Callers, Refuse(c)
         PROVE  IInv'
    <3>1. CounterInv'
      BY <2>10 DEF Refuse, CounterInv
    <3>2. EffectInv'
      BY <2>10 DEF Refuse, CounterInv, EffectInv
    <3>3. SendInv'
      BY <2>10 DEF Refuse, CounterInv, SendInv
    <3>4. LateInv'
      BY <2>10 DEF Refuse, LateInv
    <3>5. LockInv'
      BY <2>10 DEF Refuse, LockInv, LockOnlyWhileFetching, NoRedundantFetch, TokenFresh
    <3> QED
      BY <3>1, <3>2, <3>3, <3>4, <3>5
  <2>11. ASSUME NEW c \in Callers, FailForGood(c)
         PROVE  IInv'
    <3>1. CounterInv'
      BY <2>11 DEF FailForGood, MayCommit, CounterInv
    <3>2. EffectInv'
      BY <2>11 DEF FailForGood, MayCommit, CounterInv, EffectInv
    <3>3. SendInv'
      BY <2>11 DEF FailForGood, MayCommit, CounterInv, SendInv
    <3>4. LateInv'
      BY <2>11 DEF FailForGood, MayCommit, LateInv
    <3>5. LockInv'
      BY <2>11 DEF FailForGood, MayCommit, LockInv, LockOnlyWhileFetching, NoRedundantFetch, TokenFresh
    <3> QED
      BY <3>1, <3>2, <3>3, <3>4, <3>5
  <2>12. ASSUME NEW c \in Callers, NEW h \in RetryAfterHeaders, Throttle(c, h)
         PROVE  IInv'
    <3>1. CounterInv'
      BY <2>12 DEF Throttle, Last429, CounterInv
    <3>2. EffectInv'
      BY <2>12 DEF Throttle, Last429, CounterInv, EffectInv
    <3>3. SendInv'
      BY <2>12 DEF Throttle, Last429, CounterInv, SendInv
    <3>4. LateInv'
      BY <2>12 DEF Throttle, Last429, LateInv
    <3>5. LockInv'
      BY <2>12 DEF Throttle, Last429, LockInv, LockOnlyWhileFetching, NoRedundantFetch, TokenFresh
    <3> QED
      BY <3>1, <3>2, <3>3, <3>4, <3>5
  <2>13. ASSUME NEW c \in Callers, NEW f \in RetriableFailures, FailAttempt(c, f)
         PROVE  IInv'
    <3>1. CounterInv'
      BY <2>13 DEF FailAttempt, MayCommit, AttemptsLeft, ShouldRetry, CounterInv
    <3>2. EffectInv'
      BY <2>13 DEF FailAttempt, MayCommit, AttemptsLeft, ShouldRetry, CounterInv, EffectInv
    <3>3. SendInv'
      BY <2>13 DEF FailAttempt, MayCommit, AttemptsLeft, ShouldRetry, CounterInv, SendInv
    <3>4. LateInv'
      BY <2>13 DEF FailAttempt, MayCommit, AttemptsLeft, ShouldRetry, LateInv
    <3>5. LockInv'
      BY <2>13 DEF FailAttempt, MayCommit, AttemptsLeft, ShouldRetry, LockInv, LockOnlyWhileFetching, NoRedundantFetch, TokenFresh
    <3> QED
      BY <3>1, <3>2, <3>3, <3>4, <3>5
  <2>14. ASSUME NEW c \in Callers, Backoff(c)
         PROVE  IInv'
    <3>1. CounterInv'
      BY <2>14 DEF Backoff, CounterInv
    <3>2. EffectInv'
      BY <2>14 DEF Backoff, CounterInv, EffectInv
    <3>3. SendInv'
      BY <2>14 DEF Backoff, CounterInv, SendInv
    <3>4. LateInv'
      BY <2>14 DEF Backoff, LateInv
    <3>5. LockInv'
      BY <2>14 DEF Backoff, LockInv, LockOnlyWhileFetching, NoRedundantFetch, TokenFresh
    <3> QED
      BY <3>1, <3>2, <3>3, <3>4, <3>5
  <2>15. ASSUME NEW c \in Callers, Cancel(c)
         PROVE  IInv'
    <3>1. CounterInv'
      BY <2>15 DEF Cancel, MayCommit, ReleaseLock, CounterInv
    <3>2. EffectInv'
      BY <2>15 DEF Cancel, MayCommit, ReleaseLock, CounterInv, EffectInv
    <3>3. SendInv'
      BY <2>15 DEF Cancel, MayCommit, ReleaseLock, CounterInv, SendInv
    <3>4. LateInv'
      BY <2>15 DEF Cancel, MayCommit, ReleaseLock, LateInv
    <3>5. LockInv'
      BY <2>15 DEF Cancel, MayCommit, ReleaseLock, LockInv, LockOnlyWhileFetching, NoRedundantFetch, TokenFresh
    <3> QED
      BY <3>1, <3>2, <3>3, <3>4, <3>5
  <2>16. CASE Tick
    <3>1. CounterInv'
      BY <2>16 DEF Tick, Less, CounterInv
    <3>2. EffectInv'
      BY <2>16 DEF Tick, Less, CounterInv, EffectInv
    <3>3. SendInv'
      BY <2>16 DEF Tick, Less, CounterInv, SendInv
    <3>4. LateInv'
      BY <2>16 DEF Tick, Less, LateInv
    <3>5. LockInv'
      BY <2>16 DEF Tick, Less, LockInv, LockOnlyWhileFetching, NoRedundantFetch, TokenFresh
    <3> QED
      BY <3>1, <3>2, <3>3, <3>4, <3>5
  <2>17. CASE UNCHANGED vars
    BY <2>17 DEF vars, CounterInv, EffectInv, SendInv, LateInv, LockInv,
       LockOnlyWhileFetching, NoRedundantFetch, TokenFresh
  <2> QED
    BY <2>1, <2>2, <2>3, <2>4, <2>5, <2>6, <2>7, <2>8,
       <2>9, <2>10, <2>11, <2>12, <2>13, <2>14, <2>15, <2>16, <2>17 DEF Next, Progress
<1> QED
  BY <1>1, <1>2, TypeCorrect, PTL DEF Spec

-----------------------------------------------------------------------------
\* A POST, PATCH or DELETE takes effect at most once per request(), however
\* many callers, attempts and 429s there are.
THEOREM NoDuplicateEffectCorrect == Spec => []NoDuplicateEffect
<1>1. TypeOK /\ IInv => NoDuplicateEffect
  BY DEF TypeOK, IInv, EffectInv, NoDuplicateEffect
<1> QED
  BY <1>1, TypeCorrect, InvariantCorrect, PTL

\* Attempt numbers stay within their limit, so the accounted sends do.
LEMMA AttemptsTimes429 ==
    ASSUME NEW a \in Nat, NEW b \in Nat, NEW m \in Nat, a <= b
    PROVE  (a - 1) * m + m <= b * m
<1>1. (a - 1) * m + m = a * m
  OBVIOUS
<1>2. (b - a) * m >= 0
  OBVIOUS
<1>3. (b - a) * m = b * m - a * m
  OBVIOUS
<1> QED
  BY <1>1, <1>2, <1>3

\* A request is on the wire at most MaxAttempts * Max429 times, an unsafe one
\* at most Max429 times.
THEOREM SendsBoundedCorrect == Spec => []SendsBounded
<1>1. TypeOK /\ IInv => SendsBounded
  <2> SUFFICES ASSUME TypeOK, IInv, NEW c \in Callers
               PROVE  sends[c] <= (IF method[c] \in Idempotent THEN MaxAttempts ELSE 1)
                                  * Max429
    BY DEF SendsBounded
  <2> DEFINE limit == IF method[c] \in Idempotent THEN MaxAttempts ELSE 1
  <2>1. /\ attempt[c] \in Nat /\ limit \in Nat /\ attempt[c] <= limit
        /\ Max429 \in Nat \ {0} /\ sends[c] \in Nat /\ n429[c] \in Nat
    BY HttpAssumption DEF TypeOK, IInv, CounterInv
  <2>2. sends[c] <= (attempt[c] - 1) * Max429 + Max429
    BY <2>1 DEF IInv, CounterInv, SendInv
  <2>3. (attempt[c] - 1) * Max429 + Max429 <= limit * Max429
    BY <2>1, AttemptsTimes429
  <2> QED
    BY <2>1, <2>2, <2>3
<1> QED
  BY <1>1, TypeCorrect, InvariantCorrect, PTL

\* At most one send of a request follows its combined deadline.
THEOREM AtMostOneLateSendCorrect == Spec => []AtMostOneLateSend
<1>1. IInv => AtMostOneLateSend
  BY DEF IInv, LateInv, AtMostOneLateSend
<1> QED
  BY <1>1, InvariantCorrect, PTL

\* The token lock is held exactly during a credential call, and no credential
\* call runs for a scope whose cached token is good.
THEOREM TokenLockCorrect == Spec => [](LockOnlyWhileFetching /\ NoRedundantFetch)
<1>1. IInv => LockOnlyWhileFetching /\ NoRedundantFetch
  BY DEF IInv, LockInv
<1> QED
  BY <1>1, InvariantCorrect, PTL

-----------------------------------------------------------------------------
(***************************************************************************)
(* The creates.  A call makes at most one item, and what it returns is an  *)
(* item it made: that is not inductive by itself, as it depends on where   *)
(* the call has been (WayThere), on what it cannot have made before        *)
(* (NotYetMade) and on the names of all other warehouses (UniqueNames).    *)
(***************************************************************************)

Phases == {"post", "poll", "result", "by_name", "list", "detail", "done"}
Answers == {"none", "result", "failed"}
Owners == Creators \cup {User, System}
ItemSet == [kind : AllKinds, owner : Owners, name : Names \cup {NoName},
            listed : BOOLEAN, detailed : BOOLEAN]

\* Every variable of the calls and of the server stays in its set.
LroTypes ==
    /\ kind \in [Creators -> Kinds]
    /\ name \in [Creators -> Names \cup {NoName}]
    /\ phase \in [Creators -> Phases]
    /\ op \in [Creators -> {"none", "running", "succeeded", "failed"}]
    /\ items \in Seq(ItemSet)
    /\ got \in [Creators -> Nat \cup {OperationId}]
    /\ parent \in [Creators -> BOOLEAN]
    /\ answer \in [Creators -> Answers]
    /\ DOMAIN status = Creators /\ DOMAIN tries = Creators /\ DOMAIN waited = Creators

\* Two warehouses never have one name.
UniqueNames ==
    \A i, j \in DOMAIN items :
        /\ items[i].kind = "warehouse" /\ items[j].kind = "warehouse"
        /\ items[i].name = items[j].name
        => i = j

\* What a caller has made is one item of the kind and the name it asked for.
OwnOnce(c) ==
    /\ \A i, j \in Own(c) : i = j
    /\ \A i \in Own(c) : items[i].kind = kind[c] /\ items[i].name = name[c]

\* Nothing is made before POST, nor while the operation it started runs.
NotYetMade(c) ==
    /\ phase[c] = "post" => op[c] = "none"
    /\ phase[c] = "post" \/ op[c] = "running" => Own(c) = {}

\* Where each place is reached from.
WayThere(c) ==
    /\ phase[c] \in {"result", "list"} => op[c] = "succeeded"
    /\ phase[c] = "by_name" => op[c] = "none" /\ kind[c] = "warehouse" /\ Own(c) # {}
    /\ phase[c] = "result" => kind[c] # "in_place"
    /\ phase[c] = "list" => kind[c] = "restore_point"
    /\ phase[c] = "detail" =>
          /\ op[c] \in {"none", "succeeded"}
          /\ kind[c] \notin {"lakehouse", "in_place"}
          /\ got[c] \in Own(c) \cup {OperationId}

\* What a caller that came back may say.
Answered(c) ==
    /\ phase[c] = "done" <=> answer[c] # "none"
    /\ answer[c] = "result" =>
          /\ op[c] \in {"none", "succeeded"}
          /\ kind[c] \notin {"restore_point", "in_place"} => got[c] \in Own(c)
          /\ kind[c] = "snapshot" => parent[c]

OneCall(c) == OwnOnce(c) /\ NotYetMade(c) /\ WayThere(c) /\ Answered(c)
LInv == LroTypes /\ UniqueNames /\ \A c \in Creators : OneCall(c)

\* An item is a record of its kind, its owner and its name.
LEMMA ItemTyped ==
    ASSUME NEW k \in AllKinds, NEW o \in Owners, NEW n \in Names \cup {NoName}
    PROVE  /\ Item(k, o, n) \in ItemSet
           /\ Item(k, o, n).kind = k /\ Item(k, o, n).owner = o /\ Item(k, o, n).name = n
BY DEF Item, ItemSet

\* Appending an item leaves the others, and their owners, as they are.
LEMMA Appended ==
    ASSUME LroTypes, NEW k \in AllKinds, NEW o \in Owners, NEW n \in Names \cup {NoName},
           items' = Append(items, Item(k, o, n))
    PROVE  /\ items' \in Seq(ItemSet)
           /\ Len(items) \in Nat /\ Len(items') = Len(items) + 1
           /\ DOMAIN items = 1..Len(items) /\ DOMAIN items' = 1..(Len(items) + 1)
           /\ \A i \in DOMAIN items : items'[i] = items[i]
           /\ items'[Len(items) + 1] = Item(k, o, n)
           /\ Own(o)' = Own(o) \cup {Len(items) + 1}
           /\ \A d \in Owners \ {o} : Own(d)' = Own(d)
<1>1. Item(k, o, n) \in ItemSet /\ Item(k, o, n).owner = o
    BY ItemTyped
<1>2. items \in Seq(ItemSet)
    BY DEF LroTypes
<1>3. /\ items' \in Seq(ItemSet)
      /\ Len(items) \in Nat /\ Len(items') = Len(items) + 1
      /\ DOMAIN items = 1..Len(items) /\ DOMAIN items' = 1..(Len(items) + 1)
      /\ \A i \in DOMAIN items : items'[i] = items[i]
      /\ items'[Len(items) + 1] = Item(k, o, n)
    BY <1>1, <1>2
<1>4. Own(o)' = Own(o) \cup {Len(items) + 1}
    BY <1>1, <1>3 DEF Own
<1>5. ASSUME NEW d \in Owners \ {o} PROVE Own(d)' = Own(d)
    BY <1>1, <1>3 DEF Own
<1>. QED
    BY <1>3, <1>4, <1>5

\* A new item whose name is free keeps names apart.
LEMMA StillUnique ==
    ASSUME LroTypes, UniqueNames, NEW k \in AllKinds, NEW o \in Owners,
           NEW n \in Names \cup {NoName}, Free(k, n), items' = Append(items, Item(k, o, n))
    PROVE  UniqueNames'
<1> SUFFICES ASSUME NEW i \in DOMAIN items', NEW j \in DOMAIN items',
                    items'[i].kind = "warehouse", items'[j].kind = "warehouse",
                    items'[i].name = items'[j].name
             PROVE  i = j
    BY DEF UniqueNames
<1>1. /\ DOMAIN items = 1..Len(items) /\ DOMAIN items' = 1..(Len(items) + 1)
      /\ Len(items) \in Nat
      /\ \A h \in DOMAIN items : items'[h] = items[h]
      /\ items'[Len(items) + 1].kind = k /\ items'[Len(items) + 1].name = n
    BY Appended, ItemTyped
<1>2. CASE i \in DOMAIN items /\ j \in DOMAIN items
    BY <1>1, <1>2 DEF UniqueNames
<1>3. CASE i = Len(items) + 1 /\ j \in DOMAIN items
    BY <1>1, <1>3 DEF Free
<1>4. CASE i \in DOMAIN items /\ j = Len(items) + 1
    BY <1>1, <1>4 DEF Free
<1>. QED
    BY <1>1, <1>2, <1>3, <1>4

\* Nothing that OneCall looks at changes for d.
Keeps(d) ==
    /\ kind'[d] = kind[d] /\ name'[d] = name[d] /\ phase'[d] = phase[d] /\ op'[d] = op[d]
    /\ got'[d] = got[d] /\ parent'[d] = parent[d] /\ answer'[d] = answer[d]
    /\ Own(d)' = Own(d)
    /\ \A i \in Own(d) : items'[i].kind = items[i].kind /\ items'[i].name = items[i].name

\* What a call has promised survives a step that keeps all of that.
LEMMA KeptCall ==
    ASSUME NEW d \in Creators, OneCall(d), Keeps(d)
    PROVE  OneCall(d)'
<1>1. OwnOnce(d)'
    BY DEF OneCall, OwnOnce, Keeps
<1>2. NotYetMade(d)'
    BY DEF OneCall, NotYetMade, Keeps
<1>3. WayThere(d)'
    BY DEF OneCall, WayThere, Keeps
<1>4. Answered(d)'
    BY DEF OneCall, Answered, Keeps
<1>. QED
    BY <1>1, <1>2, <1>3, <1>4 DEF OneCall

\* The item of a call that has none yet.
LEMMA MadeOne ==
    ASSUME LInv, NEW c \in Creators, Own(c) = {}, Makes(c), UNCHANGED callVars
    PROVE  /\ items' \in Seq(ItemSet) /\ UniqueNames'
           /\ Own(c)' = {Len(items')} /\ Len(items') \in Nat
           /\ items'[Len(items')].kind = kind[c] /\ items'[Len(items')].name = name[c]
           /\ \A d \in Creators \ {c} :
                 /\ Own(d)' = Own(d)
                 /\ \A i \in Own(d) : items'[i] = items[i]
<1>1. kind[c] \in AllKinds /\ name[c] \in Names \cup {NoName} /\ c \in Owners
    BY LroAssumption DEF LInv, LroTypes, Owners
<1>2. LroTypes /\ UniqueNames /\ Free(kind[c], name[c])
      /\ items' = Append(items, Item(kind[c], c, name[c]))
    BY DEF LInv, Makes
<1>3. UniqueNames'
    BY <1>1, <1>2, StillUnique
<1>4. /\ items' \in Seq(ItemSet)
      /\ Len(items) \in Nat /\ Len(items') = Len(items) + 1
      /\ \A i \in DOMAIN items : items'[i] = items[i]
      /\ items'[Len(items) + 1] = Item(kind[c], c, name[c])
      /\ Own(c)' = Own(c) \cup {Len(items) + 1}
      /\ \A d \in Owners \ {c} : Own(d)' = Own(d)
    BY <1>1, <1>2, Appended
<1>5. \A d \in Creators \ {c} : Own(d)' = Own(d) /\ \A i \in Own(d) : items'[i] = items[i]
    BY <1>4 DEF Owners, Own
<1>. QED
    BY <1>1, <1>3, <1>4, <1>5, ItemTyped

Others(c) == \A d \in Creators \ {c} : Keeps(d)
StepOf(c) == LroTypes' /\ UniqueNames' /\ OneCall(c)' /\ Others(c)

\* A step of c in which its operation stays as it is.
StepsAlone(c) ==
    /\ UNCHANGED <<callVars, op, status>>
    /\ DOMAIN tries' = Creators /\ DOMAIN waited' = Creators
    /\ phase' \in [Creators -> Phases] /\ answer' \in [Creators -> Answers]
    /\ got' \in [Creators -> Nat \cup {OperationId}] /\ parent' \in [Creators -> BOOLEAN]
    /\ \A d \in Creators \ {c} :
          /\ phase'[d] = phase[d] /\ answer'[d] = answer[d]
          /\ got'[d] = got[d] /\ parent'[d] = parent[d]

\* Such a step that makes nothing.
LEMMA ClientOnly ==
    ASSUME LInv, NEW c \in Creators, UNCHANGED items, StepsAlone(c)
    PROVE  /\ LroTypes' /\ UniqueNames' /\ Others(c) /\ OwnOnce(c)'
           /\ Own(c)' = Own(c) /\ op'[c] = op[c] /\ kind'[c] = kind[c]
<1> USE DEF callVars, StepsAlone
<1>1. LroTypes'
    BY DEF LInv, LroTypes
<1>2. UniqueNames'
    BY DEF LInv, UniqueNames
<1>3. \A d \in Owners : Own(d)' = Own(d)
    BY DEF Own
<1>4. Others(c)
    BY <1>3 DEF Others, Keeps, Owners
<1>5. OwnOnce(c)'
    BY <1>3 DEF LInv, OneCall, OwnOnce, Owners
<1>. QED
    BY <1>1, <1>2, <1>3, <1>4, <1>5 DEF Owners

\* The items of a call are numbers, which the id of an operation is not.
LEMMA OwnNumbers ==
    ASSUME LroTypes, NEW c \in Creators
    PROVE  Own(c) \subseteq Nat \ {OperationId}
BY LroAssumption DEF LroTypes, Own

\* A client that ends or goes on, having found nothing new.
LEMMA MovesOn ==
    ASSUME LInv, NEW c \in Creators, UNCHANGED <<callVars, serverVars, parent>>,
           phase[c] \notin {"post", "done"},
           DOMAIN tries' = Creators, DOMAIN waited' = Creators,
           \/ Ends(c, "failed") /\ UNCHANGED got
           \/ UNCHANGED <<phase, answer, got>>
    PROVE  StepOf(c)
<1>1. StepsAlone(c) /\ UNCHANGED items
    BY DEF LInv, LroTypes, Ends, Phases, Answers, StepsAlone, serverVars
<1>2. /\ \/ phase'[c] = "done" /\ answer'[c] = "failed"
         \/ phase'[c] = phase[c] /\ answer'[c] = answer[c]
      /\ got'[c] = got[c] /\ parent'[c] = parent[c]
    BY DEF LInv, LroTypes, Ends
<1>3. /\ LroTypes' /\ UniqueNames' /\ Others(c) /\ OwnOnce(c)'
      /\ Own(c)' = Own(c) /\ op'[c] = op[c] /\ kind'[c] = kind[c]
    BY <1>1, ClientOnly
<1>4. NotYetMade(c)' /\ WayThere(c)' /\ Answered(c)'
    BY <1>2, <1>3 DEF LInv, OneCall, NotYetMade, WayThere, Answered
<1>. QED
    BY <1>3, <1>4 DEF StepOf, OneCall

\* A client that has found an item of its own, or the id of its operation.
LEMMA FindsOwn ==
    ASSUME LInv, NEW c \in Creators, UNCHANGED <<callVars, serverVars, parent, waited>>,
           phase[c] \notin {"post", "done"}, op[c] \in {"none", "succeeded"},
           kind[c] # "in_place",
           NEW id \in Own(c) \cup {OperationId},
           kind[c] = "lakehouse" => id \in Own(c), Found(c, id)
    PROVE  StepOf(c)
<1>1. StepsAlone(c) /\ UNCHANGED items
    BY OwnNumbers DEF LInv, LroTypes, Found, Ends, Enter, Phases, Answers, StepsAlone, serverVars
<1>2. /\ got'[c] = id
      /\ IF kind[c] = "lakehouse" THEN phase'[c] = "done" /\ answer'[c] = "result"
                                  ELSE phase'[c] = "detail" /\ answer'[c] = answer[c]
    BY DEF LInv, LroTypes, Found, Ends, Enter
<1>3. answer[c] = "none"
    BY DEF LInv, OneCall, Answered, LroTypes
<1>4. /\ LroTypes' /\ UniqueNames' /\ Others(c) /\ OwnOnce(c)'
      /\ Own(c)' = Own(c) /\ op'[c] = op[c] /\ kind'[c] = kind[c]
    BY <1>1, ClientOnly
<1>5. NotYetMade(c)' /\ WayThere(c)' /\ Answered(c)'
    BY <1>2, <1>3, <1>4 DEF LInv, OneCall, NotYetMade, WayThere, Answered
<1>. QED
    BY <1>4, <1>5 DEF StepOf, OneCall

-----------------------------------------------------------------------------
(* POST. *)

\* A call between its POST and its answer, as far as its item goes.
LEMMA AfterPost ==
    ASSUME LInv, NEW c \in Creators, phase[c] = "post"
    PROVE  Own(c) = {} /\ op[c] = "none" /\ answer[c] = "none"
BY DEF LInv, OneCall, NotYetMade, Answered, LroTypes

\* The steps after POST: 202 starts an operation and makes nothing yet.
LEMMA PostAcceptedStep ==
    ASSUME LInv, NEW c \in Creators, PostAccepted(c)
    PROVE  StepOf(c)
<1> USE DEF PostAccepted, Enter, callVars
<1>1. Own(c) = {} /\ op[c] = "none" /\ answer[c] = "none"
    BY AfterPost
<1>2. \A d \in Owners : Own(d)' = Own(d)
    BY DEF Own
<1>3. LroTypes' /\ UniqueNames'
    BY DEF LInv, LroTypes, UniqueNames, Phases
<1>4. Others(c)
    BY <1>2 DEF LInv, LroTypes, Others, Keeps, Owners
<1>5. phase'[c] = "poll" /\ op'[c] = "running" /\ answer'[c] = "none" /\ Own(c)' = {}
    BY <1>1, <1>2 DEF LInv, LroTypes, Owners
<1>6. OneCall(c)'
    BY <1>5 DEF OneCall, OwnOnce, NotYetMade, WayThere, Answered
<1>. QED
    BY <1>3, <1>4, <1>6 DEF StepOf

\* A POST that makes an item, whatever c learns of it.
LEMMA PostMakes ==
    ASSUME LInv, NEW c \in Creators, phase[c] = "post", Makes(c), StepsAlone(c)
    PROVE  /\ LroTypes' /\ UniqueNames' /\ Others(c) /\ OwnOnce(c)'
           /\ Own(c)' = {Len(items')} /\ op'[c] = "none" /\ kind'[c] = kind[c]
<1> USE DEF callVars, StepsAlone
<1>1. Own(c) = {} /\ op[c] = "none"
    BY AfterPost
<1>2. /\ items' \in Seq(ItemSet) /\ UniqueNames'
      /\ Own(c)' = {Len(items')} /\ Len(items') \in Nat
      /\ items'[Len(items')].kind = kind[c] /\ items'[Len(items')].name = name[c]
      /\ \A d \in Creators \ {c} :
            /\ Own(d)' = Own(d)
            /\ \A i \in Own(d) : items'[i] = items[i]
    BY <1>1, MadeOne
<1>3. LroTypes'
    BY <1>2 DEF LInv, LroTypes
<1>4. Others(c)
    BY <1>2 DEF Others, Keeps
<1>5. OwnOnce(c)'
    BY <1>2 DEF OwnOnce
<1>. QED
    BY <1>1, <1>2, <1>3, <1>4, <1>5

\* 2xx with the item makes it and knows its number.
LEMMA PostCreatedStep ==
    ASSUME LInv, NEW c \in Creators, PostCreated(c)
    PROVE  StepOf(c)
<1>1. answer[c] = "none" /\ phase[c] = "post" /\ Own(c) = {} /\ Makes(c)
    BY AfterPost DEF PostCreated
<1>2. Len(items') \in Nat /\ Own(c)' = {Len(items')}
    BY <1>1, MadeOne DEF PostCreated
<1>3. StepsAlone(c)
    <2>1. /\ UNCHANGED <<callVars, op, status, parent, tries, waited>>
          /\ got' = got \/ got' = [got EXCEPT ![c] = Len(items')]
          /\ Enter(c, "detail") \/ Ends(c, "result") \/ Ends(c, "failed")
        BY DEF PostCreated
    <2>2. /\ phase' \in [Creators -> Phases] /\ answer' \in [Creators -> Answers]
          /\ \A d \in Creators \ {c} : phase'[d] = phase[d] /\ answer'[d] = answer[d]
        BY <2>1 DEF LInv, LroTypes, Ends, Enter, Phases, Answers
    <2>3. /\ got' \in [Creators -> Nat \cup {OperationId}]
          /\ \A d \in Creators \ {c} : got'[d] = got[d]
        BY <1>2, <2>1 DEF LInv, LroTypes
    <2>. QED
        BY <2>1, <2>2, <2>3 DEF LInv, LroTypes, StepsAlone
<1>4. /\ kind[c] # "in_place" /\ parent'[c] = parent[c]
      /\ kind[c] = "snapshot" => phase'[c] = "done" /\ answer'[c] = "failed"
      /\ kind[c] # "snapshot" => got'[c] = Len(items')
      /\ kind[c] = "warehouse" => phase'[c] = "detail" /\ answer'[c] = answer[c]
      /\ kind[c] \notin {"snapshot", "warehouse"} => phase'[c] = "done" /\ answer'[c] = "result"
    BY DEF LInv, LroTypes, PostCreated, Ends, Enter
<1>5. /\ LroTypes' /\ UniqueNames' /\ Others(c) /\ OwnOnce(c)'
      /\ op'[c] = "none" /\ kind'[c] = kind[c]
    BY <1>1, <1>3, PostMakes
<1>6. NotYetMade(c)' /\ WayThere(c)' /\ Answered(c)'
    BY <1>1, <1>2, <1>4, <1>5 DEF NotYetMade, WayThere, Answered
<1>. QED
    BY <1>5, <1>6 DEF StepOf, OneCall

\* A POST that tells c nothing, whether or not it made an item.
LEMMA PostSilent ==
    ASSUME LInv, NEW c \in Creators, phase[c] = "post", UNCHANGED items \/ MakesIfItem(c),
           StepsAlone(c),
           \/ phase'[c] = "done" /\ answer'[c] = "failed"
           \/ phase'[c] = "done" /\ answer'[c] = "result" /\ kind[c] = "in_place"
           \/ phase'[c] = "by_name" /\ answer'[c] = "none" /\ kind[c] = "warehouse" /\ Makes(c)
    PROVE  StepOf(c)
<1>1. Own(c) = {} /\ op[c] = "none"
    BY AfterPost
<1>2. CASE Makes(c)
    <2>1. /\ LroTypes' /\ UniqueNames' /\ Others(c) /\ OwnOnce(c)'
          /\ Own(c)' = {Len(items')} /\ op'[c] = "none" /\ kind'[c] = kind[c]
        BY <1>2, PostMakes
    <2>2. NotYetMade(c)' /\ WayThere(c)' /\ Answered(c)'
        BY <2>1 DEF NotYetMade, WayThere, Answered
    <2>. QED
        BY <2>1, <2>2 DEF StepOf, OneCall
<1>3. CASE UNCHANGED items /\ ~ Makes(c)
    <2>1. /\ LroTypes' /\ UniqueNames' /\ Others(c) /\ OwnOnce(c)'
          /\ Own(c)' = {} /\ op'[c] = "none" /\ kind'[c] = kind[c]
        BY <1>1, <1>3, ClientOnly
    <2>2. NotYetMade(c)' /\ WayThere(c)' /\ Answered(c)'
        BY <1>3, <2>1 DEF NotYetMade, WayThere, Answered
    <2>. QED
        BY <2>1, <2>2 DEF StepOf, OneCall
<1>. QED
    BY <1>2, <1>3 DEF MakesIfItem

\* 2xx with nothing.
LEMMA PostBareStep ==
    ASSUME LInv, NEW c \in Creators, PostBare(c)
    PROVE  StepOf(c)
<1>1. phase[c] = "post" /\ MakesIfItem(c)
    BY DEF PostBare
<1>2. answer[c] = "none"
    BY <1>1, AfterPost
<1>3. CASE kind[c] = "warehouse"
    <2>1. StepsAlone(c) /\ phase'[c] = "by_name" /\ answer'[c] = "none" /\ Makes(c)
        BY <1>2, <1>3 DEF LInv, LroTypes, PostBare, Enter, Phases, Answers, StepsAlone, MakesIfItem
    <2>. QED
        BY <1>1, <1>3, <2>1, PostSilent
<1>4. CASE kind[c] # "warehouse"
    <2>1. /\ StepsAlone(c) /\ phase'[c] = "done"
          /\ answer'[c] = IF kind[c] = "in_place" THEN "result" ELSE "failed"
        BY <1>4 DEF LInv, LroTypes, PostBare, Ends, Phases, Answers, StepsAlone
    <2>. QED
        BY <1>1, <2>1, PostSilent
<1>. QED
    BY <1>3, <1>4

\* A POST that is refused, or whose answer is lost.
LEMMA PostFailsStep ==
    ASSUME LInv, NEW c \in Creators, PostFails(c)
    PROVE  StepOf(c)
<1>1. /\ phase[c] = "post" /\ (UNCHANGED items \/ MakesIfItem(c))
      /\ StepsAlone(c) /\ phase'[c] = "done" /\ answer'[c] = "failed"
    BY DEF LInv, LroTypes, PostFails, RaisePost, Ends, Phases, Answers, StepsAlone
<1>. QED
    BY <1>1, PostSilent

-----------------------------------------------------------------------------
(* The requests that follow. *)

\* poll_operation finds an id of the item, of the operation, or none.
LEMMA PollSucceededStep ==
    ASSUME LInv, NEW c \in Creators, PollSucceeded(c)
    PROVE  StepOf(c)
<1>1. phase[c] = "poll" /\ op[c] = "succeeded" /\ UNCHANGED <<callVars, serverVars, parent, waited>>
    BY DEF PollSucceeded, Succeeded
<1>2. CASE NotLooking(c)
    <2>1. StepsAlone(c) /\ UNCHANGED items
        BY <1>1, <1>2 DEF LInv, LroTypes, NotLooking, Ends, Phases, Answers, StepsAlone, serverVars
    <2>2. phase'[c] = "done" /\ answer'[c] = "result" /\ kind[c] = "in_place"
        BY <1>2 DEF LInv, LroTypes, NotLooking, Ends
    <2>3. /\ LroTypes' /\ UniqueNames' /\ Others(c) /\ OwnOnce(c)'
          /\ op'[c] = op[c] /\ kind'[c] = kind[c]
        BY <2>1, ClientOnly
    <2>4. NotYetMade(c)' /\ WayThere(c)' /\ Answered(c)'
        BY <1>1, <2>2, <2>3 DEF NotYetMade, WayThere, Answered
    <2>. QED
        BY <2>3, <2>4 DEF StepOf, OneCall
<1>3. ASSUME kind[c] # "in_place", status[c] \in StatusKeys(kind[c]),
             NEW id \in IF status[c] = "resource" THEN Own(c) ELSE {OperationId},
             Found(c, id)
      PROVE  StepOf(c)
    <2>1. id \in Own(c) \cup {OperationId} /\ (kind[c] = "lakehouse" => id \in Own(c))
        BY <1>3 DEF StatusKeys
    <2>. QED
        BY <1>1, <1>3, <2>1, FindsOwn
<1>4. CASE kind[c] # "in_place" /\ Enter(c, "result") /\ UNCHANGED <<got, tries>>
    <2>1. StepsAlone(c) /\ UNCHANGED items
        BY <1>1, <1>4 DEF LInv, LroTypes, Enter, Phases, Answers, StepsAlone, serverVars
    <2>2. phase'[c] = "result" /\ answer'[c] = answer[c]
        BY <1>4 DEF LInv, LroTypes, Enter
    <2>3. /\ LroTypes' /\ UniqueNames' /\ Others(c) /\ OwnOnce(c)'
          /\ op'[c] = op[c] /\ kind'[c] = kind[c]
        BY <2>1, ClientOnly
    <2>4. NotYetMade(c)' /\ WayThere(c)' /\ Answered(c)'
        BY <1>1, <1>4, <2>2, <2>3 DEF LInv, OneCall, NotYetMade, WayThere, Answered
    <2>. QED
        BY <2>3, <2>4 DEF StepOf, OneCall
<1>. QED
    BY <1>2, <1>3, <1>4 DEF PollSucceeded

\* poll_operation sleeps or gives up, and requests that fail or are repeated.
LEMMA UneventfulStep ==
    ASSUME LInv, NEW c \in Creators,
           \/ PollFailed(c) \/ PollAgain(c) \/ PollTimeout(c)
           \/ ResultMissing(c) \/ DetailMissing(c) \/ RequestFails(c)
    PROVE  StepOf(c)
<1>1. UNCHANGED <<callVars, serverVars, parent>> /\ phase[c] \notin {"post", "done"}
    BY DEF PollFailed, PollAgain, PollTimeout, ResultMissing, DetailMissing, RequestFails
<1>2. DOMAIN tries' = Creators /\ DOMAIN waited' = Creators
    BY DEF LInv, LroTypes, PollFailed, PollAgain, PollTimeout, ResultMissing, DetailMissing,
           RequestFails, TryAgain, Wait
<1>3. \/ Ends(c, "failed") /\ UNCHANGED got
      \/ UNCHANGED <<phase, answer, got>>
    BY DEF PollFailed, PollAgain, PollTimeout, ResultMissing, DetailMissing, RequestFails,
           TryAgain
<1>. QED
    BY <1>1, <1>2, <1>3, MovesOn

\* Path B with an id.
LEMMA ResultFoundStep ==
    ASSUME LInv, NEW c \in Creators, ResultFound(c)
    PROVE  StepOf(c)
<1>1. PICK id \in Own(c) : Found(c, id)
    BY DEF ResultFound
<1>2. kind[c] # "in_place"
    BY DEF LInv, OneCall, WayThere, ResultFound
<1>. QED
    BY <1>1, <1>2, FindsOwn DEF ResultFound

\* Path B without one.
LEMMA ResultWithoutIdStep ==
    ASSUME LInv, NEW c \in Creators, ResultWithoutId(c)
    PROVE  StepOf(c)
<1>1. phase[c] = "result" /\ op[c] = "succeeded" /\ got'[c] = got[c]
    BY DEF ResultWithoutId
<1>2. StepsAlone(c) /\ UNCHANGED items
    BY DEF LInv, LroTypes, ResultWithoutId, Ends, Enter, Phases, Answers, StepsAlone, serverVars
<1>3. IF kind[c] = "restore_point" THEN phase'[c] = "list" /\ answer'[c] = answer[c]
                                   ELSE phase'[c] = "done" /\ answer'[c] = "failed"
    BY DEF LInv, LroTypes, ResultWithoutId, Ends, Enter
<1>4. /\ LroTypes' /\ UniqueNames' /\ Others(c) /\ OwnOnce(c)'
      /\ op'[c] = op[c] /\ kind'[c] = kind[c]
    BY <1>2, ClientOnly
<1>5. NotYetMade(c)' /\ WayThere(c)' /\ Answered(c)'
    BY <1>1, <1>3, <1>4 DEF LInv, OneCall, NotYetMade, WayThere, Answered
<1>. QED
    BY <1>4, <1>5 DEF StepOf, OneCall

\* The only warehouse of the name is the caller's own.
LEMMA ByNameStep ==
    ASSUME LInv, NEW c \in Creators, ByName(c)
    PROVE  StepOf(c)
<1>1. /\ phase[c] = "by_name" /\ op[c] = "none" /\ kind[c] = "warehouse" /\ Own(c) # {}
      /\ UNCHANGED <<callVars, serverVars, parent, waited>>
    BY DEF LInv, OneCall, WayThere, ByName
<1>2. Namesakes(c) \subseteq Own(c)
    BY <1>1 DEF LInv, OneCall, OwnOnce, UniqueNames, Namesakes, Listed, Own
<1>3. ASSUME NEW id \in Namesakes(c), Found(c, id)
      PROVE  StepOf(c)
    BY <1>1, <1>2, <1>3, FindsOwn
<1>4. ASSUME UNCHANGED got, TryAgain(c, NameTries, Ends(c, "failed"))
      PROVE  StepOf(c)
    <2>1. /\ DOMAIN tries' = Creators /\ DOMAIN waited' = Creators
          /\ (Ends(c, "failed") /\ UNCHANGED got) \/ UNCHANGED <<phase, answer, got>>
        BY <1>1, <1>4 DEF LInv, LroTypes, TryAgain
    <2>. QED
        BY <1>1, <2>1, MovesOn
<1>. QED
    BY <1>3, <1>4 DEF ByName

\* Max takes the largest of finitely many numbers.
LEMMA MaxIsLargest ==
    ASSUME NEW n \in Nat, NEW S \in SUBSET (1..n), S # {}
    PROVE  Max(S) \in S /\ \A x \in S : Max(S) >= x
<1> DEFINE below == OpToRel(<, Nat)
           T == {z \in Nat : n - z \in S}
<1>1. T # {}
    <2>1. PICK x \in S : TRUE
        OBVIOUS
    <2>2. x \in 1..n
        OBVIOUS
    <2>3. n - x \in Nat /\ n - (n - x) = x
        BY <2>2
    <2>. QED
        BY <2>1, <2>3
<1>2. PICK y \in T : \A z \in T : ~ (<<z, y>> \in below)
    <2>1. T \subseteq Nat
        OBVIOUS
    <2>2. IsWellFoundedOn(below, Nat)
        BY NatLessThanWellFounded
    <2>. HIDE DEF T, below
    <2>. QED
        BY <1>1, <2>1, <2>2, WFMin
<1>3. \A z \in T : z >= y
    <2>1. SUFFICES ASSUME NEW z \in T PROVE z >= y
        OBVIOUS
    <2>2. ~ (<<z, y>> \in {ss \in Nat \X Nat : ss[1] < ss[2]})
        BY <1>2 DEF OpToRel
    <2>3. <<z, y>> \in Nat \X Nat
        OBVIOUS
    <2>. QED
        BY <2>2, <2>3
<1>4. \A z \in S : n - y >= z
    <2>1. SUFFICES ASSUME NEW z \in S PROVE n - y >= z
        OBVIOUS
    <2>2. z \in 1..n
        OBVIOUS
    <2>3. n - z \in Nat /\ n - (n - z) = z
        BY <2>2
    <2>4. n - z \in T
        BY <2>3
    <2>. QED
        BY <1>3, <2>2, <2>4
<1>5. n - y \in S
    OBVIOUS
<1>. QED
    BY <1>4, <1>5 DEF Max

\* What Path C chooses from are items of the server.
LEMMA LargestPoint ==
    ASSUME LroTypes, NonSystem # {}
    PROVE  /\ Max(NonSystem) \in NonSystem
           /\ Max(NonSystem) \in Nat
           /\ \A i \in NonSystem : Max(NonSystem) >= i
<1>1. Len(items) \in Nat /\ NonSystem \subseteq 1..Len(items)
    BY DEF LroTypes, NonSystem, Listed
<1>2. Max(NonSystem) \in NonSystem /\ \A i \in NonSystem : Max(NonSystem) >= i
    BY <1>1, MaxIsLargest
<1>3. \A i \in NonSystem : i \in Nat
    BY <1>1
<1>. QED
    BY <1>2, <1>3, Zenon

\* Path C answers with an item or fails; the call keeps its own.
LEMMA ListPointsStep ==
    ASSUME LInv, NEW c \in Creators, ListPoints(c)
    PROVE  StepOf(c)
<1>1. phase[c] = "list" /\ op[c] = "succeeded" /\ kind[c] = "restore_point"
    BY DEF LInv, OneCall, WayThere, ListPoints
<1>2. /\ UNCHANGED <<callVars, serverVars, parent, tries, waited>>
      /\ got' = got \/ (Max(NonSystem) \in Nat /\ got' = [got EXCEPT ![c] = Max(NonSystem)])
      /\ Ends(c, "result") \/ Ends(c, "failed")
    BY LargestPoint DEF LInv, ListPoints
<1>3. StepsAlone(c) /\ UNCHANGED items
    BY <1>2 DEF LInv, LroTypes, Ends, Phases, Answers, StepsAlone, serverVars
<1>4. phase'[c] = "done" /\ answer'[c] \in {"result", "failed"}
    BY <1>2 DEF LInv, LroTypes, Ends
<1>5. /\ LroTypes' /\ UniqueNames' /\ Others(c) /\ OwnOnce(c)'
      /\ op'[c] = op[c] /\ kind'[c] = kind[c]
    BY <1>3, ClientOnly
<1>6. NotYetMade(c)' /\ WayThere(c)' /\ Answered(c)'
    BY <1>1, <1>4, <1>5 DEF NotYetMade, WayThere, Answered
<1>. QED
    BY <1>5, <1>6 DEF StepOf, OneCall

\* The detail request of an item that is the caller's own.
LEMMA DetailStep ==
    ASSUME LInv, NEW c \in Creators, Detail(c)
    PROVE  StepOf(c)
<1>1. /\ phase[c] = "detail" /\ op[c] \in {"none", "succeeded"} /\ got[c] \in Own(c)
      /\ answer[c] = "none" /\ UNCHANGED <<callVars, serverVars, got, waited>>
    BY DEF LInv, OneCall, WayThere, Answered, LroTypes, Detail
<1>2. /\ DOMAIN tries' = Creators
      /\ parent' = parent \/ parent' = [parent EXCEPT ![c] = TRUE]
      /\ Ends(c, "result") \/ UNCHANGED <<phase, answer>>
    BY DEF LInv, LroTypes, Detail, TryAgain, InjectParent
<1>3. StepsAlone(c) /\ UNCHANGED items
    BY <1>1, <1>2 DEF LInv, LroTypes, Ends, Phases, Answers, StepsAlone, serverVars
<1>4. /\ \/ phase'[c] = "done" /\ answer'[c] = "result"
         \/ phase'[c] = phase[c] /\ answer'[c] = answer[c]
      /\ got'[c] = got[c]
    BY <1>1, <1>2 DEF LInv, LroTypes, Ends
<1>5. answer'[c] = "result" /\ kind[c] = "snapshot" => parent'[c]
    <2>1. CASE items[got[c]].detailed
        BY <1>1, <2>1 DEF LInv, LroTypes, Detail
    <2>2. CASE TriesLeft(c, DetailTries)
        BY <1>1, <2>2 DEF LInv, LroTypes, Detail, TryAgain
    <2>3. CASE ~ TriesLeft(c, DetailTries)
        BY <1>1, <2>3 DEF LInv, LroTypes, Detail, InjectParent
    <2>. QED
        BY <2>1, <2>2, <2>3
<1>6. /\ LroTypes' /\ UniqueNames' /\ Others(c) /\ OwnOnce(c)'
      /\ Own(c)' = Own(c) /\ op'[c] = op[c] /\ kind'[c] = kind[c]
    BY <1>3, ClientOnly
<1>7. NotYetMade(c)' /\ WayThere(c)' /\ Answered(c)'
    BY <1>1, <1>4, <1>5, <1>6 DEF LInv, OneCall, NotYetMade, WayThere, Answered
<1>. QED
    BY <1>6, <1>7 DEF StepOf, OneCall

-----------------------------------------------------------------------------
(* The server, and others. *)

\* An operation that succeeds makes the one item of its call.
LEMMA CompleteStep ==
    ASSUME LInv, NEW c \in Creators, Complete(c)
    PROVE  StepOf(c)
<1> USE DEF Complete, callVars, clientVars
<1>1. op[c] = "running" /\ Own(c) = {} /\ phase[c] \notin {"post", "by_name", "detail", "result", "list"}
      /\ answer[c] # "result"
    BY DEF LInv, OneCall, NotYetMade, WayThere, Answered
<1>2. op'[c] = "succeeded" /\ DOMAIN status' = Creators
      /\ \A d \in Creators \ {c} : op'[d] = op[d]
    BY DEF LInv, LroTypes
<1>3. CASE Makes(c)
    <2>1. /\ items' \in Seq(ItemSet) /\ UniqueNames'
          /\ Own(c)' = {Len(items')}
          /\ items'[Len(items')].kind = kind[c] /\ items'[Len(items')].name = name[c]
          /\ \A d \in Creators \ {c} :
                /\ Own(d)' = Own(d)
                /\ \A i \in Own(d) : items'[i] = items[i]
        BY <1>1, <1>3, MadeOne
    <2>2. LroTypes'
        BY <1>2, <2>1 DEF LInv, LroTypes
    <2>3. Others(c)
        BY <1>2, <2>1 DEF Others, Keeps
    <2>4. OneCall(c)'
        BY <1>1, <1>2, <2>1 DEF LInv, OneCall, OwnOnce, NotYetMade, WayThere, Answered
    <2>. QED
        BY <2>1, <2>2, <2>3, <2>4 DEF StepOf
<1>4. CASE UNCHANGED items
    <2>1. \A d \in Owners : Own(d)' = Own(d)
        BY <1>4 DEF Own
    <2>2. LroTypes' /\ UniqueNames'
        BY <1>4 DEF LInv, LroTypes, UniqueNames
    <2>3. Others(c)
        BY <1>2, <1>4, <2>1 DEF Others, Keeps, Owners
    <2>4. OneCall(c)'
        BY <1>1, <1>2, <1>4, <2>1
           DEF LInv, OneCall, OwnOnce, NotYetMade, WayThere, Answered, Owners
    <2>. QED
        BY <2>2, <2>3, <2>4 DEF StepOf
<1>. QED
    BY <1>3, <1>4 DEF MakesIfItem

\* An operation that fails makes none.
LEMMA AbortStep ==
    ASSUME LInv, NEW c \in Creators, Abort(c)
    PROVE  StepOf(c)
<1> USE DEF Abort, callVars, clientVars
<1>1. op[c] = "running" /\ Own(c) = {} /\ phase[c] \notin {"post", "by_name", "detail", "result", "list"}
      /\ answer[c] # "result"
    BY DEF LInv, OneCall, NotYetMade, WayThere, Answered
<1>2. op'[c] = "failed" /\ \A d \in Creators \ {c} : op'[d] = op[d]
    BY DEF LInv, LroTypes
<1>3. \A d \in Owners : Own(d)' = Own(d)
    BY DEF Own
<1>4. LroTypes' /\ UniqueNames'
    BY DEF LInv, LroTypes, UniqueNames
<1>5. Others(c)
    BY <1>2, <1>3 DEF Others, Keeps, Owners
<1>6. OneCall(c)'
    BY <1>1, <1>2, <1>3 DEF LInv, OneCall, OwnOnce, NotYetMade, WayThere, Answered, Owners
<1>. QED
    BY <1>4, <1>5, <1>6 DEF StepOf

\* A step that changes no call.
LEMMA SettleStep ==
    ASSUME LInv, NEW i \in DOMAIN items, Settle(i)
    PROVE  LroTypes' /\ UniqueNames' /\ \A d \in Creators : Keeps(d)
<1> USE DEF Settle, callVars, clientVars
<1>1. items \in Seq(ItemSet) /\ items[i] \in ItemSet
    BY DEF LInv, LroTypes
<1>2. /\ items' \in Seq(ItemSet) /\ DOMAIN items' = DOMAIN items
      /\ \A j \in DOMAIN items : /\ items'[j].kind = items[j].kind
                                 /\ items'[j].name = items[j].name
                                 /\ items'[j].owner = items[j].owner
    <2>1. PICK x \in ItemSet : /\ items' = [items EXCEPT ![i] = x]
                              /\ x.kind = items[i].kind /\ x.name = items[i].name
                              /\ x.owner = items[i].owner
        <3>1. [items[i] EXCEPT !.listed = TRUE] \in ItemSet
              /\ [items[i] EXCEPT !.detailed = TRUE] \in ItemSet
            BY <1>1 DEF ItemSet
        <3>. QED
            BY <1>1, <3>1 DEF ItemSet
    <2>. QED
        BY <1>1, <2>1
<1>3. LroTypes'
    BY <1>2 DEF LInv, LroTypes
<1>4. UniqueNames'
    BY <1>2 DEF LInv, UniqueNames
<1>5. \A d \in Creators : Own(d)' = Own(d)
    BY <1>2 DEF Own
<1>6. \A d \in Creators : Keeps(d)
    BY <1>2, <1>5 DEF Keeps, Own
<1>. QED
    BY <1>3, <1>4, <1>6

\* Neither do the items of others.
LEMMA OtherItemStep ==
    ASSUME LInv, NEW o \in {User, System}, NEW k \in {"warehouse", "restore_point"},
           OtherItem(o, k)
    PROVE  LroTypes' /\ UniqueNames' /\ \A d \in Creators : Keeps(d)
<1>1. PICK n \in NamesOf(k) : Free(k, n) /\ items' = Append(items, Item(k, o, n))
    BY DEF OtherItem
<1>2. k \in AllKinds /\ o \in Owners /\ n \in Names \cup {NoName} /\ o \notin Creators
    BY LroAssumption DEF AllKinds, Owners, NamesOf
<1>3. LroTypes /\ UniqueNames
    BY DEF LInv
<1>4. UniqueNames'
    BY <1>1, <1>2, <1>3, StillUnique
<1>5. /\ items' \in Seq(ItemSet)
      /\ \A i \in DOMAIN items : items'[i] = items[i]
      /\ \A d \in Owners \ {o} : Own(d)' = Own(d)
    BY <1>1, <1>2, <1>3, Appended
<1>6. LroTypes'
    BY <1>5 DEF LInv, LroTypes, OtherItem, callVars, clientVars
<1>7. \A d \in Creators : Keeps(d)
    BY <1>2, <1>5 DEF Keeps, Owners, Own, OtherItem, callVars, clientVars
<1>. QED
    BY <1>4, <1>6, <1>7

\* At the start there are no items and no calls have begun.
LEMMA LInvInit == LroInit => LInv
<1> SUFFICES ASSUME LroInit PROVE LInv
    OBVIOUS
<1>1. items = <<>> /\ \A c \in Creators : Own(c) = {}
    BY DEF LroInit, Own
<1>2. LroTypes
    BY <1>1 DEF LroInit, LroTypes, Phases, Answers
<1>3. UniqueNames
    BY <1>1 DEF UniqueNames
<1>4. ASSUME NEW c \in Creators PROVE OneCall(c)
    BY <1>1 DEF LroInit, OneCall, OwnOnce, NotYetMade, WayThere, Answered
<1>. QED
    BY <1>2, <1>3, <1>4 DEF LInv

\* A step of one call keeps the invariant for it and for the others.
LEMMA LInvOfStep ==
    ASSUME LInv, NEW c \in Creators, StepOf(c)
    PROVE  LInv'
<1>1. ASSUME NEW d \in Creators \ {c} PROVE OneCall(d)'
    BY <1>1, KeptCall DEF StepOf, Others, LInv
<1>. QED
    BY <1>1 DEF StepOf, LInv

\* So does a step that changes no call.
LEMMA LInvOfOther ==
    ASSUME LInv, LroTypes', UniqueNames', \A d \in Creators : Keeps(d)
    PROVE  LInv'
<1>1. ASSUME NEW d \in Creators PROVE OneCall(d)'
    BY <1>1, KeptCall DEF LInv
<1>. QED
    BY <1>1 DEF LInv

\* So does a stutter.
LEMMA LInvStutters ==
    ASSUME LInv, UNCHANGED lroVars
    PROVE  LInv'
<1> USE DEF lroVars, callVars, serverVars, clientVars
<1>1. LroTypes' /\ UniqueNames'
    BY DEF LInv, LroTypes, UniqueNames
<1>2. \A d \in Creators : Keeps(d)
    BY DEF Keeps, Own
<1>. QED
    BY <1>1, <1>2, LInvOfOther

\* Every step of a call is one of those above.
LEMMA WorkStep ==
    ASSUME LInv, NEW c \in Creators, Work(c)
    PROVE  StepOf(c)
<1>1. CASE PostAccepted(c)
    BY <1>1, PostAcceptedStep
<1>2. CASE PostCreated(c)
    BY <1>2, PostCreatedStep
<1>3. CASE PostBare(c)
    BY <1>3, PostBareStep
<1>4. CASE PostFails(c)
    BY <1>4, PostFailsStep
<1>5. CASE PollSucceeded(c)
    BY <1>5, PollSucceededStep
<1>6. CASE PollFailed(c) \/ PollAgain(c) \/ PollTimeout(c) \/ ResultMissing(c)
           \/ DetailMissing(c) \/ RequestFails(c)
    BY <1>6, UneventfulStep
<1>7. CASE ResultFound(c)
    BY <1>7, ResultFoundStep
<1>8. CASE ResultWithoutId(c)
    BY <1>8, ResultWithoutIdStep
<1>9. CASE ByName(c)
    BY <1>9, ByNameStep
<1>10. CASE ListPoints(c)
    BY <1>10, ListPointsStep
<1>11. CASE Detail(c)
    BY <1>11, DetailStep
<1>. QED
    BY <1>1, <1>2, <1>3, <1>4, <1>5, <1>6, <1>7, <1>8, <1>9, <1>10, <1>11 DEF Work

\* The invariant is inductive.
LEMMA LInvStep == LInv /\ [LroNext]_lroVars => LInv'
<1> SUFFICES ASSUME LInv, [LroNext]_lroVars PROVE LInv'
    OBVIOUS
<1>1. ASSUME NEW c \in Creators, Work(c) \/ Complete(c) \/ Abort(c) PROVE LInv'
    <2>1. StepOf(c)
        BY <1>1, WorkStep, CompleteStep, AbortStep
    <2>. QED
        BY <2>1, LInvOfStep
<1>2. ASSUME NEW i \in DOMAIN items, Settle(i) PROVE LInv'
    BY <1>2, SettleStep, LInvOfOther
<1>3. ASSUME NEW o \in {User, System}, NEW k \in {"warehouse", "restore_point"}, OtherItem(o, k)
      PROVE  LInv'
    BY <1>3, OtherItemStep, LInvOfOther
<1>. QED
    BY <1>1, <1>2, <1>3, LInvStutters DEF LroNext

\* What LInv says of every call holds in every behaviour of the
\* long-running operations.
THEOREM LroInvariant == LroSpec => []LInv
BY LInvInit, LInvStep, PTL DEF LroSpec

\* One call makes at most one item, whatever its POST is answered with.
THEOREM OneItemCorrect == LroSpec => []OneItemPerCall
<1>1. LInv => OneItemPerCall
    <2> SUFFICES ASSUME LInv, NEW c \in Creators PROVE Cardinality(Own(c)) <= 1
        BY DEF OneItemPerCall
    <2>1. \A i, j \in Own(c) : i = j
        BY DEF LInv, OneCall, OwnOnce
    <2>2. CASE Own(c) = {}
        BY <2>2, FS_EmptySet
    <2>3. CASE Own(c) # {}
        <3>1. PICK i : i \in Own(c)
            BY <2>3
        <3>2. Own(c) = {i}
            BY <2>1, <3>1
        <3>3. Cardinality({i}) = 1
            BY FS_Singleton
        <3>. QED
            BY <3>2, <3>3
    <2>. QED
        BY <2>2, <2>3
<1>. QED
    BY <1>1, LroInvariant, PTL

\* A create returns an item it made, Path C apart, and only after its
\* operation, if it had one, has succeeded.
THEOREM ReturnsCorrect == LroSpec => [](ReturnsOwnItem /\ ReturnsOnlyAfterSuccess)
<1>1. LInv => ReturnsOwnItem /\ ReturnsOnlyAfterSuccess
    BY DEF LInv, OneCall, Answered, ReturnsOwnItem, ReturnsOnlyAfterSuccess
<1>. QED
    BY <1>1, LroInvariant, PTL

\* No snapshot is returned without its parent.
THEOREM SnapshotCorrect == LroSpec => []SnapshotHasParent
<1>1. LInv => SnapshotHasParent
    BY DEF LInv, OneCall, Answered, SnapshotHasParent
<1>. QED
    BY <1>1, LroInvariant, PTL

\* The answer of Path C comes from ListPoints alone.
LEMMA AnswerOfPathC ==
    ASSUME LInv, [LroNext]_lroVars, NEW c \in Creators, phase[c] = "list", answer'[c] = "result"
    PROVE  ListPoints(c)
<1>1. answer[c] = "none" /\ answer'[c] # answer[c]
    BY DEF LInv, LroTypes, OneCall, Answered, Answers
<1>2. CASE UNCHANGED lroVars
    BY <1>1, <1>2 DEF lroVars, clientVars
<1>3. ASSUME NEW d \in Creators \ {c}, Work(d) \/ Complete(d) \/ Abort(d) PROVE FALSE
    <2>1. StepOf(d)
        BY <1>3, WorkStep, CompleteStep, AbortStep
    <2>. QED
        BY <1>1, <2>1 DEF StepOf, Others, Keeps
<1>4. CASE Complete(c) \/ Abort(c)
    BY <1>1, <1>4 DEF Complete, Abort, clientVars
<1>5. CASE Work(c)
    <2>1. CASE RequestFails(c)
        BY <2>1 DEF RequestFails, Ends, LInv, LroTypes
    <2>2. CASE ListPoints(c)
        BY <2>2
    <2>. QED
        BY <1>5, <2>1, <2>2 DEF Work, PostAccepted, PostCreated, PostBare, PostFails,
           PollSucceeded, PollFailed, PollAgain, PollTimeout, ResultMissing, ResultFound,
           ResultWithoutId, ByName, DetailMissing, Detail
<1>6. ASSUME NEW i \in DOMAIN items, Settle(i) PROVE FALSE
    BY <1>1, <1>6 DEF Settle, clientVars
<1>7. ASSUME NEW o \in {User, System}, NEW k \in {"warehouse", "restore_point"}, OtherItem(o, k)
      PROVE  FALSE
    BY <1>1, <1>7 DEF OtherItem, clientVars
<1>. QED
    BY <1>2, <1>3, <1>4, <1>5, <1>6, <1>7 DEF LroNext

\* Path C answers with a point that is not known to be the system's and
\* not older than the caller's own listed one.
THEOREM PathCCorrect == LroSpec => PathCNotOlder
<1> DEFINE NotOlder(c) == phase[c] = "list" /\ answer'[c] = "result" =>
                             /\ ~ ConfirmedSystem(got'[c])
                             /\ \A i \in Own(c) : items[i].listed => got'[c] >= i
<1>1. ASSUME LInv, [LroNext]_lroVars, NEW c \in Creators PROVE NotOlder(c)
    <2>1. SUFFICES ASSUME phase[c] = "list", answer'[c] = "result"
                   PROVE  /\ ~ ConfirmedSystem(got'[c])
                          /\ \A i \in Own(c) : items[i].listed => got'[c] >= i
        OBVIOUS
    <2>2. ListPoints(c) /\ kind[c] = "restore_point"
        BY <1>1, <2>1, AnswerOfPathC DEF LInv, OneCall, WayThere
    <2>3. NonSystem # {} /\ got'[c] = Max(NonSystem)
        BY <1>1, <2>1, <2>2 DEF ListPoints, Ends, LInv, LroTypes
    <2>4. ~ ConfirmedSystem(got'[c])
        BY <1>1, <2>3, LargestPoint DEF LInv, NonSystem
    <2>5. ASSUME NEW i \in Own(c), items[i].listed PROVE i \in NonSystem
        BY <1>1, <2>2, <2>5, LroAssumption
           DEF LInv, OneCall, OwnOnce, NonSystem, Listed, ConfirmedSystem, Own
    <2>. QED
        BY <1>1, <2>3, <2>4, <2>5, LargestPoint DEF LInv
<1>2. LInv /\ [LroNext]_lroVars => [\A c \in Creators : NotOlder(c)]_lroVars
    BY <1>1
<1>. QED
    BY <1>2, LroInvariant, PTL DEF LroSpec, PathCNotOlder
=============================================================================
