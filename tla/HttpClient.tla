----------------------------- MODULE HttpClient -----------------------------
(***************************************************************************)
(* FabricHttpClient (src/src/fabric_dw/http_client.py): concurrent         *)
(* coroutines that share one client, hence one rate limiter, one token     *)
(* cache behind one asyncio lock and one 429 pause deadline.               *)
(*                                                                         *)
(* An action is the code between two awaits of one coroutine.  Time is a   *)
(* Tick: every deadline of the code (an absolute monotonic time there) is  *)
(* kept here as the number of ticks that remain, 0 when it has passed.     *)
(***************************************************************************)
EXTENDS Naturals, FiniteSets

CONSTANTS
    Callers,          \* coroutines, each issuing one request
    Methods,          \* HTTP methods the callers use
    Scopes,           \* OAuth scopes, one cached token each
    NoCaller,         \* the token lock is free
    MaxAttempts,      \* stop_after_attempt of the tenacity layer
    Max429,           \* max_429_retries
    Deadline,         \* combined_deadline_s, in ticks
    MaxWait,          \* largest Retry-After the server sends, in ticks
    Rps,              \* max_rate of the limiter per tick
    TokenLife,        \* lifetime of a token the credential returns
    RefreshBuffer     \* token_refresh_buffer

ASSUME HttpAssumption ==
    /\ NoCaller \notin Callers
    /\ MaxAttempts \in Nat \ {0}
    /\ Max429 \in Nat \ {0}
    /\ Deadline \in Nat
    /\ MaxWait \in Nat
    /\ Rps \in Nat \ {0}
    /\ TokenLife \in Nat
    /\ RefreshBuffer \in Nat \ {0}

VARIABLES
    pc,          \* where each coroutine is
    method,      \* HTTP method of its request
    scope,       \* token scope of its request
    attempt,     \* tenacity attempt number, from 1
    n429,        \* consecutive_429 of the running _do_request
    budget,      \* ticks left until combined_deadline
    outcome,     \* what request() returned or raised
    pauseLeft,   \* ticks left until _pause_until
    token,       \* ticks left on the cached token of a scope, 0 if none
    tokenLock,   \* holder of _token_lock while it awaits the credential
    bucket,      \* level of the leaky bucket of the limiter
    sends,       \* requests a caller has put on the wire
    lateSends,   \* those of them sent with no budget left
    commits      \* times the server carried the caller's request out

callerVars == <<method, scope>>
retryVars == <<attempt, n429, budget, outcome>>
sharedVars == <<pauseLeft, token, tokenLock, bucket>>
ghostVars == <<sends, lateSends, commits>>
vars == <<pc, callerVars, retryVars, sharedVars, ghostVars>>

\* _IDEMPOTENT_METHODS
Idempotent == {"GET", "HEAD", "OPTIONS"}
Places == {"idle", "check", "pause", "token", "fetch", "limit", "sent",
           "backoff", "done"}
Outcomes == {"none", "ok", "client_error", "server_error", "timeout",
             "transport", "rate_limited", "auth", "cancelled"}

-----------------------------------------------------------------------------
(* Pure helpers of the client. *)

\* A Retry-After header by what the code tells apart.
RetryAfterHeaders == [kind : {"absent", "malformed"}, secs : {0}]
                     \cup [kind : {"seconds"}, secs : 0..MaxWait]

\* Seconds to wait: an absent header is read as "1", an unreadable one is
\* replaced by 1.0, any other one counts as it stands, zero included.
ParseRetryAfter(h) == IF h.kind = "seconds" THEN h.secs ELSE 1

\* Failures tenacity sees, and whether its predicate may retry one.
RetriableFailures == {"5xx", "timeout"}
RetryEveryMethod(m, failure) == failure \in RetriableFailures
ShouldRetry(m, failure) == failure \in RetriableFailures /\ m \in Idempotent

\* How _map_status and httpx name each answer to the caller.
AnswerOutcome == [ok |-> "ok", bad |-> "client_error", final5xx |-> "server_error",
                  broken |-> "transport"]

\* The cached token of a scope outlives the refresh buffer.
TokenFresh(s) == token[s] >= RefreshBuffer

Less(n, k) == IF n > k THEN n - k ELSE 0

\* max(self._pause_until, deadline)
LargerPause(a, b) == IF a >= b THEN a ELSE b

\* Limits of the two retry layers.
AttemptsLeft(c) == attempt[c] < MaxAttempts
OneMore429(c) == n429[c] >= Max429
Last429(c) == n429[c] + 1 >= Max429

\* The deadline check of the 429 loop.
SpentOnEntry(c) == budget[c] = 0 /\ n429[c] = 0
BudgetSpent(c) == budget[c] = 0

\* Taking the token lock, and what leaving an async with block does to it.
SkipLock(c) == UNCHANGED tokenLock
HoldLock(c) == tokenLock' = c
KeepLock(c) == UNCHANGED tokenLock
ReleaseLock(c) == tokenLock' = IF tokenLock = c THEN NoCaller ELSE tokenLock

-----------------------------------------------------------------------------
Init ==
    /\ pc = [c \in Callers |-> "idle"]
    /\ method \in [Callers -> Methods]
    /\ scope \in [Callers -> Scopes]
    /\ attempt = [c \in Callers |-> 1]
    /\ n429 = [c \in Callers |-> 0]
    /\ budget = [c \in Callers |-> Deadline]
    /\ outcome = [c \in Callers |-> "none"]
    /\ pauseLeft = 0
    /\ token = [s \in Scopes |-> 0]
    /\ tokenLock = NoCaller
    /\ bucket = 0
    /\ sends = [c \in Callers |-> 0]
    /\ lateSends = [c \in Callers |-> 0]
    /\ commits = [c \in Callers |-> 0]

Goto(c, place) == pc' = [pc EXCEPT ![c] = place]

Finish(c, how) ==
    /\ Goto(c, "done")
    /\ outcome' = [outcome EXCEPT ![c] = how]

\* request(): the combined deadline starts to run.
Request(c) ==
    /\ pc[c] = "idle"
    /\ budget' = [budget EXCEPT ![c] = Deadline]
    /\ Goto(c, "check")
    /\ UNCHANGED <<callerVars, attempt, n429, outcome, sharedVars, ghostVars>>

\* Top of the 429 loop of _do_request: abort once the budget is spent.
CheckDeadline(c) ==
    /\ pc[c] = "check"
    /\ IF BudgetSpent(c)
       THEN Finish(c, "rate_limited")
       ELSE Goto(c, "pause") /\ UNCHANGED outcome
    /\ UNCHANGED <<callerVars, attempt, n429, budget, sharedVars, ghostVars>>

\* _send_once sleeps for as long as any caller's 429 asked for.
PassPause(c) ==
    /\ pc[c] = "pause"
    /\ pauseLeft = 0
    /\ Goto(c, "token")
    /\ UNCHANGED <<callerVars, retryVars, sharedVars, ghostVars>>

\* _get_token with the lock free and a cached token that is good.
UseCachedToken(c) ==
    /\ pc[c] = "token"
    /\ tokenLock = NoCaller
    /\ TokenFresh(scope[c])
    /\ Goto(c, "limit")
    /\ UNCHANGED <<callerVars, retryVars, sharedVars, ghostVars>>

\* _get_token with a missing or expiring token: ask the credential, holding
\* the lock across the await.
StartTokenFetch(c) ==
    /\ pc[c] = "token"
    /\ tokenLock = NoCaller
    /\ ~ TokenFresh(scope[c])
    /\ HoldLock(c)
    /\ Goto(c, "fetch")
    /\ UNCHANGED <<callerVars, retryVars, pauseLeft, token, bucket, ghostVars>>

TokenArrives(c) ==
    /\ pc[c] = "fetch"
    /\ token' = [token EXCEPT ![scope[c]] = TokenLife]
    /\ ReleaseLock(c)
    /\ Goto(c, "limit")
    /\ UNCHANGED <<callerVars, retryVars, pauseLeft, bucket, ghostVars>>

\* The credential raises: nothing is cached, the lock is released.
TokenFails(c) ==
    /\ pc[c] = "fetch"
    /\ ReleaseLock(c)
    /\ Finish(c, "auth")
    /\ UNCHANGED <<callerVars, attempt, n429, budget, pauseLeft, token, bucket,
                   ghostVars>>

\* The limiter admits the caller and the request goes on the wire.
Send(c) ==
    /\ pc[c] = "limit"
    /\ bucket < Rps
    /\ bucket' = bucket + 1
    /\ sends' = [sends EXCEPT ![c] = @ + 1]
    /\ lateSends' = [lateSends EXCEPT ![c] = @ + IF budget[c] = 0 THEN 1 ELSE 0]
    /\ Goto(c, "sent")
    /\ UNCHANGED <<callerVars, retryVars, pauseLeft, token, tokenLock, commits>>

\* The server may or may not have carried out a request whose answer says
\* nothing about it.
MayCommit(c) ==
    \E n \in {0, 1} : commits' = [commits EXCEPT ![c] = @ + n]

Succeed(c) ==
    /\ pc[c] = "sent"
    /\ commits' = [commits EXCEPT ![c] = @ + 1]
    /\ Finish(c, AnswerOutcome["ok"])
    /\ UNCHANGED <<callerVars, attempt, n429, budget, sharedVars, sends, lateSends>>

\* 4xx other than 429: refused before anything was done.
Refuse(c) ==
    /\ pc[c] = "sent"
    /\ Finish(c, AnswerOutcome["bad"])
    /\ UNCHANGED <<callerVars, attempt, n429, budget, sharedVars, ghostVars>>

\* A 5xx with isRetriable false, or a transport failure that is no timeout:
\* outside the retry predicate for every method.
FailForGood(c) ==
    /\ pc[c] = "sent"
    /\ MayCommit(c)
    /\ \E how \in {"final5xx", "broken"} : Finish(c, AnswerOutcome[how])
    /\ UNCHANGED <<callerVars, attempt, n429, budget, sharedVars, sends, lateSends>>

\* 429: pause every caller, keeping the furthest pause deadline, and go round
\* the loop; give up at the limit of consecutive 429s.
Throttle(c, header) ==
    /\ pc[c] = "sent"
    /\ n429' = [n429 EXCEPT ![c] = @ + 1]
    /\ IF Last429(c)
       THEN Finish(c, "rate_limited") /\ UNCHANGED pauseLeft
       ELSE /\ pauseLeft' = LargerPause(pauseLeft, ParseRetryAfter(header))
            /\ Goto(c, "check")
            /\ UNCHANGED outcome
    /\ UNCHANGED <<callerVars, attempt, budget, token, tokenLock, bucket, ghostVars>>

\* A retriable 5xx or a timeout leaves _do_request; tenacity starts a new
\* attempt, with a new 429 count, or lets the error out.
FailAttempt(c, failure) ==
    /\ pc[c] = "sent"
    /\ MayCommit(c)
    /\ IF ShouldRetry(method[c], failure) /\ AttemptsLeft(c)
       THEN /\ attempt' = [attempt EXCEPT ![c] = @ + 1]
            /\ n429' = [n429 EXCEPT ![c] = 0]
            /\ Goto(c, "backoff")
            /\ UNCHANGED outcome
       ELSE /\ Finish(c, IF failure = "5xx" THEN "server_error" ELSE "timeout")
            /\ UNCHANGED <<attempt, n429>>
    /\ UNCHANGED <<callerVars, budget, sharedVars, sends, lateSends>>

\* The exponential back-off of tenacity ends.
Backoff(c) ==
    /\ pc[c] = "backoff"
    /\ Goto(c, "check")
    /\ UNCHANGED <<callerVars, retryVars, sharedVars, ghostVars>>

\* The task is cancelled at an await (bounded_gather does this to siblings):
\* the async with blocks release what the coroutine held.
Cancel(c) ==
    /\ pc[c] \notin {"idle", "done"}
    /\ Finish(c, "cancelled")
    /\ ReleaseLock(c)
    /\ IF pc[c] = "sent" THEN MayCommit(c) ELSE UNCHANGED commits
    /\ UNCHANGED <<callerVars, attempt, n429, budget, pauseLeft, token, bucket,
                   sends, lateSends>>

\* One tick of the clock.
Tick ==
    /\ budget' = [c \in Callers |-> Less(budget[c], 1)]
    /\ pauseLeft' = Less(pauseLeft, 1)
    /\ token' = [s \in Scopes |-> Less(token[s], 1)]
    /\ bucket' = Less(bucket, Rps)
    /\ UNCHANGED <<pc, callerVars, attempt, n429, outcome, tokenLock, ghostVars>>

\* Steps the client's own code or the answer of a server takes.
Progress(c) ==
    \/ CheckDeadline(c)
    \/ PassPause(c)
    \/ UseCachedToken(c)
    \/ StartTokenFetch(c)
    \/ TokenArrives(c)
    \/ TokenFails(c)
    \/ Send(c)
    \/ Succeed(c)
    \/ Refuse(c)
    \/ FailForGood(c)
    \/ \E h \in RetryAfterHeaders : Throttle(c, h)
    \/ \E f \in RetriableFailures : FailAttempt(c, f)
    \/ Backoff(c)

Next ==
    \/ \E c \in Callers : Request(c) \/ Progress(c) \/ Cancel(c)
    \/ Tick

Spec == Init /\ [][Next]_vars

\* The event loop runs what is ready, httpx bounds the wait for an answer
\* and the clock runs.  Cancellation and new requests are never owed.
FairSpec ==
    /\ Spec
    /\ WF_vars(Tick)
    /\ \A c \in Callers : WF_vars(Progress(c))

-----------------------------------------------------------------------------
(* Properties. *)

\* Every variable stays in its set; the attempt number stays within its limit.
TypeOK ==
    /\ pc \in [Callers -> Places]
    /\ method \in [Callers -> Methods]
    /\ scope \in [Callers -> Scopes]
    /\ attempt \in [Callers -> 1..MaxAttempts]
    /\ n429 \in [Callers -> Nat]
    /\ budget \in [Callers -> 0..Deadline]
    /\ outcome \in [Callers -> Outcomes]
    /\ pauseLeft \in Nat
    /\ token \in [Scopes -> Nat]
    /\ tokenLock \in Callers \cup {NoCaller}
    /\ bucket \in 0..Rps
    /\ sends \in [Callers -> Nat]
    /\ lateSends \in [Callers -> Nat]
    /\ commits \in [Callers -> Nat]

\* The two nested retry loops together never repeat what the server may have
\* carried out: a POST, PATCH or DELETE takes effect at most once per call of
\* request(), whatever mixture of 429s, 5xx, timeouts and cancellation it met.
NoDuplicateEffect ==
    \A c \in Callers : method[c] \notin Idempotent => commits[c] <= 1

\* The tenacity layer and the 429 loop multiply: a request is on the wire at
\* most MaxAttempts * Max429 times, and an unsafe method at most Max429 times.
SendsBounded ==
    \A c \in Callers :
        sends[c] <= (IF method[c] \in Idempotent THEN MaxAttempts ELSE 1) * Max429

\* The deadline of request() is read before the pause, the token and the
\* limiter, so a send can come after it; but never two.
AtMostOneLateSend == \A c \in Callers : lateSends[c] <= 1

\* A credential call under way is always needed: no good token for its scope
\* turns up while it runs, because callers that saw the same stale token queue
\* on the lock behind it and then use its result (_get_token).
NoRedundantFetch ==
    \A c \in Callers : pc[c] = "fetch" => ~ TokenFresh(scope[c])

\* The token lock is held exactly while its holder awaits the credential: no
\* failure, cancellation or success leaves it locked.
LockOnlyWhileFetching ==
    \A c \in Callers : tokenLock = c <=> pc[c] = "fetch"

\* Concurrent 429s never shorten the pause another answer asked for: only the
\* clock brings it down.
PauseOnlyExtended == [][pauseLeft' >= pauseLeft \/ pauseLeft' = Less(pauseLeft, 1)]_pauseLeft

\* Every request that was issued is answered, whatever the servers answer.
EveryRequestEnds == \A c \in Callers : pc[c] = "check" ~> pc[c] = "done"
=============================================================================
