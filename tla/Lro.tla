--------------------------------- MODULE Lro ---------------------------------
(***************************************************************************)
(* Creating an item of Fabric: POST, the long-running operation, and the   *)
(* ways the id of the new item is found afterwards (poll_operation,        *)
(* resolve_lro_item_id, and the create functions of warehouses, snapshots, *)
(* restore points and staging Lakehouses), with other creators around.     *)
(*                                                                         *)
(* Items are numbered in the order of their creation, as restore points    *)
(* are by their epoch-millisecond ids.                                     *)
(***************************************************************************)
EXTENDS Naturals, Sequences, FiniteSetsExt

CONSTANTS
    Creators,       \* one call each
    Kinds,          \* what they call
    Names,          \* display names of warehouses
    NoName,         \* the name of an item that nothing looks for by name
    User, System,   \* other creators of items
    OperationId,    \* the id of an operation, which no item has
    Timeout,        \* timeout_s of poll_operation, in ticks
    MaxPollWait,    \* longest wait between two polls
    ResultTries,    \* _LRO_RESULT_404_MAX_RETRIES + 1
    NameTries,      \* len(_GET_BY_NAME_BACKOFF) + 1
    DetailTries,    \* LRO_MAX_DETAIL_RETRIES
    MaxItems        \* bound of the items

\* in_place: restore_in_place and refresh_metadata, which create nothing.
AllKinds == {"warehouse", "snapshot", "restore_point", "lakehouse", "in_place"}

ASSUME LroAssumption ==
    /\ Kinds \subseteq AllKinds
    /\ User \notin Creators /\ System \notin Creators /\ User # System
    /\ OperationId \notin Nat /\ NoName \notin Names
    /\ Timeout \in Nat /\ MaxPollWait \in Nat \ {0}
    /\ ResultTries \in Nat \ {0} /\ NameTries \in Nat \ {0} /\ DetailTries \in Nat \ {0}
    /\ MaxItems \in Nat

VARIABLES
    kind, name,  \* the call of each creator
    phase,       \* where it is
    op,          \* its operation on the server
    status,      \* the id in the status body of a succeeded operation
    items,       \* what has been created, oldest first
    got,         \* the id the caller has found, 0 for none
    parent,      \* the snapshot it returns names its parent
    tries,       \* requests of the running retry loop
    waited,      \* ticks poll_operation has slept
    answer       \* what the call returned or raised

callVars == <<kind, name>>
serverVars == <<op, status, items>>
clientVars == <<got, parent, tries, waited, answer>>
lroVars == <<callVars, phase, serverVars, clientVars>>

NamesOf(k) == IF k = "warehouse" THEN Names ELSE {NoName}

LroInit ==
    /\ kind \in [Creators -> Kinds]
    /\ name \in [Creators -> Names \cup {NoName}]
    /\ \A c \in Creators : name[c] \in NamesOf(kind[c])
    /\ phase = [c \in Creators |-> "post"]
    /\ op = [c \in Creators |-> "none"]
    /\ status = [c \in Creators |-> "nothing"]
    /\ items = <<>>
    /\ got = [c \in Creators |-> 0]
    /\ parent = [c \in Creators |-> FALSE]
    /\ tries = [c \in Creators |-> 0]
    /\ waited = [c \in Creators |-> 0]
    /\ answer = [c \in Creators |-> "none"]

Own(c) == {i \in DOMAIN items : items[i].owner = c}
Ends(c, how) == phase' = [phase EXCEPT ![c] = "done"] /\ answer' = [answer EXCEPT ![c] = how]
Enter(c, place) == phase' = [phase EXCEPT ![c] = place] /\ UNCHANGED answer

-----------------------------------------------------------------------------
(* The server. *)

Item(k, o, n) == [kind |-> k, owner |-> o, name |-> n, listed |-> FALSE, detailed |-> FALSE]

\* Two warehouses of a workspace never have one name.
Free(k, n) == k = "warehouse" => \A i \in DOMAIN items : items[i].kind = k => items[i].name # n

Makes(c) ==
    /\ Len(items) < MaxItems
    /\ Free(kind[c], name[c])
    /\ items' = Append(items, Item(kind[c], c, name[c]))

MakesIfItem(c) == IF kind[c] = "in_place" THEN UNCHANGED items ELSE Makes(c)

\* The operation ends; what its status body says of the item varies.
Complete(c) ==
    /\ op[c] = "running"
    /\ op' = [op EXCEPT ![c] = "succeeded"]
    /\ MakesIfItem(c)
    /\ \E id \in {"resource", "operation", "nothing"} : status' = [status EXCEPT ![c] = id]
    /\ UNCHANGED <<callVars, phase, clientVars>>

Abort(c) ==
    /\ op[c] = "running"
    /\ op' = [op EXCEPT ![c] = "failed"]
    /\ UNCHANGED <<callVars, phase, status, items, clientVars>>

\* Bound: what happens once every call is back is seen by none.
Looking == \E c \in Creators : phase[c] # "done"

\* A new item turns up in the lists and has its properties filled in, in any
\* order and at any time, as far as the code reads them.
Settle(i) ==
    /\ Looking
    /\ \/ ~ items[i].listed /\ items[i].kind \in {"warehouse", "restore_point"}
          /\ items' = [items EXCEPT ![i].listed = TRUE]
       \/ ~ items[i].detailed /\ items[i].kind \in {"snapshot", "restore_point"}
          /\ items' = [items EXCEPT ![i].detailed = TRUE]
    /\ UNCHANGED <<callVars, phase, op, status, clientVars>>

\* Somebody else creates an item, or the system a restore point.
OtherItem(o, k) ==
    /\ Looking
    /\ Len(items) < MaxItems
    /\ o = System => k = "restore_point"
    /\ \E n \in NamesOf(k) : Free(k, n) /\ items' = Append(items, Item(k, o, n))
    /\ UNCHANGED <<callVars, phase, op, status, clientVars>>

-----------------------------------------------------------------------------
(* POST. *)

\* 202 with a Location.
PostAccepted(c) ==
    /\ phase[c] = "post"
    /\ op' = [op EXCEPT ![c] = "running"]
    /\ Enter(c, "poll")
    /\ UNCHANGED <<callVars, status, items, got, parent, tries, waited>>

\* 2xx with the item in the body; a snapshot insists on a Location.
PostCreated(c) ==
    /\ phase[c] = "post"
    /\ kind[c] # "in_place"
    /\ Makes(c)
    /\ IF kind[c] = "snapshot" THEN Ends(c, "failed") /\ UNCHANGED got
       ELSE /\ got' = [got EXCEPT ![c] = Len(items')]
            /\ IF kind[c] = "warehouse" THEN Enter(c, "detail") ELSE Ends(c, "result")
    /\ UNCHANGED <<callVars, op, status, parent, tries, waited>>

\* 2xx with neither: never a second POST (#861).
PostBare(c) ==
    /\ phase[c] = "post"
    /\ MakesIfItem(c)
    /\ CASE kind[c] = "warehouse" -> Enter(c, "by_name")
         [] kind[c] = "in_place"  -> Ends(c, "result")
         [] OTHER                 -> Ends(c, "failed")
    /\ UNCHANGED <<callVars, op, status, got, parent, tries, waited>>

\* The POST is refused, or its answer is lost; it is not repeated.
PostAgain(c) == Enter(c, "post")
RaisePost(c) == Ends(c, "failed")

PostFails(c) ==
    /\ phase[c] = "post"
    /\ UNCHANGED items \/ MakesIfItem(c)
    /\ RaisePost(c)
    /\ UNCHANGED <<callVars, op, status, got, parent, tries, waited>>

-----------------------------------------------------------------------------
(* poll_operation, and Path A. *)

\* An id is found: the detail request follows, where there is one.
Found(c, id) ==
    /\ got' = [got EXCEPT ![c] = id]
    /\ tries' = [tries EXCEPT ![c] = 0]
    /\ IF kind[c] = "lakehouse" THEN Ends(c, "result") ELSE Enter(c, "detail")

NotLooking(c) == kind[c] = "in_place" /\ Ends(c, "result") /\ UNCHANGED <<got, tries>>

\* result_id_keys holds "id" for all but the Lakehouses, and is looked up in
\* the status body.
StatusKeys(k) == IF k = "lakehouse" THEN {"resource"} ELSE {"resource", "operation"}

AnyStatusBody(c) == op[c] # "failed"
Succeeded(c) == op[c] = "succeeded"

PollSucceeded(c) ==
    /\ phase[c] = "poll"
    /\ waited[c] < Timeout
    /\ Succeeded(c)
    /\ \/ NotLooking(c)
       \/ /\ kind[c] # "in_place"
          /\ IF status[c] \in StatusKeys(kind[c])
             THEN \E id \in IF status[c] = "resource" THEN Own(c) ELSE {OperationId} : Found(c, id)
             ELSE Enter(c, "result") /\ UNCHANGED <<got, tries>>
    /\ UNCHANGED <<callVars, serverVars, parent, waited>>

PollFailed(c) ==
    /\ phase[c] = "poll"
    /\ waited[c] < Timeout
    /\ op[c] = "failed"
    /\ Ends(c, "failed")
    /\ UNCHANGED <<callVars, serverVars, got, parent, tries, waited>>

\* Not finished: sleep as long as Retry-After says, whatever is left.
RestartWait(c, ticks) == waited' = [waited EXCEPT ![c] = ticks]
Wait(c, ticks) == waited' = [waited EXCEPT ![c] = @ + ticks]

PollAgain(c) ==
    /\ phase[c] = "poll"
    /\ waited[c] < Timeout
    /\ op[c] = "running"
    /\ \E ticks \in 1..MaxPollWait : Wait(c, ticks)
    /\ UNCHANGED <<callVars, phase, serverVars, got, parent, tries, answer>>

PollTimeout(c) ==
    /\ phase[c] = "poll"
    /\ waited[c] >= Timeout
    /\ Ends(c, "failed")
    /\ UNCHANGED <<callVars, serverVars, got, parent, tries, waited>>
-----------------------------------------------------------------------------
(* Path B: GET /operations/{id}/result. *)

\* The Lakehouse has a result request of its own, which it does not repeat.
TriesLeft(c, limit) == tries[c] + 1 < limit
ResultLimit(k) == IF k = "lakehouse" THEN 1 ELSE ResultTries

\* A failed try: again while there are tries left, else how it ends.
TryAgain(c, limit, LastOne) ==
    \/ TriesLeft(c, limit) /\ tries' = [tries EXCEPT ![c] = @ + 1] /\ UNCHANGED <<phase, answer>>
    \/ ~ TriesLeft(c, limit) /\ UNCHANGED tries /\ LastOne

ResultMissing(c) ==
    /\ phase[c] = "result"
    /\ TryAgain(c, ResultLimit(kind[c]), Ends(c, "failed"))
    /\ UNCHANGED <<callVars, serverVars, got, parent, waited>>

ResultFound(c) ==
    /\ phase[c] = "result"
    /\ op[c] = "succeeded"
    /\ \E id \in Own(c) : Found(c, id)
    /\ UNCHANGED <<callVars, serverVars, parent, waited>>

\* A result without an id: only a restore point has a Path C.
ResultWithoutId(c) ==
    /\ phase[c] = "result"
    /\ op[c] = "succeeded"
    /\ IF kind[c] = "restore_point" THEN Enter(c, "list") ELSE Ends(c, "failed")
    /\ UNCHANGED <<callVars, serverVars, got, parent, tries, waited>>

-----------------------------------------------------------------------------
(* Finding the item in a list. *)

Listed(k) == {i \in DOMAIN items : items[i].kind = k /\ items[i].listed}

\* wh.name == name
AnyWarehouse(c) == Listed("warehouse")
Namesakes(c) == {i \in Listed("warehouse") : items[i].name = name[c]}

ByName(c) ==
    /\ phase[c] = "by_name"
    /\ IF Namesakes(c) # {}
       THEN \E id \in Namesakes(c) : Found(c, id)
       ELSE UNCHANGED got /\ TryAgain(c, NameTries, Ends(c, "failed"))
    /\ UNCHANGED <<callVars, serverVars, parent, waited>>

\* creation_mode is None until the item has its details.
ConfirmedSystem(i) == items[i].owner = System /\ items[i].detailed
UserDefined == {i \in Listed("restore_point") : items[i].owner # System /\ items[i].detailed}
NonSystem == {i \in Listed("restore_point") : ~ ConfirmedSystem(i)}

\* Path C: the point with the largest id that is not known to be the system's.
ListPoints(c) ==
    /\ phase[c] = "list"
    /\ IF NonSystem # {}
       THEN got' = [got EXCEPT ![c] = Max(NonSystem)] /\ Ends(c, "result")
       ELSE UNCHANGED got /\ Ends(c, "failed")
    /\ UNCHANGED <<callVars, serverVars, parent, tries, waited>>

-----------------------------------------------------------------------------
(* The detail request. *)

DetailMissing(c) ==
    /\ phase[c] = "detail"
    /\ got[c] = OperationId
    /\ Ends(c, "failed")
    /\ UNCHANGED <<callVars, serverVars, got, parent, tries, waited>>

\* What becomes of parentWarehouseId when the last try did not tell it.
LeaveOut(c) == UNCHANGED parent
InjectParent(c) == parent' = [parent EXCEPT ![c] = TRUE]

Detail(c) ==
    /\ phase[c] = "detail"
    /\ got[c] # OperationId
    /\ IF kind[c] # "snapshot" THEN Ends(c, "result") /\ UNCHANGED <<parent, tries>>
       ELSE IF items[got[c]].detailed
       THEN /\ parent' = [parent EXCEPT ![c] = TRUE]
            /\ Ends(c, "result")
            /\ UNCHANGED tries
       ELSE /\ IF TriesLeft(c, DetailTries) THEN UNCHANGED parent ELSE InjectParent(c)
            /\ TryAgain(c, DetailTries, Ends(c, "result"))
    /\ UNCHANGED <<callVars, serverVars, got, waited>>

\* Any other error of any of these requests.
RequestFails(c) ==
    /\ phase[c] \in {"poll", "result", "by_name", "list", "detail"}
    /\ Ends(c, "failed")
    /\ UNCHANGED <<callVars, serverVars, got, parent, tries, waited>>

Work(c) ==
    \/ PostAccepted(c)
    \/ PostCreated(c)
    \/ PostBare(c)
    \/ PostFails(c)
    \/ PollSucceeded(c)
    \/ PollFailed(c)
    \/ PollAgain(c)
    \/ PollTimeout(c)
    \/ ResultMissing(c)
    \/ ResultFound(c)
    \/ ResultWithoutId(c)
    \/ ByName(c)
    \/ ListPoints(c)
    \/ DetailMissing(c)
    \/ Detail(c)
    \/ RequestFails(c)

LroNext ==
    \/ \E c \in Creators : Work(c) \/ Complete(c) \/ Abort(c)
    \/ \E i \in DOMAIN items : Settle(i)
    \/ \E o \in {User, System}, k \in {"warehouse", "restore_point"} : OtherItem(o, k)

LroSpec == LroInit /\ [][LroNext]_lroVars

\* Every request ends (HttpClient), so a caller always goes on; the server owes
\* nothing.
LroFairSpec == LroSpec /\ \A c \in Creators : WF_lroVars(Work(c))

-----------------------------------------------------------------------------
(* Properties. *)

\* One call makes at most one item, whatever its POST was answered with: an
\* answer that says nothing never leads to a second POST.
OneItemPerCall == \A c \in Creators : Cardinality(Own(c)) <= 1

\* A create that returns an item returns the one it made, even when it had to
\* look for it by name among those of others; Path C is the exception.
ReturnsOwnItem ==
    \A c \in Creators :
        answer[c] = "result" /\ kind[c] \notin {"restore_point", "in_place"} =>
            got[c] \in Own(c)

\* A call that returned had its operation, if there was one, succeed: unknown
\* and running states are polled on.
ReturnsOnlyAfterSuccess ==
    \A c \in Creators : answer[c] = "result" => op[c] \in {"none", "succeeded"}

\* A snapshot is never returned without its parent, however late the service
\* fills it in.
SnapshotHasParent ==
    \A c \in Creators : answer[c] = "result" /\ kind[c] = "snapshot" => parent[c]

\* Path C never answers with a point older than the caller's own, once that one
\* is listed, nor with one known to be the system's.
PathCNotOlder ==
    [][\A c \in Creators :
          phase[c] = "list" /\ answer'[c] = "result" =>
              /\ ~ ConfirmedSystem(got'[c])
              /\ \A i \in Own(c) : items[i].listed => got'[c] >= i]_lroVars

\* Every create comes back, whatever the operation and its endpoints do.
EveryCreateEnds == \A c \in Creators : phase[c] = "post" ~> phase[c] = "done"

-----------------------------------------------------------------------------
(* What the documentation says and the code does not do. *)

\* 'A status body "id" field is often the operation ID, not the resource ID, and
\* would incorrectly short-circuit Path B': it is never taken for the item's.
OperationIdIsNoItem == \A c \in Creators : got[c] # OperationId
=============================================================================
