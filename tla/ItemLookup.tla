----------------------------- MODULE ItemLookup -----------------------------
(***************************************************************************)
(* Resolver.item (resolver.py) with the rename and delete services and     *)
(* their cache upkeep, as CLI processes and MCP tool calls run them        *)
(* against one Fabric workspace.  Every cache method is one step, which    *)
(* LookupCache implements.                                                 *)
(***************************************************************************)
EXTENDS CacheContent

CONSTANTS
    Clients,        \* commands and tool calls that run at the same time
    CacheAware,     \* those that hand their cache to rename and delete (the CLI)
    Items,          \* item GUIDs; each is created once
    Names,          \* display names, lower-cased
    Ws,             \* the workspace
    Unborn, Gone,   \* an item not yet created, a deleted item
    FetchSpan,      \* longest time from the server's answer to the timestamp
    MaxTime,        \* bound of the clock
    CalmTime,       \* ... in a calm world
    BusyItems,      \* bounds of a world that is not calm: its items
    BusyNames       \* ... and its names

ASSUME LookupAssumption ==
    /\ CacheAware \subseteq Clients
    /\ Items \cap Names = {}
    /\ Unborn \notin Names /\ Gone \notin Names /\ Unborn # Gone
    /\ FetchSpan \in Nat /\ MaxTime \in Nat /\ CalmTime \in Nat
    /\ BusyItems \subseteq Items /\ BusyNames \subseteq Names

VARIABLES
    calm,         \* commands run one after the other, and nothing else happens
    nameOf,       \* server: the display name of each item
    doc,          \* the cached document
    now,          \* the clock
    pc,           \* where each client is
    key,          \* the name or GUID it still has to find
    entry,        \* the ItemEntry it builds or has got
    newName,      \* new_name of its rename
    readAt,       \* when the server last answered it
    lastTrue      \* lastTrue[i][n]: last time item i was called n (history)

clientVars == <<pc, key, entry, newName, readAt>>
vars == <<calm, nameOf, doc, now, clientVars, lastTrue>>

NamesHere == IF calm THEN Names ELSE BusyNames
ItemsHere == IF calm THEN Items ELSE BusyItems

Places == {"idle", "lookup", "list", "generic", "detail", "put", "resolved",
           "evict_old", "put_name", "put_guid", "evict_name", "evict_guid"}

Goto(c, place) == pc' = [pc EXCEPT ![c] = place]
Blank == [id |-> Unborn, name |-> Unborn, at |-> 0]

Exists(i) == nameOf[i] \in Names
Free(n) == \A i \in Items : nameOf[i] # n

\* The server gives item i the name n: what history remembers of it.
SetName(i, n) ==
    /\ nameOf' = [nameOf EXCEPT ![i] = n]
    /\ lastTrue' = IF n \in Names THEN [lastTrue EXCEPT ![i][n] = now] ELSE lastTrue

Cached(k) == GetItem(doc, Ws, k, now)

-----------------------------------------------------------------------------
\* The clock starts so late that 0 in lastTrue is as good as never.
Init ==
    /\ calm \in BOOLEAN
    /\ nameOf \in [Items -> Names \cup {Unborn, Gone}]
    /\ \A i, j \in Items : nameOf[i] = nameOf[j] => i = j \/ nameOf[i] \notin Names
    /\ ~ calm => \A i \in Items :
          nameOf[i] \in IF i \in BusyItems THEN BusyNames \cup {Unborn} ELSE {Gone}
    /\ doc = EmptyDoc
    /\ now = Ttl + FetchSpan
    /\ pc = [c \in Clients |-> "idle"]
    /\ key = [c \in Clients |-> Unborn]
    /\ entry = [c \in Clients |-> Blank]
    /\ newName = [c \in Clients |-> Unborn]
    /\ readAt = [c \in Clients |-> 0]
    /\ lastTrue = [i \in Items |-> [n \in Names |-> IF nameOf[i] = n THEN now ELSE 0]]

Found(c) == key' = [key EXCEPT ![c] = Unborn]

\* Back to idle, as a command that returned or raised.
Leave(c) ==
    /\ Goto(c, "idle")
    /\ Found(c)
    /\ entry' = [entry EXCEPT ![c] = Blank]
    /\ newName' = [newName EXCEPT ![c] = Unborn]
    /\ readAt' = [readAt EXCEPT ![c] = 0]

\* In a calm world there is only the CLI, and it waits for its last command.
Begin(c, k) ==
    /\ pc[c] = "idle"
    /\ calm => c \in CacheAware /\ \A d \in Clients : pc[d] = "idle"
    /\ Goto(c, "lookup")
    /\ key' = [key EXCEPT ![c] = k]
    /\ UNCHANGED <<calm, nameOf, doc, now, entry, newName, readAt, lastTrue>>

\* async_get_item: a fresh entry ends the resolution.  The item_type of
\* Resolver.item, which narrows the listing and the look-up of a GUID, is handed
\* over by no caller of the program.
Hit(c) ==
    /\ pc[c] = "lookup"
    /\ \E e \in Cached(key[c]) : entry' = [entry EXCEPT ![c] = e]
    /\ Found(c)
    /\ Goto(c, "resolved")
    /\ UNCHANGED <<calm, nameOf, doc, now, newName, readAt, lastTrue>>

\* A GUID needs no listing.
Miss(c) ==
    /\ pc[c] = "lookup"
    /\ Cached(key[c]) = {}
    /\ IF key[c] \in Items
       THEN Goto(c, "generic") /\ entry' = [entry EXCEPT ![c].id = key[c]] /\ Found(c)
       ELSE Goto(c, "list") /\ UNCHANGED <<key, entry>>
    /\ UNCHANGED <<calm, nameOf, doc, now, newName, readAt, lastTrue>>

\* GET /items, paged up to the item with the name.
List(c) ==
    /\ pc[c] = "list"
    /\ \E i \in Items : nameOf[i] = key[c] /\ entry' = [entry EXCEPT ![c].id = i]
    /\ Found(c)
    /\ Goto(c, "generic")
    /\ UNCHANGED <<calm, nameOf, doc, now, newName, readAt, lastTrue>>

\* GET /items/{id}: the display name of the entry.
Generic(c) ==
    /\ pc[c] = "generic"
    /\ Exists(entry[c].id)
    /\ entry' = [entry EXCEPT ![c].name = nameOf[entry[c].id]]
    /\ readAt' = [readAt EXCEPT ![c] = now]
    /\ Goto(c, "detail")
    /\ UNCHANGED <<calm, nameOf, doc, now, key, newName, lastTrue>>

\* NotFoundError from the listing or from a request for the item.
NotFound(c) ==
    /\ \/ pc[c] = "list" /\ Free(key[c])
       \/ pc[c] \in {"generic", "detail"} /\ ~ Exists(entry[c].id)
    /\ Leave(c)
    /\ UNCHANGED <<calm, nameOf, doc, now, lastTrue>>

\* The request for the connection string, and the ItemEntry with its
\* fetched_at; an endpoint that has no connection string yet is not cached.
Detail(c) ==
    /\ pc[c] = "detail"
    /\ Exists(entry[c].id)
    /\ entry' = [entry EXCEPT ![c].at = now]
    /\ readAt' = [readAt EXCEPT ![c] = 0]
    /\ \E place \in {"put", "resolved"} : Goto(c, place)
    /\ UNCHANGED <<calm, nameOf, doc, now, key, newName, lastTrue>>

\* async_put_items under the display name and the GUID.
Put(c) ==
    /\ pc[c] = "put"
    /\ doc' = PutItems(doc, Ws, {entry[c].name, entry[c].id}, entry[c])
    /\ Goto(c, "resolved")
    /\ UNCHANGED <<calm, nameOf, now, key, entry, newName, readAt, lastTrue>>

\* The command ends: it has used the entry, the user did not confirm, or
\* PATCH or DELETE was refused.
Finish(c) ==
    /\ pc[c] = "resolved"
    /\ Leave(c)
    /\ UNCHANGED <<calm, nameOf, doc, now, lastTrue>>

-----------------------------------------------------------------------------
\* warehouses.rename and snapshots.rename.

\* PATCH; only a caller that passed its cache goes on to keep it up.
Patch(c, n) ==
    /\ pc[c] = "resolved"
    /\ Exists(entry[c].id) /\ Free(n)
    /\ SetName(entry[c].id, n)
    /\ IF c \in CacheAware
       THEN /\ Goto(c, "evict_old")
            /\ newName' = [newName EXCEPT ![c] = n]
            /\ readAt' = [readAt EXCEPT ![c] = now]
            /\ UNCHANGED <<key, entry>>
       ELSE Leave(c)
    /\ UNCHANGED <<calm, doc, now>>

\* cache.evict_item(old_name), then the new ItemEntry.
EvictOld(c) ==
    /\ pc[c] = "evict_old"
    /\ doc' = EvictItem(doc, Ws, entry[c].name)
    /\ Goto(c, "put_name")
    /\ UNCHANGED <<calm, nameOf, now, key, entry, newName, readAt, lastTrue>>

NewEntry(c, at) == [id |-> entry[c].id, name |-> newName[c], at |-> at]

\* cache.put_item(new_name), stamped before the write.
PutName(c) ==
    /\ pc[c] = "put_name"
    /\ readAt' = [readAt EXCEPT ![c] = now]
    /\ doc' = PutItem(doc, Ws, newName[c], NewEntry(c, now))
    /\ Goto(c, "put_guid")
    /\ UNCHANGED <<calm, nameOf, now, key, entry, newName, lastTrue>>

KeepGuid(c) == UNCHANGED doc
RenewGuid(c) == doc' = PutItem(doc, Ws, entry[c].id, NewEntry(c, readAt[c]))

\* cache.put_item(guid): the rename is done.
PutGuid(c) ==
    /\ pc[c] = "put_guid"
    /\ RenewGuid(c)
    /\ Leave(c)
    /\ UNCHANGED <<calm, nameOf, now, lastTrue>>

-----------------------------------------------------------------------------
\* warehouses.delete and snapshots.delete.

DeleteItem(c) ==
    /\ pc[c] = "resolved"
    /\ Exists(entry[c].id)
    /\ SetName(entry[c].id, Gone)
    /\ IF c \in CacheAware
       THEN Goto(c, "evict_name") /\ UNCHANGED <<key, entry, newName, readAt>>
       ELSE Leave(c)
    /\ UNCHANGED <<calm, doc, now>>

EvictName(c) ==
    /\ pc[c] = "evict_name"
    /\ doc' = EvictItem(doc, Ws, entry[c].name)
    /\ Goto(c, "evict_guid")
    /\ UNCHANGED <<calm, nameOf, now, key, entry, newName, readAt, lastTrue>>

EvictGuid(c) ==
    /\ pc[c] = "evict_guid"
    /\ doc' = EvictItem(doc, Ws, entry[c].id)
    /\ Leave(c)
    /\ UNCHANGED <<calm, nameOf, now, lastTrue>>

-----------------------------------------------------------------------------
\* A client dies, or a cache method or a request raises; a PATCH or DELETE
\* whose answer is lost has been carried out all the same.
Fail(c) ==
    /\ ~ calm
    /\ pc[c] # "idle"
    /\ Leave(c)
    /\ UNCHANGED <<calm, nameOf, doc, now, lastTrue>>

\* create: it leaves the cache alone.
Create(i, n) ==
    /\ nameOf[i] = Unborn /\ Free(n)
    /\ SetName(i, n)
    /\ UNCHANGED <<calm, doc, now, clientVars>>

\* Someone else renames or deletes the item.
Outsider(i, n) ==
    /\ ~ calm
    /\ Exists(i)
    /\ n = Gone \/ Free(n)
    /\ SetName(i, n)
    /\ UNCHANGED <<calm, doc, now, clientVars>>

\* clear_cache.
ClearItems ==
    /\ doc # EmptyDoc
    /\ doc' = Clear(doc, "items")
    /\ UNCHANGED <<calm, nameOf, now, clientVars, lastTrue>>

\* No client waits longer than FetchSpan between the answer that told it a
\* name and the timestamp it puts on it.
Tick ==
    /\ now < IF calm THEN CalmTime ELSE MaxTime
    /\ \A c \in Clients :
          pc[c] \in {"detail", "evict_old", "put_name"} => now < readAt[c] + FetchSpan
    /\ now' = now + 1
    /\ lastTrue' = [i \in Items |-> [n \in Names |->
                       IF nameOf[i] = n THEN now + 1 ELSE lastTrue[i][n]]]
    /\ UNCHANGED <<calm, nameOf, doc, clientVars>>

Step(c) ==
    \/ \E k \in NamesHere \cup ItemsHere : Begin(c, k)
    \/ Hit(c)
    \/ Miss(c)
    \/ List(c)
    \/ Generic(c)
    \/ NotFound(c)
    \/ Detail(c)
    \/ Put(c)
    \/ Finish(c)
    \/ \E n \in NamesHere : Patch(c, n)
    \/ EvictOld(c)
    \/ PutName(c)
    \/ PutGuid(c)
    \/ DeleteItem(c)
    \/ EvictName(c)
    \/ EvictGuid(c)
    \/ Fail(c)

Next ==
    \/ \E c \in Clients : Step(c)
    \/ \E i \in Items : (\E n \in NamesHere : Create(i, n)) \/ (\E n \in NamesHere \cup {Gone} : Outsider(i, n))
    \/ ClearItems
    \/ Tick

Spec == Init /\ [][Next]_vars

-----------------------------------------------------------------------------
(* Properties. *)

\* What the cache would serve now was true of the server not longer ago than
\* the time an entry lives plus the time a fetch takes, and stands under a key
\* of its own item, whoever renames or dies meanwhile.
BoundedStaleness ==
    \A k \in Names \cup Items : \A e \in Cached(k) :
        /\ k \in {e.name, e.id}
        /\ now < lastTrue[e.id][e.name] + Ttl + FetchSpan

\* "Use clear_cache to force a fresh lookup after renaming items outside this
\* tool": when only this tool changes the workspace and its commands run one
\* after the other, the cache tells nothing the server would deny.
OwnChangesNeedNoClear ==
    calm /\ (\A c \in Clients : pc[c] = "idle") =>
        \A k \in Names \cup Items : \A e \in Cached(k) : nameOf[e.id] = e.name
=============================================================================
