---------------------------- MODULE CacheContent ----------------------------
(***************************************************************************)
(* The JSON document of LookupCache (cache.py) and what each public method *)
(* makes of it.  A document maps workspace names to entries and, per       *)
(* workspace id, item keys (a display name or a GUID) to entries; a key    *)
(* that is absent from a DOMAIN is absent from the file.                   *)
(***************************************************************************)
EXTENDS Naturals, Functions

CONSTANTS
    Ttl,             \* how long an entry is served, in ticks
    Missing,         \* there is no cache file
    Corrupt          \* the file is torn, of another version or another shape

ASSUME TtlAssumption == Ttl \in Nat

EmptyMap == [k \in {} |-> {}]

\* _empty()
EmptyDoc == [workspaces |-> EmptyMap, items |-> EmptyMap]

\* The files that _read and _validate take for the empty document.
Unreadable == {Missing, Corrupt}
Load(file) == IF file \in Unreadable THEN EmptyDoc ELSE file

With(f, k, v) == [x \in DOMAIN f \cup {k} |-> IF x = k THEN v ELSE f[x]]
Without(f, keys) == Restrict(f, DOMAIN f \ keys)

\* items.setdefault(workspace, {})
Bucket(doc, ws) == IF ws \in DOMAIN doc.items THEN doc.items[ws] ELSE EmptyMap

AlwaysFresh(entry, now) == TRUE

\* _is_fresh: a timestamp ahead of the clock counts as fresh.
Fresh(entry, now) == now < entry.at + Ttl

-----------------------------------------------------------------------------
PutWorkspace(doc, name, id, at) ==
    [doc EXCEPT !.workspaces = With(@, name, [id |-> id, at |-> at])]

PutItem(doc, ws, key, entry) ==
    [doc EXCEPT !.items = With(@, ws, With(Bucket(doc, ws), key, entry))]

\* put_items under the display name and the GUID in one cycle.
PutItems(doc, ws, keys, entry) ==
    [doc EXCEPT !.items =
        With(@, ws, [k \in DOMAIN Bucket(doc, ws) \cup keys |->
                        IF k \in keys THEN entry ELSE Bucket(doc, ws)[k]])]

\* evict_item leaves an empty bucket behind; a missing key changes nothing.
EvictItem(doc, ws, key) ==
    IF key \in DOMAIN Bucket(doc, ws)
    THEN [doc EXCEPT !.items[ws] = Without(@, {key})]
    ELSE doc

NamesOf(doc, id) == {n \in DOMAIN doc.workspaces : doc.workspaces[n].id = id}

\* evict_workspace: a name goes with the bucket of its id; an id that has a
\* bucket goes with every name that points to it.
EvictWorkspace(doc, nameOrId) ==
    IF nameOrId \in DOMAIN doc.workspaces
    THEN [workspaces |-> Without(doc.workspaces, {nameOrId}),
          items |-> Without(doc.items, {doc.workspaces[nameOrId].id})]
    ELSE IF nameOrId \in DOMAIN doc.items
    THEN [workspaces |-> Without(doc.workspaces, NamesOf(doc, nameOrId)),
          items |-> Without(doc.items, {nameOrId})]
    ELSE doc

\* clear() and clear_scope(scope).
Clear(doc, scope) ==
    IF scope = "all" THEN EmptyDoc ELSE [doc EXCEPT ![scope] = EmptyMap]

\* The methods as calls, each a record that names its method.
ApplyCall(c, doc) ==
    CASE c.op = "put_workspace"   -> PutWorkspace(doc, c.name, c.id, c.at)
      [] c.op = "put_item"        -> PutItem(doc, c.ws, c.key, c.entry)
      [] c.op = "put_items"       -> PutItems(doc, c.ws, c.keys, c.entry)
      [] c.op = "evict_item"      -> EvictItem(doc, c.ws, c.key)
      [] c.op = "evict_workspace" -> EvictWorkspace(doc, c.key)
      [] c.op = "clear"           -> Clear(doc, c.scope)
      [] c.op = "get"             -> doc

\* Evictions write only when they found something; the other methods always.
CallWrites(c, doc) ==
    \/ c.op \in {"put_workspace", "put_item", "put_items", "clear"}
    \/ c.op \in {"evict_item", "evict_workspace"} /\ ApplyCall(c, doc) # doc

\* get_workspace and get_item: the set of the fresh entry under a key.
GetWorkspace(doc, name, now) ==
    {doc.workspaces[n] : n \in {m \in DOMAIN doc.workspaces \cap {name} :
                                    Fresh(doc.workspaces[m], now)}}

GetItem(doc, ws, key, now) ==
    LET bucket == Bucket(doc, ws) IN
    {bucket[k] : k \in {j \in DOMAIN bucket \cap {key} : Fresh(bucket[j], now)}}
=============================================================================
