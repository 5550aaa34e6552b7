----------------------------- MODULE CacheProofs -----------------------------
(***************************************************************************)
(* Proofs about the cache file and about the commands that use it, for any *)
(* number of processes, commands, items and names.  The lock makes         *)
(* read-modify-replace cycles exclusive, so every call is one atomic step  *)
(* of AtomicCache; on such steps, what the cache serves is bounded in its  *)
(* staleness, and true when only this tool changes the workspace.          *)
(***************************************************************************)
EXTENDS LookupCache, ItemLookup, TLAPS

(***************************************************************************)
(* The file (LookupCache).                                                 *)
(***************************************************************************)

Stages == {"idle", "acquire", "locked", "write", "replace", "release"}

ControlTypes ==
    /\ lock \in Procs \cup {NoProc}
    /\ stage \in [Procs -> Stages]
    /\ op \in [Procs -> Ops]
    /\ DOMAIN local = Procs

IInv == ControlTypes /\ OneWriterAtATime

LEMMA InitIInv == CacheInit => IInv
BY LockAssumption
   DEF CacheInit, IInv, ControlTypes, Stages, OneWriterAtATime, InSection

LEMMA StepIInv == IInv /\ [CacheNext]_cacheVars => IInv'
<1> SUFFICES ASSUME IInv, [CacheNext]_cacheVars PROVE IInv'
    OBVIOUS
<1> USE LockAssumption
    DEF IInv, ControlTypes, Stages, OneWriterAtATime, InSection, MoveTo
<1>1. CASE UNCHANGED cacheVars
    BY <1>1 DEF cacheVars
<1>2. ASSUME NEW p \in Procs, NEW o \in Ops, Call(p, o) PROVE IInv'
    BY <1>2 DEF Call
<1>3. ASSUME NEW p \in Procs, Acquire(p) PROVE IInv'
    BY <1>3 DEF Acquire, TakeLock
<1>4. ASSUME NEW p \in Procs, LockTimeout(p) PROVE IInv'
    BY <1>4 DEF LockTimeout, GiveUp
<1>5. ASSUME NEW p \in Procs, Read(p) PROVE IInv'
    BY <1>5 DEF Read
<1>6. ASSUME NEW p \in Procs, WriteTemp(p) PROVE IInv'
    BY <1>6 DEF WriteTemp, WriteAside
<1>7. ASSUME NEW p \in Procs, Replace(p) PROVE IInv'
    BY <1>7 DEF Replace
<1>8. ASSUME NEW p \in Procs, WriteFails(p) PROVE IInv'
    BY <1>8 DEF WriteFails
<1>9. ASSUME NEW p \in Procs, Release(p) PROVE IInv'
    BY <1>9 DEF Release
<1>10. ASSUME NEW p \in Procs, Crash(p) PROVE IInv'
    BY <1>10 DEF Crash
<1>. QED
    BY <1>1, <1>2, <1>3, <1>4, <1>5, <1>6, <1>7, <1>8, <1>9, <1>10 DEF CacheNext, Work

\* The lock is exclusive and a document about to be replaced is the one that
\* was read, however many processes call the cache and wherever they die.
THEOREM OneWriterCorrect == CacheSpec => []OneWriterAtATime
<1>1. IInv => OneWriterAtATime
    BY DEF IInv
<1>. QED
    BY InitIInv, StepIInv, <1>1, PTL DEF CacheSpec

\* A step of the lock protocol is one method of the atomic cache or leaves the
\* file as it is: only os.replace writes, and it writes what the method makes
\* of the document that is on disk at that moment.
LEMMA StepRefines == IInv /\ [CacheNext]_cacheVars => [Abstract!Next]_file
<1> SUFFICES ASSUME IInv, [CacheNext]_cacheVars PROVE [Abstract!Next]_file
    OBVIOUS
<1>1. ASSUME NEW p \in Procs, Replace(p) PROVE Abstract!Next
    <2>1. op[p] \in Ops
        BY DEF IInv, ControlTypes
    <2>2. local[p] = Abstract!Load(file)
        BY <1>1 DEF Replace, IInv, OneWriterAtATime, Load, Abstract!Load
    <2>3. file' = ApplyCall(op[p], Abstract!Load(file))
        BY <1>1, <2>2 DEF Replace
    <2>. QED
        BY <2>1, <2>3 DEF Abstract!Next, Abstract!Method
<1>2. CASE UNCHANGED cacheVars
    BY <1>2 DEF cacheVars
<1>3. ASSUME NEW p \in Procs, NEW o \in Ops, Call(p, o) PROVE UNCHANGED file
    BY <1>3 DEF Call
<1>4. ASSUME NEW p \in Procs,
             \/ Acquire(p) \/ LockTimeout(p) \/ Read(p) \/ WriteTemp(p)
             \/ WriteFails(p) \/ Release(p) \/ Crash(p)
      PROVE  UNCHANGED file
    BY <1>4 DEF Acquire, LockTimeout, Read, WriteTemp, WriteAside, WriteFails,
                Release, Crash
<1>. QED
    BY <1>1, <1>2, <1>3, <1>4 DEF CacheNext, Work

\* LookupCache implements AtomicCache: no update of a concurrent caller is
\* lost, and a crash or a failed write leaves a complete document.
THEOREM CacheImplementsAtomic == CacheSpec => ImplementsAtomicCache
<1>1. CacheInit => Abstract!Init
    BY DEF CacheInit, Abstract!Init
<1>2. IInv /\ [CacheNext]_cacheVars => [Abstract!Next]_file
    BY StepRefines
<1>. QED
    BY InitIInv, StepIInv, <1>1, <1>2, PTL DEF CacheSpec, ImplementsAtomicCache, Abstract!Spec

-----------------------------------------------------------------------------
(***************************************************************************)
(* The entries (ItemLookup).  That an entry is not staler than Ttl plus    *)
(* FetchSpan depends on what clients hold in flight between the answer of  *)
(* the server and the write: InFlight ties each name they hold to the time *)
(* it was true.                                                            *)
(***************************************************************************)

Texts == Names \cup {Unborn, Gone}
Entries == [id : Items, name : Names, at : Nat]

\* Every variable stays in its set.
WorldTypes ==
    /\ calm \in BOOLEAN
    /\ nameOf \in [Items -> Texts]
    /\ now \in Nat
    /\ lastTrue \in [Items -> [Names -> Nat]]

ClientTypes ==
    /\ pc \in [Clients -> Places]
    /\ key \in [Clients -> Names \cup Items \cup {Unborn}]
    /\ entry \in [Clients -> [id : Items \cup {Unborn}, name : Names \cup {Unborn}, at : Nat]]
    /\ newName \in [Clients -> Names \cup {Unborn}]
    /\ readAt \in [Clients -> Nat]

\* The history is not ahead of the clock, and knows the present.
HistoryInv ==
    \A i \in Items, n \in Names :
        /\ lastTrue[i][n] <= now
        /\ nameOf[i] = n => lastTrue[i][n] = now

\* An entry stands under a key of its item, and its timestamp is not far from a
\* time at which it was true.
Vouched(k, e) ==
    /\ e \in Entries
    /\ k \in {e.name, e.id}
    /\ e.at <= lastTrue[e.id][e.name] + FetchSpan

\* The entries of the workspace.
Content == Bucket(doc, Ws)

CacheInv ==
    /\ "items" \in DOMAIN doc
    /\ \A k \in DOMAIN Content : Vouched(k, Content[k])

\* What a client has under way.
HasEntry == {"detail", "put", "resolved", "evict_old", "put_name", "put_guid",
             "evict_name", "evict_guid"}
Renaming == {"evict_old", "put_name", "put_guid"}

InFlight(c) ==
    /\ pc[c] = "lookup" => key[c] \in Names \cup Items
    /\ pc[c] = "list" => key[c] \in Names
    /\ pc[c] = "generic" => entry[c].id \in Items
    /\ pc[c] \in HasEntry => entry[c].id \in Items /\ entry[c].name \in Names
    /\ pc[c] = "detail" =>
          /\ readAt[c] <= lastTrue[entry[c].id][entry[c].name]
          /\ now <= readAt[c] + FetchSpan
    /\ pc[c] = "put" => entry[c].at <= lastTrue[entry[c].id][entry[c].name] + FetchSpan
    /\ pc[c] \in Renaming => newName[c] \in Names
    /\ pc[c] \in {"evict_old", "put_name"} =>
          /\ readAt[c] <= lastTrue[entry[c].id][newName[c]]
          /\ now <= readAt[c] + FetchSpan
    /\ pc[c] = "put_guid" => readAt[c] <= lastTrue[entry[c].id][newName[c]] + FetchSpan

LookupInv ==
    /\ WorldTypes /\ ClientTypes
    /\ HistoryInv /\ CacheInv
    /\ \A c \in Clients : InFlight(c)

\* In a calm world one command runs at a time, and it is the CLI's.
Alone ==
    /\ \A c \in Clients : pc[c] # "idle" => c \in CacheAware
    /\ \A c, d \in Clients : pc[c] # "idle" /\ pc[d] # "idle" => c = d

\* What the running command knows of its item is so.
Knows(c) ==
    /\ pc[c] \in {"detail", "put", "resolved"} => nameOf[entry[c].id] = entry[c].name
    /\ pc[c] \in Renaming => nameOf[entry[c].id] = newName[c]
    /\ pc[c] \in {"evict_name", "evict_guid"} => nameOf[entry[c].id] = Gone

\* The keys it is about to renew or to evict.
ToRenew(c) ==
    CASE pc[c] \in {"evict_old", "evict_name"} -> {entry[c].name, entry[c].id}
      [] pc[c] \in {"put_name", "put_guid", "evict_guid"} -> {entry[c].id}
      [] OTHER -> {}

TrueOrRenewed(k, e) ==
    \/ nameOf[e.id] = e.name
    \/ \E c \in Clients : k \in ToRenew(c) /\ e.id = entry[c].id

CalmInv ==
    calm => /\ Alone
            /\ \A c \in Clients : Knows(c)
            /\ \A k \in DOMAIN Content : TrueOrRenewed(k, Content[k])

-----------------------------------------------------------------------------
(* The methods of the document. *)

\* What the entries of a workspace are after each method.
LEMMA AfterPutItem ==
    ASSUME NEW d, "items" \in DOMAIN d, NEW ws, NEW k, NEW e
    PROVE  /\ "items" \in DOMAIN PutItem(d, ws, k, e)
           /\ \A x \in DOMAIN Bucket(PutItem(d, ws, k, e), ws) :
                 IF x = k THEN Bucket(PutItem(d, ws, k, e), ws)[x] = e
                 ELSE /\ x \in DOMAIN Bucket(d, ws)
                      /\ Bucket(PutItem(d, ws, k, e), ws)[x] = Bucket(d, ws)[x]
<1> DEFINE b == Bucket(d, ws)
           new == With(b, k, e)
           d2 == PutItem(d, ws, k, e)
<1>1. d2.items = With(d.items, ws, new) /\ DOMAIN d2 = DOMAIN d
    BY DEF PutItem
<1>2. ws \in DOMAIN d2.items /\ d2.items[ws] = new
    BY <1>1 DEF With
<1>3. Bucket(d2, ws) = new
    BY <1>2 DEF Bucket
<1>4. \A x \in DOMAIN new : IF x = k THEN new[x] = e ELSE x \in DOMAIN b /\ new[x] = b[x]
    BY DEF With
<1>. QED
    BY <1>1, <1>3, <1>4

LEMMA AfterPutItems ==
    ASSUME NEW d, "items" \in DOMAIN d, NEW ws, NEW keys, NEW e
    PROVE  /\ "items" \in DOMAIN PutItems(d, ws, keys, e)
           /\ \A x \in DOMAIN Bucket(PutItems(d, ws, keys, e), ws) :
                 IF x \in keys THEN Bucket(PutItems(d, ws, keys, e), ws)[x] = e
                 ELSE /\ x \in DOMAIN Bucket(d, ws)
                      /\ Bucket(PutItems(d, ws, keys, e), ws)[x] = Bucket(d, ws)[x]
<1> DEFINE b == Bucket(d, ws)
           new == [x \in DOMAIN b \cup keys |-> IF x \in keys THEN e ELSE b[x]]
           d2 == PutItems(d, ws, keys, e)
<1>1. d2.items = With(d.items, ws, new) /\ DOMAIN d2 = DOMAIN d
    BY DEF PutItems
<1>2. ws \in DOMAIN d2.items /\ d2.items[ws] = new
    BY <1>1 DEF With
<1>3. Bucket(d2, ws) = new
    BY <1>2 DEF Bucket
<1>4. \A x \in DOMAIN new : IF x \in keys THEN new[x] = e ELSE x \in DOMAIN b /\ new[x] = b[x]
    OBVIOUS
<1>. QED
    BY <1>1, <1>3, <1>4

LEMMA AfterEvictItem ==
    ASSUME NEW d, "items" \in DOMAIN d, NEW ws, NEW k
    PROVE  /\ "items" \in DOMAIN EvictItem(d, ws, k)
           /\ \A x \in DOMAIN Bucket(EvictItem(d, ws, k), ws) :
                 /\ x \in DOMAIN Bucket(d, ws) \ {k}
                 /\ Bucket(EvictItem(d, ws, k), ws)[x] = Bucket(d, ws)[x]
<1> DEFINE b == Bucket(d, ws)
           d2 == EvictItem(d, ws, k)
<1>1. CASE k \notin DOMAIN b
    BY <1>1 DEF EvictItem
<1>2. CASE k \in DOMAIN b
    <2>1. ws \in DOMAIN d.items /\ b = d.items[ws]
        BY <1>2 DEF Bucket, EmptyMap
    <2>2. d2 = [d EXCEPT !.items[ws] = Without(@, {k})]
        BY <1>2 DEF EvictItem
    <2>3. DOMAIN d2 = DOMAIN d /\ ws \in DOMAIN d2.items /\ d2.items[ws] = Without(b, {k})
        BY <2>1, <2>2
    <2>4. Bucket(d2, ws) = Without(b, {k})
        BY <2>3 DEF Bucket
    <2>5. \A x \in DOMAIN Without(b, {k}) : x \in DOMAIN b \ {k} /\ Without(b, {k})[x] = b[x]
        BY DEF Without, Restrict
    <2>. QED
        BY <2>3, <2>4, <2>5
<1>. QED
    BY <1>1, <1>2

LEMMA AfterClear ==
    ASSUME NEW d, "items" \in DOMAIN d, NEW ws
    PROVE  /\ "items" \in DOMAIN Clear(d, "items")
           /\ DOMAIN Bucket(Clear(d, "items"), ws) = {}
BY DEF Clear, Bucket, EmptyMap

\* What is served is an entry that is still fresh.
LEMMA ServedFromContent ==
    ASSUME NEW k, NEW e \in Cached(k)
    PROVE  k \in DOMAIN Content /\ e = Content[k] /\ now < e.at + Ttl
BY DEF Cached, GetItem, Content, Fresh

-----------------------------------------------------------------------------
(* Steps, and what they leave alone. *)

\* The clock and the history only go on.
Grows ==
    /\ now <= now'
    /\ \A i \in Items, n \in Names : lastTrue[i][n] <= lastTrue'[i][n]

\* A step in which a client does nothing.
Rests(d) ==
    /\ pc'[d] = pc[d] /\ key'[d] = key[d] /\ entry'[d] = entry[d]
    /\ newName'[d] = newName[d] /\ readAt'[d] = readAt[d]

RestsOthers(c) == \A d \in Clients \ {c} : Rests(d)

\* The time a client has spent on a fetch stays within FetchSpan.
InTime(d) ==
    pc[d] \in {"detail", "evict_old", "put_name"} => now' <= readAt[d] + FetchSpan

\* What a client has under way stays in order while it rests and is in time.
LEMMA RestingInFlight ==
    ASSUME WorldTypes, ClientTypes, WorldTypes', NEW d \in Clients,
           InFlight(d), Rests(d), Grows, InTime(d)
    PROVE  InFlight(d)'
<1>1. /\ readAt[d] \in Nat /\ entry[d].at \in Nat /\ now \in Nat /\ now' \in Nat /\ FetchSpan \in Nat
      /\ \A i \in Items, n \in Names :
            lastTrue[i][n] \in Nat /\ lastTrue'[i][n] \in Nat /\ lastTrue[i][n] <= lastTrue'[i][n]
    BY LookupAssumption DEF WorldTypes, ClientTypes, Grows
<1>2. pc'[d] = "detail" =>
          /\ readAt'[d] <= lastTrue'[entry'[d].id][entry'[d].name]
          /\ now' <= readAt'[d] + FetchSpan
    BY <1>1 DEF InFlight, Rests, InTime, HasEntry
<1>3. pc'[d] = "put" => entry'[d].at <= lastTrue'[entry'[d].id][entry'[d].name] + FetchSpan
    BY <1>1 DEF InFlight, Rests, HasEntry
<1>4. pc'[d] \in {"evict_old", "put_name"} =>
          /\ readAt'[d] <= lastTrue'[entry'[d].id][newName'[d]]
          /\ now' <= readAt'[d] + FetchSpan
    BY <1>1 DEF InFlight, Rests, InTime, HasEntry, Renaming
<1>5. pc'[d] = "put_guid" => readAt'[d] <= lastTrue'[entry'[d].id][newName'[d]] + FetchSpan
    BY <1>1 DEF InFlight, Rests, HasEntry, Renaming
<1>. QED
    BY <1>2, <1>3, <1>4, <1>5 DEF InFlight, Rests

\* What the cache holds stays vouched for when each entry is an old one or a
\* vouched one.
LEMMA StillVouched ==
    ASSUME WorldTypes, WorldTypes', CacheInv, Grows, "items" \in DOMAIN doc',
           \A k \in DOMAIN Content' :
               \/ Vouched(k, Content[k])'
               \/ k \in DOMAIN Content /\ Content'[k] = Content[k]
    PROVE  CacheInv'
<1>1. ASSUME NEW k \in DOMAIN Content', k \in DOMAIN Content, Content'[k] = Content[k]
      PROVE  Vouched(k, Content[k])'
    <2>1. Vouched(k, Content[k])
        BY <1>1 DEF CacheInv
    <2>2. Content[k].id \in Items /\ Content[k].name \in Names /\ Content[k].at \in Nat
        BY <2>1 DEF Vouched, Entries
    <2>3. Content[k].at <= lastTrue'[Content[k].id][Content[k].name] + FetchSpan
        BY <2>1, <2>2, LookupAssumption DEF Vouched, Grows, WorldTypes
    <2>. QED
        BY <1>1, <2>1, <2>3 DEF Vouched
<1>. QED
    BY <1>1 DEF CacheInv

\* The server, the cache and the clock stay as they are.
StillWorld == UNCHANGED <<calm, nameOf, doc, now, lastTrue>>

\* A step of which the world sees nothing.
LEMMA StillWorldKeeps ==
    ASSUME LookupInv, StillWorld
    PROVE  WorldTypes' /\ HistoryInv' /\ CacheInv' /\ Grows
<1> USE DEF LookupInv, StillWorld
<1>1. WorldTypes'
    BY DEF WorldTypes
<1>2. HistoryInv'
    BY DEF HistoryInv
<1>3. CacheInv'
    BY DEF CacheInv, Content, Vouched
<1>4. Grows
    BY DEF Grows, WorldTypes
<1>. QED
    BY <1>1, <1>2, <1>3, <1>4

\* A step of c, the clock standing still, is judged by c and by the world.
LEMMA ClientStep ==
    ASSUME LookupInv, NEW c \in Clients, RestsOthers(c), UNCHANGED now,
           WorldTypes', ClientTypes', HistoryInv', CacheInv', Grows, InFlight(c)'
    PROVE  LookupInv'
<1>1. ASSUME NEW d \in Clients \ {c} PROVE InFlight(d)'
    <2>1. InFlight(d) /\ Rests(d) /\ WorldTypes /\ ClientTypes
        BY DEF LookupInv, RestsOthers
    <2>2. InTime(d)
        BY <2>1 DEF InFlight, InTime
    <2>. QED
        BY <2>1, <2>2, RestingInFlight
<1>. QED
    BY <1>1 DEF LookupInv

\* A step of c that the world does not see.
LEMMA QuietStep ==
    ASSUME LookupInv, NEW c \in Clients, RestsOthers(c), StillWorld, ClientTypes', InFlight(c)'
    PROVE  LookupInv'
BY StillWorldKeeps, ClientStep DEF StillWorld

\* A client that leaves has nothing under way.
LEMMA Left ==
    ASSUME ClientTypes, NEW c \in Clients, Leave(c)
    PROVE  ClientTypes' /\ RestsOthers(c) /\ InFlight(c)' /\ pc'[c] = "idle"
<1> USE DEF Leave, Goto, Found, Blank, Places
<1>1. ClientTypes'
    BY DEF ClientTypes
<1>2. RestsOthers(c) /\ pc'[c] = "idle"
    BY DEF ClientTypes, RestsOthers, Rests
<1>3. InFlight(c)'
    BY <1>2 DEF InFlight, HasEntry, Renaming
<1>. QED
    BY <1>1, <1>2, <1>3

-----------------------------------------------------------------------------
(* The commands. *)

\* The steps of a resolution: a name or a GUID to look for,
LEMMA BeginStep ==
    ASSUME LookupInv, NEW c \in Clients, NEW k \in Names \cup Items, Begin(c, k)
    PROVE  LookupInv'
<1>1. ClientTypes' /\ RestsOthers(c) /\ StillWorld /\ pc'[c] = "lookup" /\ key'[c] = k
    BY DEF LookupInv, ClientTypes, Begin, Goto, Places, RestsOthers, Rests, StillWorld
<1>2. InFlight(c)'
    BY <1>1 DEF InFlight, HasEntry, Renaming
<1>. QED
    BY <1>1, <1>2, QuietStep

\* ... an entry of the cache,
LEMMA HitStep ==
    ASSUME LookupInv, NEW c \in Clients, Hit(c)
    PROVE  LookupInv'
<1>1. PICK e \in Cached(key[c]) : entry' = [entry EXCEPT ![c] = e]
    BY DEF Hit
<1>2. e.id \in Items /\ e.name \in Names /\ e \in Entries
    BY <1>1, ServedFromContent DEF LookupInv, CacheInv, Vouched, Entries
<1>3. e \in [id : Items \cup {Unborn}, name : Names \cup {Unborn}, at : Nat]
    BY <1>2 DEF Entries
<1>4. /\ ClientTypes' /\ RestsOthers(c) /\ StillWorld
      /\ pc'[c] = "resolved" /\ entry'[c] = e
    BY <1>1, <1>3
       DEF LookupInv, ClientTypes, Hit, Goto, Found, Places, RestsOthers, Rests, StillWorld
<1>5. InFlight(c)'
    BY <1>2, <1>4 DEF InFlight, HasEntry, Renaming
<1>. QED
    BY <1>4, <1>5, QuietStep

\* ... or none,
LEMMA MissStep ==
    ASSUME LookupInv, NEW c \in Clients, Miss(c)
    PROVE  LookupInv'
<1>1. pc[c] = "lookup" /\ key[c] \in Names \cup Items /\ StillWorld
    BY DEF LookupInv, InFlight, Miss, StillWorld
<1>2. CASE key[c] \in Items
    <2>1. [entry[c] EXCEPT !.id = key[c]]
              \in [id : Items \cup {Unborn}, name : Names \cup {Unborn}, at : Nat]
        BY <1>2 DEF LookupInv, ClientTypes
    <2>2. ClientTypes'
        BY <1>2, <2>1 DEF LookupInv, ClientTypes, Miss, Goto, Found, Places
    <2>3. RestsOthers(c) /\ pc'[c] = "generic" /\ entry'[c].id = key[c]
        BY <1>2 DEF LookupInv, ClientTypes, Miss, Goto, Found, RestsOthers, Rests
    <2>4. InFlight(c)'
        BY <1>2, <2>3 DEF InFlight, HasEntry, Renaming
    <2>. QED
        BY <1>1, <2>2, <2>3, <2>4, QuietStep
<1>3. CASE key[c] \notin Items
    <2>1. ClientTypes' /\ RestsOthers(c) /\ pc'[c] = "list" /\ key'[c] = key[c]
        BY <1>3 DEF LookupInv, ClientTypes, Miss, Goto, Places, RestsOthers, Rests
    <2>2. InFlight(c)'
        BY <1>1, <1>3, <2>1 DEF InFlight, HasEntry, Renaming
    <2>. QED
        BY <1>1, <2>1, <2>2, QuietStep
<1>. QED
    BY <1>2, <1>3

\* ... the item of the list with the name,
LEMMA ListStep ==
    ASSUME LookupInv, NEW c \in Clients, List(c)
    PROVE  LookupInv'
<1>1. PICK i \in Items : entry' = [entry EXCEPT ![c].id = i]
    BY DEF List
<1>2. [entry[c] EXCEPT !.id = i]
          \in [id : Items \cup {Unborn}, name : Names \cup {Unborn}, at : Nat]
    BY DEF LookupInv, ClientTypes
<1>3. ClientTypes'
    BY <1>1, <1>2 DEF LookupInv, ClientTypes, List, Goto, Found, Places
<1>4. RestsOthers(c) /\ StillWorld /\ pc'[c] = "generic" /\ entry'[c].id = i
    BY <1>1 DEF LookupInv, ClientTypes, List, Goto, Found, RestsOthers, Rests, StillWorld
<1>5. InFlight(c)'
    BY <1>4 DEF InFlight, HasEntry, Renaming
<1>. QED
    BY <1>3, <1>4, <1>5, QuietStep

\* ... its display name, which is the current one,
LEMMA GenericStep ==
    ASSUME LookupInv, NEW c \in Clients, Generic(c)
    PROVE  LookupInv'
<1>1. entry[c].id \in Items /\ nameOf[entry[c].id] \in Names
    BY DEF LookupInv, InFlight, Generic, Exists
<1>2. [entry[c] EXCEPT !.name = nameOf[entry[c].id]]
          \in [id : Items \cup {Unborn}, name : Names \cup {Unborn}, at : Nat]
    BY <1>1 DEF LookupInv, ClientTypes
<1>3. ClientTypes'
    BY <1>2 DEF LookupInv, WorldTypes, ClientTypes, Generic, Goto, Places
<1>4. /\ RestsOthers(c) /\ StillWorld
      /\ pc'[c] = "detail" /\ readAt'[c] = now
      /\ entry'[c].id = entry[c].id /\ entry'[c].name = nameOf[entry[c].id]
    BY DEF LookupInv, ClientTypes, Generic, Goto, RestsOthers, Rests, StillWorld
<1>5. lastTrue'[entry'[c].id][entry'[c].name] = now /\ now' = now
    BY <1>1, <1>4 DEF LookupInv, HistoryInv, StillWorld
<1>6. now \in Nat /\ FetchSpan \in Nat
    BY LookupAssumption DEF LookupInv, WorldTypes
<1>7. InFlight(c)'
    BY <1>1, <1>4, <1>5, <1>6 DEF InFlight, HasEntry, Renaming
<1>. QED
    BY <1>3, <1>4, <1>7, QuietStep

\* ... and the timestamp, at most FetchSpan later.
LEMMA DetailOfItemStep ==
    ASSUME LookupInv, NEW c \in Clients, Detail(c)
    PROVE  LookupInv'
<1>1. /\ entry[c].id \in Items /\ entry[c].name \in Names
      /\ readAt[c] <= lastTrue[entry[c].id][entry[c].name]
      /\ now <= readAt[c] + FetchSpan
    BY DEF LookupInv, InFlight, Detail, HasEntry
<1>2. [entry[c] EXCEPT !.at = now]
          \in [id : Items \cup {Unborn}, name : Names \cup {Unborn}, at : Nat]
    BY <1>1 DEF LookupInv, WorldTypes, ClientTypes
<1>3. ClientTypes'
    BY <1>2 DEF LookupInv, WorldTypes, ClientTypes, Detail, Goto, Places
<1>4. /\ RestsOthers(c) /\ StillWorld
      /\ pc'[c] \in {"put", "resolved"}
      /\ entry'[c].id = entry[c].id /\ entry'[c].name = entry[c].name /\ entry'[c].at = now
    BY DEF LookupInv, ClientTypes, Detail, Goto, RestsOthers, Rests, StillWorld
<1>5. now <= lastTrue[entry[c].id][entry[c].name] + FetchSpan
    BY <1>1, LookupAssumption DEF LookupInv, WorldTypes, ClientTypes
<1>6. InFlight(c)'
    BY <1>1, <1>4, <1>5 DEF InFlight, HasEntry, Renaming, StillWorld
<1>. QED
    BY <1>3, <1>4, <1>6, QuietStep

\* A client that gives up or has done leaves the world alone.
LEMMA EndStep ==
    ASSUME LookupInv, NEW c \in Clients, NotFound(c) \/ Finish(c) \/ Fail(c)
    PROVE  LookupInv'
<1>1. Leave(c) /\ StillWorld
    BY DEF NotFound, Finish, Fail, StillWorld
<1>. QED
    BY <1>1, Left, QuietStep DEF LookupInv

-----------------------------------------------------------------------------
\* A step that writes the document only.
LEMMA WriteStep ==
    ASSUME LookupInv, NEW c \in Clients, UNCHANGED <<calm, nameOf, now, lastTrue>>,
           "items" \in DOMAIN doc',
           \A k \in DOMAIN Content' :
               \/ Vouched(k, Content[k])'
               \/ k \in DOMAIN Content /\ Content'[k] = Content[k],
           RestsOthers(c), ClientTypes', InFlight(c)'
    PROVE  LookupInv'
<1>1. WorldTypes' /\ HistoryInv' /\ Grows
    BY DEF LookupInv, WorldTypes, HistoryInv, Grows
<1>2. CacheInv'
    BY <1>1, StillVouched DEF LookupInv
<1>. QED
    BY <1>1, <1>2, ClientStep

\* The entry of a fetch is put under its name and its GUID.
LEMMA PutStep ==
    ASSUME LookupInv, NEW c \in Clients, Put(c)
    PROVE  LookupInv'
<1>1. /\ entry[c].id \in Items /\ entry[c].name \in Names
      /\ entry[c].at <= lastTrue[entry[c].id][entry[c].name] + FetchSpan
      /\ entry[c] \in Entries
    BY DEF LookupInv, InFlight, Put, HasEntry, ClientTypes, Entries
<1>2. /\ ClientTypes' /\ RestsOthers(c) /\ pc'[c] = "resolved" /\ entry'[c] = entry[c]
      /\ UNCHANGED <<calm, nameOf, now, lastTrue>>
    BY DEF LookupInv, ClientTypes, Put, Goto, Places, RestsOthers, Rests
<1>3. InFlight(c)'
    BY <1>1, <1>2 DEF InFlight, HasEntry, Renaming
<1>4. "items" \in DOMAIN doc /\ doc' = PutItems(doc, Ws, {entry[c].name, entry[c].id}, entry[c])
    BY DEF LookupInv, CacheInv, Put
<1>5. /\ "items" \in DOMAIN doc'
      /\ \A k \in DOMAIN Content' :
            IF k \in {entry[c].name, entry[c].id} THEN Content'[k] = entry[c]
            ELSE k \in DOMAIN Content /\ Content'[k] = Content[k]
    BY <1>4, AfterPutItems DEF Content
<1>6. ASSUME NEW k \in DOMAIN Content', k \in {entry[c].name, entry[c].id}
      PROVE  Vouched(k, Content[k])'
    BY <1>1, <1>2, <1>5, <1>6 DEF Vouched
<1>. QED
    BY <1>2, <1>3, <1>5, <1>6, WriteStep

\* An eviction adds nothing.
LEMMA EvictStep ==
    ASSUME LookupInv, NEW c \in Clients, UNCHANGED <<calm, nameOf, now, lastTrue>>,
           NEW k, doc' = EvictItem(doc, Ws, k),
           RestsOthers(c), ClientTypes', InFlight(c)'
    PROVE  LookupInv'
<1>1. /\ "items" \in DOMAIN doc'
      /\ \A x \in DOMAIN Content' : x \in DOMAIN Content \ {k} /\ Content'[x] = Content[x]
    BY AfterEvictItem DEF LookupInv, CacheInv, Content
<1>. QED
    BY <1>1, WriteStep

\* A rename evicts the old name,
LEMMA EvictOldStep ==
    ASSUME LookupInv, NEW c \in Clients, EvictOld(c)
    PROVE  LookupInv'
<1>1. ClientTypes' /\ RestsOthers(c)
    BY DEF LookupInv, ClientTypes, EvictOld, Goto, Places, RestsOthers, Rests
<1>2. /\ pc[c] = "evict_old" /\ pc'[c] = "put_name"
      /\ UNCHANGED <<entry, newName, readAt, now, lastTrue>>
    BY DEF LookupInv, ClientTypes, EvictOld, Goto
<1>3. InFlight(c)'
    BY <1>2 DEF LookupInv, InFlight, HasEntry, Renaming
<1>. QED
    BY <1>1, <1>3, EvictStep DEF EvictOld

\* A delete evicts the name,
LEMMA EvictNameStep ==
    ASSUME LookupInv, NEW c \in Clients, EvictName(c)
    PROVE  LookupInv'
<1>1. ClientTypes' /\ RestsOthers(c)
    BY DEF LookupInv, ClientTypes, EvictName, Goto, Places, RestsOthers, Rests
<1>2. pc[c] = "evict_name" /\ pc'[c] = "evict_guid" /\ UNCHANGED entry
    BY DEF LookupInv, ClientTypes, EvictName, Goto
<1>3. InFlight(c)'
    BY <1>2 DEF LookupInv, InFlight, HasEntry, Renaming
<1>. QED
    BY <1>1, <1>3, EvictStep DEF EvictName

\* ... then the GUID.
LEMMA EvictGuidStep ==
    ASSUME LookupInv, NEW c \in Clients, EvictGuid(c)
    PROVE  LookupInv'
<1>1. ClientTypes' /\ RestsOthers(c) /\ InFlight(c)'
    BY Left DEF LookupInv, EvictGuid
<1>. QED
    BY <1>1, EvictStep DEF EvictGuid

\* A renamed item is put under one key.
LEMMA PutOneStep ==
    ASSUME LookupInv, NEW c \in Clients, UNCHANGED <<calm, nameOf, now, lastTrue>>,
           NEW k, NEW e, doc' = PutItem(doc, Ws, k, e), Vouched(k, e),
           RestsOthers(c), ClientTypes', InFlight(c)'
    PROVE  LookupInv'
<1>1. /\ "items" \in DOMAIN doc'
      /\ \A x \in DOMAIN Content' :
            IF x = k THEN Content'[x] = e ELSE x \in DOMAIN Content /\ Content'[x] = Content[x]
    BY AfterPutItem DEF LookupInv, CacheInv, Content
<1>2. ASSUME NEW x \in DOMAIN Content', x = k PROVE Vouched(x, Content[x])'
    BY <1>1, <1>2 DEF Vouched
<1>. QED
    BY <1>1, <1>2, WriteStep

\* The entry of a rename is vouched for by the time of the rename.
LEMMA NewEntryVouched ==
    ASSUME LookupInv, NEW c \in Clients, entry[c].id \in Items, newName[c] \in Names,
           NEW at \in Nat, at <= lastTrue[entry[c].id][newName[c]] + FetchSpan,
           NEW k \in {newName[c], entry[c].id}
    PROVE  Vouched(k, NewEntry(c, at))
BY DEF Vouched, NewEntry, Entries

\* ... then puts the item under the new one, stamped at most FetchSpan later,
LEMMA PutNameStep ==
    ASSUME LookupInv, NEW c \in Clients, PutName(c)
    PROVE  LookupInv'
<1>1. /\ entry[c].id \in Items /\ entry[c].name \in Names /\ newName[c] \in Names
      /\ readAt[c] <= lastTrue[entry[c].id][newName[c]]
      /\ now <= readAt[c] + FetchSpan
    BY DEF LookupInv, InFlight, PutName, HasEntry, Renaming
<1>2. now <= lastTrue[entry[c].id][newName[c]] + FetchSpan /\ now \in Nat
    BY <1>1, LookupAssumption DEF LookupInv, WorldTypes, ClientTypes
<1>3. Vouched(newName[c], NewEntry(c, now))
    BY <1>1, <1>2, NewEntryVouched
<1>4. ClientTypes' /\ RestsOthers(c)
    BY <1>2 DEF LookupInv, ClientTypes, PutName, Goto, Places, RestsOthers, Rests
<1>5. /\ pc'[c] = "put_guid" /\ readAt'[c] = now
      /\ UNCHANGED <<entry, newName, now, lastTrue>>
    BY DEF LookupInv, ClientTypes, PutName, Goto
<1>6. InFlight(c)'
    BY <1>1, <1>2, <1>5 DEF InFlight, HasEntry, Renaming
<1>. QED
    BY <1>3, <1>4, <1>6, PutOneStep DEF PutName

\* ... and under its GUID, with the same stamp.
LEMMA PutGuidStep ==
    ASSUME LookupInv, NEW c \in Clients, PutGuid(c)
    PROVE  LookupInv'
<1>1. /\ entry[c].id \in Items /\ newName[c] \in Names /\ readAt[c] \in Nat
      /\ readAt[c] <= lastTrue[entry[c].id][newName[c]] + FetchSpan
    BY DEF LookupInv, ClientTypes, InFlight, PutGuid, HasEntry, Renaming
<1>2. Vouched(entry[c].id, NewEntry(c, readAt[c]))
    BY <1>1, NewEntryVouched
<1>3. ClientTypes' /\ RestsOthers(c) /\ InFlight(c)'
    BY Left DEF LookupInv, PutGuid
<1>. QED
    BY <1>2, <1>3, PutOneStep DEF PutGuid, RenewGuid

\* A new name is remembered from now on; nothing that was true is forgotten.
LEMMA Named ==
    ASSUME LookupInv, NEW i \in Items, NEW n \in Names \cup {Gone}, SetName(i, n),
           UNCHANGED <<calm, doc, now>>
    PROVE  /\ WorldTypes' /\ HistoryInv' /\ CacheInv' /\ Grows
           /\ n \in Names => lastTrue'[i][n] = now
<1> USE LookupAssumption DEF LookupInv, SetName
<1>1. /\ nameOf' \in [Items -> Texts]
      /\ nameOf'[i] = n /\ \A j \in Items \ {i} : nameOf'[j] = nameOf[j]
    BY DEF WorldTypes, Texts
<1>2. /\ lastTrue' \in [Items -> [Names -> Nat]]
      /\ \A j \in Items, m \in Names :
            lastTrue'[j][m] = IF j = i /\ m = n THEN now ELSE lastTrue[j][m]
    <2>1. CASE n \in Names
        <3>1. [lastTrue[i] EXCEPT ![n] = now] \in [Names -> Nat]
            BY DEF WorldTypes
        <3>2. lastTrue' = [lastTrue EXCEPT ![i] = [lastTrue[i] EXCEPT ![n] = now]]
            BY <2>1 DEF WorldTypes
        <3>. QED
            BY <3>1, <3>2 DEF WorldTypes
    <2>2. CASE n \notin Names
        BY <2>2 DEF WorldTypes
    <2>. QED
        BY <2>1, <2>2
<1>3. WorldTypes'
    BY <1>1, <1>2 DEF WorldTypes
<1>4. HistoryInv'
    BY <1>1, <1>2 DEF HistoryInv, WorldTypes
<1>5. Grows
    BY <1>2 DEF Grows, HistoryInv, WorldTypes
<1>6. CacheInv'
    <2>1. "items" \in DOMAIN doc' /\ Content' = Content
        BY DEF CacheInv, Content
    <2>. QED
        BY <1>3, <1>5, <2>1, StillVouched
<1>. QED
    BY <1>2, <1>3, <1>4, <1>5, <1>6

\* A rename by a client, with or without the cache upkeep.
LEMMA PatchStep ==
    ASSUME LookupInv, NEW c \in Clients, NEW n \in Names, Patch(c, n)
    PROVE  LookupInv'
<1>1. entry[c].id \in Items /\ entry[c].name \in Names
    BY DEF LookupInv, InFlight, Patch, HasEntry
<1>2. /\ WorldTypes' /\ HistoryInv' /\ CacheInv' /\ Grows
      /\ lastTrue'[entry[c].id][n] = now /\ UNCHANGED now
    BY <1>1, Named DEF Patch
<1>3. ClientTypes' /\ RestsOthers(c) /\ InFlight(c)'
    <2>1. CASE c \in CacheAware
        <3>1. ClientTypes' /\ RestsOthers(c)
            BY <2>1 DEF LookupInv, WorldTypes, ClientTypes, Patch, Goto, Places, RestsOthers, Rests
        <3>2. /\ pc'[c] = "evict_old" /\ newName'[c] = n /\ readAt'[c] = now /\ UNCHANGED entry
              /\ now \in Nat /\ FetchSpan \in Nat
            BY <2>1, LookupAssumption DEF LookupInv, WorldTypes, ClientTypes, Patch, Goto
        <3>3. InFlight(c)'
            BY <1>1, <1>2, <3>2 DEF InFlight, HasEntry, Renaming
        <3>. QED
            BY <3>1, <3>3
    <2>2. CASE c \notin CacheAware
        BY <2>2, Left DEF LookupInv, Patch
    <2>. QED
        BY <2>1, <2>2
<1>. QED
    BY <1>2, <1>3, ClientStep

\* A delete, likewise.
LEMMA DeleteStep ==
    ASSUME LookupInv, NEW c \in Clients, DeleteItem(c)
    PROVE  LookupInv'
<1>1. entry[c].id \in Items /\ entry[c].name \in Names
    BY DEF LookupInv, InFlight, DeleteItem, HasEntry
<1>2. WorldTypes' /\ HistoryInv' /\ CacheInv' /\ Grows /\ UNCHANGED now
    BY <1>1, Named DEF DeleteItem
<1>3. ClientTypes' /\ RestsOthers(c) /\ InFlight(c)'
    <2>1. CASE c \in CacheAware
        <3>1. ClientTypes' /\ RestsOthers(c)
            BY <2>1 DEF LookupInv, ClientTypes, DeleteItem, Goto, Places, RestsOthers, Rests
        <3>2. pc'[c] = "evict_name" /\ UNCHANGED entry
            BY <2>1 DEF LookupInv, ClientTypes, DeleteItem, Goto
        <3>3. InFlight(c)'
            BY <1>1, <3>2 DEF InFlight, HasEntry, Renaming
        <3>. QED
            BY <3>1, <3>3
    <2>2. CASE c \notin CacheAware
        BY <2>2, Left DEF LookupInv, DeleteItem
    <2>. QED
        BY <2>1, <2>2
<1>. QED
    BY <1>2, <1>3, ClientStep

\* A step of no client.
LEMMA WorldStep ==
    ASSUME LookupInv, UNCHANGED clientVars, WorldTypes', HistoryInv', CacheInv', Grows,
           \A d \in Clients : InTime(d)
    PROVE  LookupInv'
<1>1. ClientTypes' /\ \A d \in Clients : Rests(d)
    BY DEF LookupInv, ClientTypes, Rests, clientVars
<1>2. ASSUME NEW d \in Clients PROVE InFlight(d)'
    BY <1>1, RestingInFlight DEF LookupInv
<1>. QED
    BY <1>1, <1>2 DEF LookupInv

\* So far everybody was in time.
LEMMA NoDelay ==
    ASSUME LookupInv, UNCHANGED now
    PROVE  \A d \in Clients : InTime(d)
BY DEF LookupInv, InFlight, InTime

\* Creates, and what others rename or delete.
LEMMA OthersNameStep ==
    ASSUME LookupInv, NEW i \in Items, NEW n \in Names \cup {Gone}, SetName(i, n),
           UNCHANGED <<calm, doc, now, clientVars>>
    PROVE  LookupInv'
<1>1. WorldTypes' /\ HistoryInv' /\ CacheInv' /\ Grows
    BY Named
<1>. QED
    BY <1>1, NoDelay, WorldStep

\* clear_cache.
LEMMA ClearStep ==
    ASSUME LookupInv, ClearItems
    PROVE  LookupInv'
<1>1. "items" \in DOMAIN doc' /\ DOMAIN Content' = {}
    BY AfterClear DEF LookupInv, CacheInv, Content, ClearItems
<1>2. WorldTypes' /\ HistoryInv' /\ Grows /\ UNCHANGED clientVars /\ UNCHANGED now
    BY DEF LookupInv, WorldTypes, HistoryInv, Grows, ClearItems
<1>3. CacheInv'
    BY <1>1 DEF CacheInv
<1>. QED
    BY <1>2, <1>3, NoDelay, WorldStep

\* The clock goes on only as far as every fetch is in time.
LEMMA TickStep ==
    ASSUME LookupInv, Tick
    PROVE  LookupInv'
<1>1. /\ now' = now + 1 /\ now \in Nat
      /\ \A i \in Items, n \in Names :
            /\ lastTrue[i][n] \in Nat
            /\ lastTrue'[i][n] = IF nameOf[i] = n THEN now + 1 ELSE lastTrue[i][n]
    BY DEF LookupInv, WorldTypes, Tick
<1>2. WorldTypes'
    <2>1. lastTrue' \in [Items -> [Names -> Nat]]
        BY <1>1 DEF LookupInv, WorldTypes, Tick
    <2>. QED
        BY <1>1, <2>1 DEF LookupInv, WorldTypes, Tick
<1>3. HistoryInv'
    BY <1>1 DEF LookupInv, HistoryInv, Tick
<1>4. Grows
    BY <1>1 DEF LookupInv, HistoryInv, Grows
<1>5. CacheInv'
    <2>1. "items" \in DOMAIN doc' /\ Content' = Content
        BY DEF LookupInv, CacheInv, Content, Tick
    <2>. QED
        BY <1>2, <1>4, <2>1, StillVouched DEF LookupInv
<1>6. ASSUME NEW d \in Clients PROVE InTime(d)
    BY <1>1, LookupAssumption DEF LookupInv, ClientTypes, InTime, Tick
<1>. QED
    BY <1>2, <1>3, <1>4, <1>5, <1>6, WorldStep DEF Tick

\* A stutter.
LEMMA ClockStops ==
    ASSUME LookupInv, UNCHANGED vars
    PROVE  LookupInv'
<1>1. StillWorld /\ UNCHANGED clientVars
    BY DEF vars, StillWorld
<1>. QED
    BY <1>1, StillWorldKeeps, NoDelay, WorldStep DEF StillWorld

\* At the start the cache is empty and nobody is at work.
LEMMA LookupInit == Init => LookupInv
<1> SUFFICES ASSUME Init PROVE LookupInv
    OBVIOUS
<1>0. Ttl \in Nat /\ FetchSpan \in Nat /\ now = Ttl + FetchSpan
    BY TtlAssumption, LookupAssumption DEF Init
<1>1. WorldTypes
    BY <1>0 DEF Init, WorldTypes, Texts
<1>2. ClientTypes
    BY DEF Init, ClientTypes, Blank, Places
<1>3. HistoryInv
    BY <1>0 DEF Init, HistoryInv
<1>4. CacheInv
    BY DEF Init, CacheInv, Content, Bucket, EmptyDoc, EmptyMap
<1>5. ASSUME NEW c \in Clients PROVE InFlight(c)
    BY DEF Init, InFlight, HasEntry, Renaming
<1>. QED
    BY <1>1, <1>2, <1>3, <1>4, <1>5 DEF LookupInv

\* A bound of the world that is not calm bounds less than all.
LEMMA NamesAndItemsHere == NamesHere \subseteq Names /\ ItemsHere \subseteq Items
BY LookupAssumption DEF NamesHere, ItemsHere

\* LookupInv is inductive.
LEMMA LookupStep == LookupInv /\ [Next]_vars => LookupInv'
<1> SUFFICES ASSUME LookupInv, [Next]_vars PROVE LookupInv'
    OBVIOUS
<1> USE NamesAndItemsHere
<1>1. ASSUME NEW c \in Clients, Step(c) PROVE LookupInv'
    <2>1. ASSUME NEW k \in NamesHere \cup ItemsHere, Begin(c, k) PROVE LookupInv'
        BY <2>1, BeginStep
    <2>2. CASE Hit(c) \/ Miss(c) \/ List(c)
        BY <2>2, HitStep, MissStep, ListStep
    <2>3. CASE Generic(c) \/ Detail(c)
        BY <2>3, GenericStep, DetailOfItemStep
    <2>4. CASE NotFound(c) \/ Finish(c) \/ Fail(c)
        BY <2>4, EndStep
    <2>5. CASE Put(c) \/ EvictOld(c) \/ PutName(c) \/ PutGuid(c)
        BY <2>5, PutStep, EvictOldStep, PutNameStep, PutGuidStep
    <2>6. ASSUME NEW n \in NamesHere, Patch(c, n) PROVE LookupInv'
        BY <2>6, PatchStep
    <2>7. CASE DeleteItem(c) \/ EvictName(c) \/ EvictGuid(c)
        BY <2>7, DeleteStep, EvictNameStep, EvictGuidStep
    <2>. QED
        BY <1>1, <2>1, <2>2, <2>3, <2>4, <2>5, <2>6, <2>7 DEF Step
<1>2. ASSUME NEW i \in Items, NEW n \in NamesHere, Create(i, n) PROVE LookupInv'
    BY <1>2, OthersNameStep DEF Create
<1>3. ASSUME NEW i \in Items, NEW n \in NamesHere \cup {Gone}, Outsider(i, n) PROVE LookupInv'
    BY <1>3, OthersNameStep DEF Outsider
<1>4. CASE UNCHANGED vars
    BY <1>4, ClockStops
<1>. QED
    BY <1>1, <1>2, <1>3, <1>4, ClearStep, TickStep DEF Next

\* The cached document and what clients add to it are vouched for in
\* every behaviour.
THEOREM LookupCorrect == Spec => []LookupInv
BY LookupInit, LookupStep, PTL DEF Spec

\* Whatever clients and others do and however they are interleaved, the
\* cache serves nothing that was not true within Ttl + FetchSpan.
THEOREM StalenessCorrect == Spec => []BoundedStaleness
<1>1. LookupInv => BoundedStaleness
    <2> SUFFICES ASSUME LookupInv, NEW k \in Names \cup Items, NEW e \in Cached(k)
                 PROVE  k \in {e.name, e.id} /\ now < lastTrue[e.id][e.name] + Ttl + FetchSpan
        BY DEF BoundedStaleness
    <2>1. Vouched(k, e) /\ now < e.at + Ttl
        BY ServedFromContent DEF LookupInv, CacheInv
    <2>2. /\ e.at \in Nat /\ now \in Nat /\ Ttl \in Nat /\ FetchSpan \in Nat
          /\ lastTrue[e.id][e.name] \in Nat
        BY <2>1, TtlAssumption, LookupAssumption DEF LookupInv, WorldTypes, Vouched, Entries
    <2>. QED
        BY <2>1, <2>2 DEF Vouched
<1>. QED
    BY <1>1, LookupCorrect, PTL

-----------------------------------------------------------------------------
(***************************************************************************)
(* A calm world.  Between PATCH or DELETE and the last cache call of its   *)
(* upkeep the cache is wrong about the item, at the keys of ToRenew only.  *)
(***************************************************************************)

\* A step of a client is no step of another.
LEMMA StepRestsOthers ==
    ASSUME ClientTypes, NEW c \in Clients, Step(c)
    PROVE  RestsOthers(c)
<1> USE DEF ClientTypes, Goto, Found, RestsOthers, Rests
<1>1. ASSUME NEW k, Begin(c, k) PROVE RestsOthers(c)
    BY <1>1 DEF Begin
<1>2. CASE Hit(c)
    BY <1>2 DEF Hit
<1>3. CASE Miss(c)
    BY <1>3 DEF Miss
<1>4. CASE List(c)
    BY <1>4 DEF List
<1>5. CASE Generic(c) \/ Detail(c)
    BY <1>5 DEF Generic, Detail
<1>6. CASE NotFound(c) \/ Finish(c) \/ Fail(c)
    BY <1>6, Left DEF NotFound, Finish, Fail
<1>7. CASE Put(c) \/ EvictOld(c) \/ PutName(c) \/ EvictName(c)
    BY <1>7 DEF Put, EvictOld, PutName, EvictName
<1>8. CASE PutGuid(c) \/ EvictGuid(c)
    BY <1>8, Left DEF PutGuid, EvictGuid
<1>9. ASSUME NEW n, Patch(c, n) PROVE RestsOthers(c)
    BY <1>9, Left DEF Patch
<1>10. CASE DeleteItem(c)
    BY <1>10, Left DEF DeleteItem
<1>. QED
    BY <1>1, <1>2, <1>3, <1>4, <1>5, <1>6, <1>7, <1>8, <1>9, <1>10 DEF Step

OthersIdle(c) == \A d \in Clients \ {c} : pc[d] = "idle"

\* Every entry is true or c is about to renew it.
TrueBut(c) ==
    \A k \in DOMAIN Content :
        \/ nameOf[Content[k].id] = Content[k].name
        \/ k \in ToRenew(c) /\ Content[k].id = entry[c].id

\* In a calm world the acting client is alone.
LEMMA OneAtATime ==
    ASSUME LookupInv, CalmInv, calm, NEW c \in Clients, Step(c)
    PROVE  OthersIdle(c) /\ TrueBut(c) /\ Knows(c) /\ c \in CacheAware
<1>1. OthersIdle(c) /\ c \in CacheAware
    <2>1. ASSUME NEW k, Begin(c, k) PROVE OthersIdle(c) /\ c \in CacheAware
        BY <2>1 DEF Begin, OthersIdle
    <2>2. CASE pc[c] # "idle"
        BY <2>2 DEF CalmInv, Alone, OthersIdle
    <2>3. CASE ~ \E k \in NamesHere \cup ItemsHere : Begin(c, k)
        BY <2>2, <2>3 DEF Step, Hit, Miss, List, Generic, Detail, NotFound, Finish, Fail, Put,
           EvictOld, PutName, PutGuid, EvictName, EvictGuid, Patch, DeleteItem
    <2>. QED
        BY <2>1, <2>3
<1>2. TrueBut(c)
    BY <1>1 DEF CalmInv, TrueOrRenewed, TrueBut, OthersIdle, ToRenew
<1>. QED
    BY <1>1, <1>2 DEF CalmInv

\* What it knows and has to renew is all there is to look at.
LEMMA CalmClientStep ==
    ASSUME calm, NEW c \in Clients, c \in CacheAware, OthersIdle(c), RestsOthers(c),
           Knows(c)', TrueBut(c)'
    PROVE  CalmInv'
<1>1. \A d \in Clients \ {c} : pc'[d] = "idle"
    BY DEF OthersIdle, RestsOthers, Rests
<1>2. Alone'
    BY <1>1 DEF Alone
<1>3. \A d \in Clients : Knows(d)'
    BY <1>1 DEF Knows, Renaming
<1>4. \A k \in DOMAIN Content' : TrueOrRenewed(k, Content[k])'
    BY DEF TrueBut, TrueOrRenewed
<1>. QED
    BY <1>2, <1>3, <1>4 DEF CalmInv

\* What c knows and holds to be true after each of its steps.
Told(c) == Knows(c)' /\ TrueBut(c)'

\* Entries stay true while neither they nor names change.
LEMMA LeavesTrue ==
    ASSUME LookupInv, NEW c \in Clients, TrueBut(c), ToRenew(c) = {}, StillWorld
    PROVE  TrueBut(c)'
BY DEF TrueBut, StillWorld, Content

\* A resolution finds out what is so.
LEMMA CalmReading ==
    ASSUME LookupInv, NEW c \in Clients, TrueBut(c), Knows(c),
           \/ \E k \in Names \cup Items : Begin(c, k)
           \/ Hit(c) \/ Miss(c) \/ List(c) \/ Generic(c) \/ Detail(c)
    PROVE  Told(c)
<1>1. StillWorld /\ ToRenew(c) = {}
    BY DEF Begin, Hit, Miss, List, Generic, Detail, StillWorld, ToRenew
<1>2. TrueBut(c)'
    BY <1>1, LeavesTrue
<1>3. Knows(c)'
    <2> USE DEF LookupInv, ClientTypes, Goto, Knows, Renaming
    <2>1. ASSUME NEW k, Begin(c, k) PROVE Knows(c)'
        BY <2>1 DEF Begin
    <2>2. CASE Hit(c)
        <3>1. PICK e \in Cached(key[c]) : entry' = [entry EXCEPT ![c] = e]
            BY <2>2 DEF Hit
        <3>2. nameOf[e.id] = e.name
            BY <1>1, <3>1, ServedFromContent DEF TrueBut
        <3>. QED
            BY <2>2, <3>1, <3>2 DEF Hit
    <2>3. CASE Miss(c)
        BY <2>3 DEF Miss
    <2>4. CASE List(c)
        BY <2>4 DEF List
    <2>5. CASE Generic(c)
        BY <2>5 DEF Generic
    <2>6. CASE Detail(c)
        BY <2>6 DEF Detail
    <2>. QED
        BY <2>1, <2>2, <2>3, <2>4, <2>5, <2>6
<1>. QED
    BY <1>2, <1>3 DEF Told

\* A command that ends leaves nothing to renew.
LEMMA CalmEnding ==
    ASSUME LookupInv, calm, NEW c \in Clients, TrueBut(c), NotFound(c) \/ Finish(c) \/ Fail(c)
    PROVE  Told(c)
<1>1. StillWorld /\ ToRenew(c) = {} /\ Leave(c)
    BY DEF NotFound, Finish, Fail, StillWorld, ToRenew
<1>2. pc'[c] = "idle"
    BY <1>1, Left DEF LookupInv
<1>. QED
    BY <1>1, <1>2, LeavesTrue DEF Told, Knows, Renaming

\* A put adds what is so.
LEMMA CalmPut ==
    ASSUME LookupInv, NEW c \in Clients, TrueBut(c), Knows(c), Put(c)
    PROVE  Told(c)
<1>1. /\ pc[c] = "put" /\ pc'[c] = "resolved" /\ nameOf[entry[c].id] = entry[c].name
      /\ UNCHANGED <<entry, nameOf>> /\ ToRenew(c) = {}
    BY DEF LookupInv, ClientTypes, Put, Goto, Knows, ToRenew
<1>2. \A k \in DOMAIN Content' :
         IF k \in {entry[c].name, entry[c].id} THEN Content'[k] = entry[c]
         ELSE k \in DOMAIN Content /\ Content'[k] = Content[k]
    BY AfterPutItems DEF LookupInv, CacheInv, Put, Content
<1>3. TrueBut(c)'
    BY <1>1, <1>2 DEF TrueBut
<1>. QED
    BY <1>1, <1>3 DEF Told, Knows, Renaming

\* Renaming or deleting the item makes its entries wrong, which are under the
\* keys that are renewed or evicted next.
LEMMA CalmNaming ==
    ASSUME LookupInv, NEW c \in Clients, TrueBut(c), Knows(c), pc[c] = "resolved",
           NEW n \in Names \cup {Gone}, SetName(entry[c].id, n),
           UNCHANGED <<doc, entry>>, pc'[c] \in {"evict_old", "evict_name"}
    PROVE  nameOf'[entry[c].id] = n /\ TrueBut(c)'
<1>1. /\ entry[c].id \in Items /\ nameOf[entry[c].id] = entry[c].name
      /\ ToRenew(c) = {} /\ ToRenew(c)' = {entry[c].name, entry[c].id}
    BY DEF LookupInv, InFlight, HasEntry, Knows, ToRenew
<1>2. /\ nameOf'[entry[c].id] = n
      /\ \A j \in Items \ {entry[c].id} : nameOf'[j] = nameOf[j]
    BY <1>1 DEF SetName, LookupInv, WorldTypes
<1>3. Content' = Content
    BY DEF Content
<1>4. ASSUME NEW k \in DOMAIN Content
      PROVE  /\ Content[k].id \in Items /\ nameOf[Content[k].id] = Content[k].name
             /\ k \in {Content[k].name, Content[k].id}
    BY <1>1 DEF TrueBut, LookupInv, CacheInv, Vouched, Entries
<1>5. TrueBut(c)'
    BY <1>1, <1>2, <1>3, <1>4 DEF TrueBut
<1>. QED
    BY <1>2, <1>5

\* A rename, with the old name and the GUID to renew.
LEMMA CalmPatch ==
    ASSUME LookupInv, NEW c \in CacheAware, c \in Clients, TrueBut(c), Knows(c),
           NEW n \in Names, Patch(c, n)
    PROVE  Told(c)
<1>1. pc[c] = "resolved" /\ pc'[c] = "evict_old" /\ newName'[c] = n /\ UNCHANGED <<doc, entry>>
      /\ SetName(entry[c].id, n)
    BY DEF LookupInv, ClientTypes, Patch, Goto
<1>2. nameOf'[entry[c].id] = n /\ TrueBut(c)'
    BY <1>1, CalmNaming
<1>. QED
    BY <1>1, <1>2 DEF Told, Knows, Renaming

\* A delete, with both to evict.
LEMMA CalmDelete ==
    ASSUME LookupInv, NEW c \in CacheAware, c \in Clients, TrueBut(c), Knows(c), DeleteItem(c)
    PROVE  Told(c)
<1>1. pc[c] = "resolved" /\ pc'[c] = "evict_name" /\ UNCHANGED <<doc, entry>>
      /\ SetName(entry[c].id, Gone)
    BY DEF LookupInv, ClientTypes, DeleteItem, Goto
<1>2. nameOf'[entry[c].id] = Gone /\ TrueBut(c)'
    BY <1>1, CalmNaming
<1>. QED
    BY <1>1, <1>2 DEF Told, Knows, Renaming

\* The eviction of the old name leaves the GUID.
LEMMA CalmEvictOld ==
    ASSUME LookupInv, NEW c \in Clients, TrueBut(c), Knows(c), EvictOld(c) \/ EvictName(c)
    PROVE  Told(c)
<1>1. /\ \/ pc[c] = "evict_old" /\ pc'[c] = "put_name"
         \/ pc[c] = "evict_name" /\ pc'[c] = "evict_guid"
      /\ UNCHANGED <<entry, newName, nameOf>>
      /\ ToRenew(c) = {entry[c].name, entry[c].id} /\ ToRenew(c)' = {entry[c].id}
    BY DEF LookupInv, ClientTypes, EvictOld, EvictName, Goto, ToRenew
<1>2. \A k \in DOMAIN Content' :
         k \in DOMAIN Content \ {entry[c].name} /\ Content'[k] = Content[k]
    BY AfterEvictItem DEF LookupInv, CacheInv, Content, EvictOld, EvictName
<1>3. TrueBut(c)'
    BY <1>1, <1>2 DEF TrueBut
<1>4. Knows(c)'
    BY <1>1 DEF Knows, Renaming
<1>. QED
    BY <1>3, <1>4 DEF Told

\* The new name is put; the GUID is still to renew.
LEMMA CalmPutName ==
    ASSUME LookupInv, NEW c \in Clients, TrueBut(c), Knows(c), PutName(c)
    PROVE  Told(c)
<1>1. /\ pc[c] = "put_name" /\ pc'[c] = "put_guid"
      /\ UNCHANGED <<entry, newName, nameOf>>
      /\ ToRenew(c) = {entry[c].id} /\ ToRenew(c)' = {entry[c].id}
    BY DEF LookupInv, ClientTypes, PutName, Goto, ToRenew
<1>2. \A k \in DOMAIN Content' :
         IF k = newName[c] THEN Content'[k] = NewEntry(c, now)
         ELSE k \in DOMAIN Content /\ Content'[k] = Content[k]
    BY AfterPutItem DEF LookupInv, CacheInv, Content, PutName
<1>3. NewEntry(c, now).id = entry[c].id /\ NewEntry(c, now).name = newName[c]
    BY DEF NewEntry
<1>4. Knows(c)' /\ nameOf[entry[c].id] = newName[c]
    BY <1>1 DEF Knows, Renaming
<1>5. TrueBut(c)'
    BY <1>1, <1>2, <1>3, <1>4 DEF TrueBut
<1>. QED
    BY <1>4, <1>5 DEF Told

\* The GUID is put, and nothing is left to renew.
LEMMA CalmPutGuid ==
    ASSUME LookupInv, NEW c \in Clients, TrueBut(c), Knows(c), PutGuid(c)
    PROVE  Told(c)
<1>1. /\ pc[c] = "put_guid" /\ UNCHANGED nameOf /\ ToRenew(c) = {entry[c].id} /\ Leave(c)
    BY DEF PutGuid, ToRenew
<1>2. pc'[c] = "idle"
    BY <1>1, Left DEF LookupInv
<1>3. \A k \in DOMAIN Content' :
         IF k = entry[c].id THEN Content'[k] = NewEntry(c, readAt[c])
         ELSE k \in DOMAIN Content /\ Content'[k] = Content[k]
    BY AfterPutItem DEF LookupInv, CacheInv, Content, PutGuid, RenewGuid
<1>4. NewEntry(c, readAt[c]).id = entry[c].id /\ NewEntry(c, readAt[c]).name = newName[c]
      /\ nameOf[entry[c].id] = newName[c]
    BY <1>1 DEF NewEntry, Knows, Renaming
<1>5. TrueBut(c)'
    BY <1>1, <1>3, <1>4 DEF TrueBut
<1>. QED
    BY <1>2, <1>5 DEF Told, Knows, Renaming

\* The GUID is evicted, and nothing is left to evict.
LEMMA CalmEvictGuid ==
    ASSUME LookupInv, NEW c \in Clients, TrueBut(c), EvictGuid(c)
    PROVE  Told(c)
<1>1. pc[c] = "evict_guid" /\ UNCHANGED nameOf /\ ToRenew(c) = {entry[c].id} /\ Leave(c)
    BY DEF EvictGuid, ToRenew
<1>2. pc'[c] = "idle"
    BY <1>1, Left DEF LookupInv
<1>3. \A k \in DOMAIN Content' :
         k \in DOMAIN Content \ {entry[c].id} /\ Content'[k] = Content[k]
    BY AfterEvictItem DEF LookupInv, CacheInv, Content, EvictGuid
<1>4. TrueBut(c)'
    BY <1>1, <1>3 DEF TrueBut
<1>. QED
    BY <1>2, <1>4 DEF Told, Knows, Renaming

\* A new item takes no name from an entry that is true, for that one is taken.
LEMMA CalmCreate ==
    ASSUME LookupInv, CalmInv, calm, NEW i \in Items, NEW n \in Names, Create(i, n)
    PROVE  CalmInv'
<1> USE LookupAssumption
<1>1. /\ nameOf[i] \notin Names \cup {Gone}
      /\ \A j \in Items \ {i} : nameOf'[j] = nameOf[j]
      /\ UNCHANGED <<doc, pc, entry, newName>>
    BY DEF Create, SetName, LookupInv, WorldTypes, clientVars
<1>2. Content' = Content /\ \A c \in Clients : ToRenew(c)' = ToRenew(c)
    BY <1>1 DEF Content, ToRenew
<1>3. Alone'
    BY <1>1 DEF CalmInv, Alone
<1>4. ASSUME NEW c \in Clients PROVE Knows(c)'
    <2>1. /\ pc[c] \in HasEntry => entry[c].id \in Items /\ entry[c].name \in Names
          /\ pc[c] \in Renaming => newName[c] \in Names
          /\ Knows(c)
        BY DEF LookupInv, InFlight, CalmInv
    <2>. QED
        BY <1>1, <2>1 DEF Knows, HasEntry, Renaming
<1>5. ASSUME NEW k \in DOMAIN Content PROVE TrueOrRenewed(k, Content[k])'
    <2>1. TrueOrRenewed(k, Content[k]) /\ Content[k].id \in Items /\ Content[k].name \in Names
        BY DEF CalmInv, LookupInv, CacheInv, Vouched, Entries
    <2>. QED
        BY <1>1, <1>2, <2>1 DEF TrueOrRenewed
<1>. QED
    BY <1>2, <1>3, <1>4, <1>5 DEF CalmInv

\* Nothing that CalmInv looks at changes but the clock, or entries go.
LEMMA CalmFewer ==
    ASSUME CalmInv, UNCHANGED <<calm, nameOf, pc, entry, newName>>,
           \A k \in DOMAIN Content' : k \in DOMAIN Content /\ Content'[k] = Content[k]
    PROVE  CalmInv'
<1>1. \A c \in Clients : ToRenew(c)' = ToRenew(c)
    BY DEF ToRenew
<1>2. ASSUME calm PROVE Alone' /\ \A c \in Clients : Knows(c)'
    BY <1>2 DEF CalmInv, Alone, Knows
<1>3. ASSUME calm, NEW k \in DOMAIN Content' PROVE TrueOrRenewed(k, Content[k])'
    BY <1>1, <1>3 DEF CalmInv, TrueOrRenewed
<1>. QED
    BY <1>2, <1>3 DEF CalmInv

\* All steps of a client in a calm world.
LEMMA CalmOfStep ==
    ASSUME LookupInv, CalmInv, calm, NEW c \in Clients, Step(c)
    PROVE  Told(c)
<1>1. TrueBut(c) /\ Knows(c) /\ c \in CacheAware
    BY OneAtATime
<1>2. ASSUME NEW k \in NamesHere \cup ItemsHere, Begin(c, k) PROVE Told(c)
    BY <1>1, <1>2, CalmReading, NamesAndItemsHere
<1>3. CASE Hit(c) \/ Miss(c) \/ List(c) \/ Generic(c) \/ Detail(c)
    BY <1>1, <1>3, CalmReading
<1>4. CASE NotFound(c) \/ Finish(c) \/ Fail(c)
    BY <1>1, <1>4, CalmEnding
<1>5. CASE Put(c) \/ PutName(c) \/ PutGuid(c)
    BY <1>1, <1>5, CalmPut, CalmPutName, CalmPutGuid
<1>6. CASE EvictOld(c) \/ EvictName(c) \/ EvictGuid(c)
    BY <1>1, <1>6, CalmEvictOld, CalmEvictGuid
<1>7. ASSUME NEW n \in NamesHere, Patch(c, n) PROVE Told(c)
    BY <1>1, <1>7, CalmPatch, NamesAndItemsHere
<1>8. CASE DeleteItem(c)
    BY <1>1, <1>8, CalmDelete
<1>. QED
    BY <1>2, <1>3, <1>4, <1>5, <1>6, <1>7, <1>8 DEF Step

\* At the start there is nothing to be wrong.
LEMMA CalmInit == Init => CalmInv
<1> SUFFICES ASSUME Init PROVE CalmInv
    OBVIOUS
<1>1. \A c \in Clients : pc[c] = "idle"
    BY DEF Init
<1>2. DOMAIN Content = {}
    BY DEF Init, Content, Bucket, EmptyDoc, EmptyMap
<1>. QED
    BY <1>1, <1>2 DEF CalmInv, Alone, Knows, Renaming

\* CalmInv is inductive, given LookupInv.
LEMMA CalmStep == LookupInv /\ CalmInv /\ [Next]_vars => CalmInv'
<1> SUFFICES ASSUME LookupInv, CalmInv, [Next]_vars PROVE CalmInv'
    OBVIOUS
<1>1. calm' = calm
    BY DEF Next, vars, Step, Begin, Hit, Miss, List, Generic, Detail, NotFound, Finish, Fail,
       Put, EvictOld, PutName, PutGuid, EvictName, EvictGuid, Patch, DeleteItem, Create,
       Outsider, ClearItems, Tick
<1>2. CASE ~ calm
    BY <1>1, <1>2 DEF CalmInv
<1>3. CASE calm
    <2>1. ASSUME NEW c \in Clients, Step(c) PROVE CalmInv'
        <3>1. OthersIdle(c) /\ c \in CacheAware
            BY <1>3, <2>1, OneAtATime
        <3>2. RestsOthers(c) /\ Told(c)
            BY <1>3, <2>1, StepRestsOthers, CalmOfStep DEF LookupInv
        <3>. QED
            BY <1>3, <3>1, <3>2, CalmClientStep DEF Told
    <2>2. ASSUME NEW i \in Items, NEW n \in NamesHere, Create(i, n) PROVE CalmInv'
        BY <1>3, <2>2, CalmCreate, NamesAndItemsHere
    <2>3. ASSUME NEW i \in Items, NEW n, Outsider(i, n) PROVE CalmInv'
        BY <1>3, <2>3 DEF Outsider
    <2>4. CASE ClearItems
        <3>1. DOMAIN Content' = {}
            BY <2>4, AfterClear DEF LookupInv, CacheInv, Content, ClearItems
        <3>. QED
            BY <2>4, <3>1, CalmFewer DEF ClearItems, clientVars
    <2>5. CASE Tick
        BY <2>5, CalmFewer DEF Tick, clientVars, Content
    <2>6. CASE UNCHANGED vars
        BY <2>6, CalmFewer DEF vars, clientVars, Content
    <2>. QED
        BY <2>1, <2>2, <2>3, <2>4, <2>5, <2>6 DEF Next
<1>. QED
    BY <1>2, <1>3

\* When only this tool changes the workspace, one command after the other,
\* the cache tells nothing the server would deny: clear_cache is not needed.
THEOREM OwnChangesCorrect == Spec => []OwnChangesNeedNoClear
<1>1. LookupInv /\ CalmInv => OwnChangesNeedNoClear
    <2> SUFFICES ASSUME CalmInv, calm, \A c \in Clients : pc[c] = "idle",
                        NEW k \in Names \cup Items, NEW e \in Cached(k)
                 PROVE  nameOf[e.id] = e.name
        BY DEF OwnChangesNeedNoClear
    <2>1. TrueOrRenewed(k, e)
        BY ServedFromContent DEF CalmInv
    <2>2. \A c \in Clients : ToRenew(c) = {}
        BY DEF ToRenew
    <2>. QED
        BY <2>1, <2>2 DEF TrueOrRenewed
<1>. QED
    BY <1>1, LookupInit, LookupStep, CalmInit, CalmStep, PTL DEF Spec
=============================================================================
