---------------------------- MODULE ConfigProofs ----------------------------
(***************************************************************************)
(* Every change of the config file is one request; a command of the CLI    *)
(* acts where it was told, and removes only what it was told or agreed to  *)
(* remove: for any number of processes, keys, values and command lines.    *)
(***************************************************************************)
EXTENDS Cli, TLAPS

Locked == {"read", "update", "write", "replace", "unlink"}

\* The lock is held where the file is read or written, and so what a process is
\* about to write is still what its request makes of the file.
HoldsLock == \A p \in Procs : pc[p] \in Locked => lock = p

DraftIsCurrent ==
    \A p \in Procs : pc[p] \in {"write", "replace"} =>
        draft[p] = Updated(file, op[p]) /\ file # Broken

TypeOK ==
    /\ DOMAIN pc = Procs
    /\ DOMAIN op = Procs
    /\ \A p \in Procs : pc[p] # "idle" => op[p] \in [key : Keys, value : Words]
    /\ draft \in [Procs -> UserConfigs]
    /\ got \in [Procs -> UserConfigs]
    /\ file \in Contents \cup {Absent, Broken}

IInv == TypeOK /\ HoldsLock /\ DraftIsCurrent

\* An empty configuration is one.
LEMMA UnsetType == Unset \in UserConfigs
BY DEF Unset, UserConfigs

\* An updater returns a UserConfig, which is also something a file can say.
LEMMA UpdatedType ==
    ASSUME NEW c \in Contents \cup {Absent},
           NEW o \in [key : Keys, value : Values \cup {NoValue}]
    PROVE Updated(c, o) \in UserConfigs
<1>1. Unset \in UserConfigs
  BY DEF Unset, UserConfigs
<1>2. c \in Contents => Parse(c) \in UserConfigs
  BY DEF Parse, Contents, UserConfigs
<1>3. (IF c = Absent THEN Unset ELSE Parse(c)) \in UserConfigs
  BY <1>1, <1>2
<1> QED
  BY <1>3 DEF Updated, UserConfigs

\* So is what load_config returns.
LEMMA LoadedType ==
    ASSUME NEW c \in Contents \cup {Absent, Broken}
    PROVE  AsLoaded(c) \in UserConfigs
<1>1. c \in Contents => Parse(c) \in UserConfigs
  BY DEF Parse, Contents, UserConfigs
<1> QED
  BY <1>1, UnsetType DEF AsLoaded

\* Before anything is asked.
LEMMA AtFirst ==
    ASSUME /\ file \in Contents \cup {Absent, Broken}
           /\ pc = [p \in Procs |-> "idle"]
           /\ DOMAIN op = Procs
           /\ got = [p \in Procs |-> Unset]
           /\ draft = [p \in Procs |-> Unset]
    PROVE IInv
BY UnsetType DEF IInv, TypeOK, HoldsLock, DraftIsCurrent, Locked

\* A step that does not write the file nor leads to where it is written, and
\* leaves the lock with the process that has it.
LEMMA QuietStep ==
    ASSUME IInv, NEW p \in Procs, NEW place,
           Goto(p, place),
           place \notin {"write", "replace"},
           lock' = lock \/ {lock, lock'} \subseteq {p, NoProc},
           place \in Locked => lock' = p,
           file' = file,
           DOMAIN op' = Procs,
           \A q \in Procs \ {p} : op'[q] = op[q] /\ draft'[q] = draft[q],
           place # "idle" => op'[p] \in [key : Keys, value : Words],
           draft' \in [Procs -> UserConfigs],
           got' \in [Procs -> UserConfigs]
    PROVE IInv'
<1>1. /\ DOMAIN pc' = Procs
      /\ pc'[p] = place
      /\ \A q \in Procs \ {p} : pc'[q] = pc[q]
  BY DEF IInv, TypeOK, Goto
<1>2. TypeOK'
  BY <1>1 DEF IInv, TypeOK
<1>3. HoldsLock'
  <2> SUFFICES ASSUME NEW q \in Procs, pc'[q] \in Locked PROVE lock' = q
    BY DEF HoldsLock
  <2>1. CASE q = p
    BY <1>1, <2>1
  <2>2. CASE q # p
    <3>1. lock = q
      BY <1>1, <2>2 DEF IInv, HoldsLock
    <3> QED
      BY <2>2, <3>1, ConfigAssumption
  <2> QED
    BY <2>1, <2>2
<1>4. DraftIsCurrent'
  BY <1>1 DEF IInv, DraftIsCurrent
<1> QED
  BY <1>2, <1>3, <1>4 DEF IInv

\* The same of a process of config.py, which keeps its request and its draft.
LEMMA QuietConfigStep ==
    ASSUME IInv, NEW p \in Procs, NEW place,
           Goto(p, place), pc[p] # "idle",
           place \notin {"write", "replace"},
           lock' = lock \/ {lock, lock'} \subseteq {p, NoProc},
           place \in Locked => lock' = p,
           UNCHANGED <<file, op, draft>>,
           \E g \in UserConfigs : got' = got \/ got' = [got EXCEPT ![p] = g]
    PROVE IInv'
<1>1. got' \in [Procs -> UserConfigs]
  BY DEF IInv, TypeOK
<1>2. op[p] \in [key : Keys, value : Words]
  BY DEF IInv, TypeOK
<1> QED
  BY <1>1, <1>2, QuietStep DEF IInv, TypeOK

\* Nobody but p is where the lock is held.
LEMMA Alone ==
    ASSUME IInv, NEW p \in Procs, pc[p] \in Locked
    PROVE /\ lock = p
          /\ \A q \in Procs \ {p} : pc[q] \notin Locked
BY DEF IInv, HoldsLock

\* A process that neither has the lock nor takes it leaves the others theirs.
LEMMA StepIInv ==
    ASSUME IInv, NEW p \in Procs, ConfigStep(p)
    PROVE IInv'
<1> USE UnsetType
<1>1. CASE LookForFile(p)
  BY <1>1, QuietConfigStep DEF LookForFile, Locked
<1>2. CASE LockToRead(p) \/ LockToSet(p) \/ LockToClear(p)
  BY <1>2, QuietConfigStep DEF LockToRead, LockToSet, LockToClear, Lock, Locked
<1>3. CASE GiveUpReading(p) \/ GiveUpSetting(p) \/ GiveUpClearing(p)
  BY <1>3, QuietConfigStep DEF GiveUpReading, GiveUpSetting, GiveUpClearing, Locked
<1>4. CASE ReadText(p)
  <2>1. lock = p
    BY <1>4, Alone DEF ReadText, Locked
  <2>2. AsLoaded(file) \in UserConfigs
    BY LoadedType DEF IInv, TypeOK
  <2> QED
    BY <1>4, <2>1, <2>2, QuietConfigStep DEF ReadText, Locked
<1>5. CASE CheckValue(p)
  <2>1. PICK place \in {"set_failed", "set_wait"} : Goto(p, place)
    BY <1>5 DEF CheckValue
  <2> QED
    BY <1>5, <2>1, QuietConfigStep DEF CheckValue, Locked
<1>6. CASE Update(p)
  <2>1. /\ lock = p
        /\ \A q \in Procs \ {p} : pc[q] \notin Locked
    BY <1>6, Alone DEF Update, Locked
  <2>2. Updated(file, op[p]) \in UserConfigs
    <3>1. op[p] \in [key : Keys, value : Values \cup {NoValue}]
      BY <1>6 DEF Update, IInv, TypeOK, Words
    <3> QED
      BY <1>6, <3>1, UpdatedType DEF Update, IInv, TypeOK
  <2>3. /\ DOMAIN pc' = Procs /\ pc'[p] = "write" /\ pc[p] = "update"
        /\ \A q \in Procs \ {p} : pc'[q] = pc[q]
        /\ draft' \in [Procs -> UserConfigs]
        /\ draft'[p] = Updated(file, op[p])
        /\ file # Broken
        /\ UNCHANGED <<file, lock, op, got>>
    BY <1>6, <2>2 DEF Update, Goto, IInv, TypeOK
  <2> QED
    BY <2>1, <2>3 DEF IInv, TypeOK, HoldsLock, DraftIsCurrent, Locked
<1>7. CASE WriteAside(p)
  <2>1. /\ DOMAIN pc' = Procs /\ pc'[p] = "replace" /\ pc[p] = "write"
        /\ \A q \in Procs \ {p} : pc'[q] = pc[q]
        /\ UNCHANGED <<file, lock, op, got, draft>>
    BY <1>7 DEF WriteAside, Goto, IInv, TypeOK
  <2> QED
    BY <2>1 DEF IInv, TypeOK, HoldsLock, DraftIsCurrent, Locked
<1>8. CASE Replace(p) \/ Unlink(p)
  <2>1. /\ lock = p
        /\ \A q \in Procs \ {p} : pc[q] \notin Locked
    BY <1>8, Alone DEF Replace, Unlink, Locked
  <2>2. /\ DOMAIN pc' = Procs /\ pc'[p] \in {"set_ok", "clear_ok"} /\ pc[p] # "idle"
        /\ \A q \in Procs \ {p} : pc'[q] = pc[q]
        /\ UNCHANGED <<op, got, draft>>
    BY <1>8 DEF Replace, Unlink, Goto, IInv, TypeOK
  <2>3. \A q \in Procs : pc'[q] \notin Locked
    BY <2>1, <2>2 DEF Locked
  <2>4. file' \in Contents \cup {Absent, Broken}
    BY <1>8 DEF Replace, Unlink, IInv, TypeOK, UserConfigs, Contents
  <2> QED
    BY <2>2, <2>3, <2>4 DEF IInv, TypeOK, HoldsLock, DraftIsCurrent, Locked
<1>9. CASE Raise(p)
  <2>1. lock = p
    BY <1>9, Alone DEF Raise, Locked
  <2> QED
    BY <1>9, <2>1, QuietConfigStep DEF Raise, Locked
<1>10. CASE Kill(p)
  BY <1>10, QuietConfigStep DEF Kill, InConfig, Locked
<1> QED
  BY <1>1, <1>2, <1>3, <1>4, <1>5, <1>6, <1>7, <1>8, <1>9, <1>10 DEF ConfigStep

\* The steps of config.py that change the file, each by what its process asked.
LEMMA ChangeIsRequest ==
    ASSUME IInv, NEW p \in Procs, ConfigStep(p), file' # file
    PROVE \/ pc[p] = "replace" /\ file' = Updated(file, op[p]) /\ file # Broken
          \/ pc[p] = "unlink" /\ file' = Absent
<1>1. Replace(p) \/ Unlink(p)
  BY DEF ConfigStep, LookForFile, LockToRead, LockToSet, LockToClear, Lock,
         GiveUpReading, ReadText, CheckValue, GiveUpSetting, Update, WriteAside,
         Raise, GiveUpClearing, Kill
<1> QED
  BY <1>1 DEF Replace, Unlink, IInv, DraftIsCurrent

-----------------------------------------------------------------------------
(* config.py by itself. *)

\* Requests of any kind, and the steps they take.
LEMMA NextIInv == IInv /\ [ConfigNext]_configVars => IInv'
<1> SUFFICES ASSUME IInv, [ConfigNext]_configVars PROVE IInv'
  OBVIOUS
<1>1. CASE UNCHANGED configVars
  BY <1>1 DEF configVars, IInv, TypeOK, HoldsLock, DraftIsCurrent
<1>2. ASSUME NEW p \in Procs, Request(p) PROVE IInv'
  <2>1. PICK place \in {"load", "set", "clear"} : Goto(p, place)
    BY <1>2 DEF Request
  <2> QED
    BY <1>2, <2>1, QuietStep DEF Request, IInv, TypeOK, Words, Locked
<1> QED
  BY <1>1, <1>2, StepIInv DEF ConfigNext

\* The processes of config.py exclude one another where the file is in use.
OneInTheFile == \A p, q \in Procs : pc[p] \in Locked /\ pc[q] \in Locked => p = q

\* No two processes are between taking the FileLock and letting go of it.
THEOREM OneInTheFileHolds == ConfigSpec => []OneInTheFile
<1>1. ConfigInit => IInv
  BY AtFirst DEF ConfigInit
<1>2. IInv => OneInTheFile
  BY DEF IInv, HoldsLock, OneInTheFile
<1> QED
  BY <1>1, <1>2, NextIInv, PTL DEF ConfigSpec

\* Whatever the processes ask and wherever one of them is killed, a change of
\* the file is one whole request on what the file said before.
THEOREM EachChangeIsOneRequestHolds == ConfigSpec => EachChangeIsOneRequest
<1>1. ConfigInit => IInv
  BY AtFirst DEF ConfigInit
<1>2. IInv /\ [ConfigNext]_configVars =>
        [file' # file =>
           \E p \in Procs :
              \/ pc[p] = "replace" /\ file' = Updated(file, op[p]) /\ file # Broken
              \/ pc[p] = "unlink" /\ file' = Absent]_configVars
  BY ChangeIsRequest DEF ConfigNext, Request, configVars
<1> QED
  BY <1>1, <1>2, NextIInv, PTL DEF ConfigSpec, EachChangeIsOneRequest

-----------------------------------------------------------------------------
(* The table of commands. *)

Early == {"item", "snapshot", "workspace", "argument"}
Targeted == Early \cup {"listing"}
Scopes == Targeted \cup {"all", "none", "show", "set", "clear", "cache"}
Prompts == {"outset", "first", "shown", "typed", "never"}

\* Every tool behind assert_destructive_allowed removes something, but for the
\* one that drops a mask.
GuardFits(r) ==
    r.gate \in {"destructive", "late"} /\ r.effect # "remove" => r.names = {"drop_column_mask"}

LEMMA ToolsFit == \A r \in Rows : GuardFits(r)
<1> USE DEF GuardFits, Row, Reads
<1>1. \A r \in WorkspacesTools \cup WarehousesTools \cup SqlEndpointsTools
             \cup PermissionsReads \cup GrantTools : GuardFits(r)
  BY DEF WorkspacesTools, WarehousesTools, SqlEndpointsTools, PermissionsReads, GrantTools
<1>2. \A r \in SecurityPolicyTools \cup MaskTools \cup AuditTools
             \cup QueriesReads \cup KillTools : GuardFits(r)
  BY DEF SecurityPolicyTools, MaskTools, AuditTools, QueriesReads, KillTools
<1>3. \A r \in SqlExecTools \cup SnapshotsTools \cup RestoreTools
             \cup ViewsReads \cup ViewsWrites : GuardFits(r)
  BY DEF SqlExecTools, SnapshotsTools, RestoreTools, ViewsReads, ViewsWrites
<1>4. \A r \in ProceduresTools \cup FunctionsTools \cup SchemasTools
             \cup TablesReads \cup TablesCreates : GuardFits(r)
  BY DEF ProceduresTools, FunctionsTools, SchemasTools, TablesReads, TablesCreates
<1>5. \A r \in TablesStatus \cup TablesAlters \cup LoadTools
             \cup ImportTools \cup StatisticsTools : GuardFits(r)
  BY DEF TablesStatus, TablesAlters, LoadTools, ImportTools, StatisticsTools
<1>6. \A r \in SettingsTools \cup SqlPoolsTools \cup CacheTools
             \cup DbtTools \cup CapabilitiesTools : GuardFits(r)
  BY DEF SettingsTools, SqlPoolsTools, CacheTools, DbtTools, CapabilitiesTools
<1> QED
  BY <1>1, <1>2, <1>3, <1>4, <1>5, <1>6 DEF Rows

\* So what is guarded in the MCP server removes, or drops a mask.
LEMMA GuardedRemoves ==
    ASSUME NEW tool, NEW effect, GuardedInMcp(tool, effect)
    PROVE  effect = "remove" \/ tool = "drop_column_mask"
BY ToolsFit DEF GuardedInMcp, GuardFits

\* A command that removes something, or drops a mask, has a prompt and a target.
Spared(x) == x[1] \in NotAsked
Mild(x) == x[2] # "drop_column_mask"
AsksFirst(r) ==
    /\ r.scope \in Scopes /\ r.asks \in Prompts
    /\ r.scope = "listing" => r.asks = "never"
    /\ \A x \in r.pairs :
         ~ Spared(x) /\ (r.effect = "remove" \/ ~ Mild(x)) =>
             r.asks # "never" /\ r.scope \in Targeted

\* Pairs of a command and a tool, one by one.
LEMMA MildPair ==
    ASSUME NEW a, NEW b, b # "drop_column_mask" PROVE Mild(<<a, b>>)
BY DEF Mild

LEMMA SparedPair ==
    ASSUME NEW b
    PROVE  Spared(<<"sql exec", b>>) /\ Spared(<<"sql-endpoints refresh", b>>)
BY DEF Spared, NotAsked

\* Rows of the four usual shapes.
LEMMA ItemsFit ==
    ASSUME NEW ps
    PROVE  /\ (\A x \in ps : Mild(x)) => AsksFirst(ItemReads(ps)) /\ AsksFirst(ItemWrites(ps))
           /\ AsksFirst(ItemChanges(ps)) /\ AsksFirst(ItemRemovals(ps))
BY DEF AsksFirst, Cmd, ItemReads, ItemWrites, ItemChanges, ItemRemovals, Scopes,
       Targeted, Early, Prompts

\* Other rows with a prompt.
LEMMA AskedFit ==
    ASSUME NEW ps
    PROVE  /\ AsksFirst(Cmd("first", "item", "remove", ps))
           /\ AsksFirst(Cmd("first", "workspace", "remove", ps))
           /\ AsksFirst(Cmd("typed", "item", "remove", ps))
           /\ AsksFirst(Cmd("shown", "snapshot", "remove", ps))
           /\ AsksFirst(Cmd("shown", "argument", "change", ps))
           /\ AsksFirst(Cmd("outset", "item", "change", ps))
BY DEF AsksFirst, Cmd, Scopes, Targeted, Early, Prompts

\* Other rows that do not remove anything.
LEMMA MildFit ==
    ASSUME NEW ps, \A x \in ps : Mild(x)
    PROVE  /\ AsksFirst(Cmd("never", "show", "read", ps))
           /\ AsksFirst(Cmd("never", "set", "change", ps))
           /\ AsksFirst(Cmd("outset", "clear", "change", ps))
           /\ AsksFirst(Cmd("outset", "cache", "change", ps))
           /\ AsksFirst(Cmd("never", "snapshot", "change", ps))
           /\ AsksFirst(Cmd("never", "all", "read", ps))
           /\ AsksFirst(Cmd("never", "none", "read", ps))
           /\ AsksFirst(Cmd("never", "workspace", "read", ps))
           /\ AsksFirst(Cmd("never", "listing", "read", ps))
           /\ AsksFirst(Cmd("never", "workspace", "change", ps))
           /\ AsksFirst(Cmd("never", "argument", "read", ps))
           /\ AsksFirst(Cmd("never", "argument", "change", ps))
BY DEF AsksFirst, Cmd, Scopes, Targeted, Early, Prompts

\* Rows without a prompt that may remove something.
LEMMA SparedFit ==
    ASSUME NEW e, NEW ps, \A x \in ps : Spared(x)
    PROVE  AsksFirst(Cmd("never", "item", e, ps))
BY DEF AsksFirst, Cmd, Scopes, Targeted, Early, Prompts

\* The whole table, row by row.
LEMMA CommandsAskFirst == \A r \in Commands : AsksFirst(r)
<1>1. \A r \in AuditSwitchCommands \cup AuditGroupCommands \cup
           DbtInitCommand : AsksFirst(r)
  BY ItemsFit, MildPair, Zenon DEF AuditSwitchCommands, AuditGroupCommands,
     DbtInitCommand
<1>2. \A r \in FunctionsCommands \cup FunctionsConfirmed \cup
           ItemAccessCommands \cup SqlPermissionReads : AsksFirst(r)
  BY ItemsFit, MildPair, Zenon DEF FunctionsCommands, FunctionsConfirmed,
     ItemAccessCommands, SqlPermissionReads
<1>3. \A r \in SqlGrantCommands \cup ClsGrantCommands \cup RlsCommands \cup
           RlsPredicateCommands \cup MaskCommands : AsksFirst(r)
  BY ItemsFit, MildPair, Zenon DEF SqlGrantCommands, ClsGrantCommands,
     RlsCommands, RlsPredicateCommands, MaskCommands
<1>4. \A r \in ProceduresCommands \cup ProceduresConfirmed \cup
           RunningCommands \cup RequestCommands : AsksFirst(r)
  BY ItemsFit, MildPair, Zenon DEF ProceduresCommands, ProceduresConfirmed,
     RunningCommands, RequestCommands
<1>5. \A r \in HistoryCommands \cup FrequentCommands \cup
           RestorePointCommands : AsksFirst(r)
  BY ItemsFit, MildPair, Zenon DEF HistoryCommands, FrequentCommands,
     RestorePointCommands
<1>6. \A r \in SchemasCommands \cup SettingsCommands \cup RetentionCommands
           \cup SqlPlanCommand : AsksFirst(r)
  BY ItemsFit, MildPair, Zenon DEF SchemasCommands, SettingsCommands,
     RetentionCommands, SqlPlanCommand
<1>7. \A r \in StatisticsReads \cup StatisticsWrites \cup StatisticsDelete
           \cup TablesLists \cup TablesCounts : AsksFirst(r)
  BY ItemsFit, MildPair, Zenon DEF StatisticsReads, StatisticsWrites,
     StatisticsDelete, TablesLists, TablesCounts
<1>8. \A r \in TablesExport \cup TablesHealth \cup TablesRefresh \cup
           TablesCreate \cup TablesDelete : AsksFirst(r)
  BY ItemsFit, MildPair, Zenon DEF TablesExport, TablesHealth, TablesRefresh,
     TablesCreate, TablesDelete
<1>9. \A r \in TablesCluster \cup TablesClone \cup TablesRename : AsksFirst(r)
  BY ItemsFit, MildPair, Zenon DEF TablesCluster, TablesClone, TablesRename
<1>10. \A r \in ViewsLists \cup ViewsCounts \cup ViewsCreate \cup
           ViewsConfirmed \cup WarehousesConfirmed : AsksFirst(r)
  BY ItemsFit, MildPair, Zenon DEF ViewsLists, ViewsCounts, ViewsCreate,
     ViewsConfirmed, WarehousesConfirmed
<1>11. \A r \in ConfigShowCommand \cup ConfigSetCommands
           \cup ConfigUnsetCommands : AsksFirst(r)
  BY MildFit, MildPair, Zenon DEF ConfigShowCommand, ConfigSetCommands,
     ConfigUnsetCommands
<1>12. \A r \in CacheCommands \cup ConfigClearCommand : AsksFirst(r)
  BY MildFit, MildPair, Zenon DEF CacheCommands, ConfigClearCommand
<1>13. \A r \in SqlRevokeCommand \cup RlsDropCommand \cup MaskDropCommand \cup
           SqlPoolsDelete : AsksFirst(r)
  BY AskedFit, Zenon DEF SqlRevokeCommand, RlsDropCommand, MaskDropCommand,
     SqlPoolsDelete
<1>14. \A r \in ClsRevokeAndList \cup RestoreCommands \cup SnapshotsConfirmed
           \cup TablesLoad : AsksFirst(r)
  BY ItemsFit, MildPair, AskedFit, Zenon DEF ClsRevokeAndList, RestoreCommands,
     SnapshotsConfirmed, TablesLoad
<1>15. \A r \in SnapshotsCommands \cup SqlPoolsSwitch \cup WarehousesCommands : AsksFirst(r)
  BY ItemsFit, MildFit, MildPair, Zenon DEF SnapshotsCommands, SqlPoolsSwitch,
     WarehousesCommands
<1>16. \A r \in SqlPoolsReads \cup SqlPoolsCreate \cup SqlPoolsUpdate : AsksFirst(r)
  BY MildFit, MildPair, Zenon DEF SqlPoolsReads, SqlPoolsCreate, SqlPoolsUpdate
<1>17. \A r \in WorkspacesCommands : AsksFirst(r)
  BY MildFit, MildPair, AskedFit, Zenon DEF WorkspacesCommands
<1>18. \A r \in SqlExecCommand \cup SqlEndpointsCommands : AsksFirst(r)
  BY ItemsFit, MildFit, MildPair, SparedFit, SparedPair, Zenon DEF SqlExecCommand,
     SqlEndpointsCommands
<1> QED
  BY <1>1, <1>2, <1>3, <1>4, <1>5, <1>6, <1>7, <1>8, <1>9, <1>10, <1>11, <1>12,
     <1>13, <1>14, <1>15, <1>16, <1>17, <1>18 DEF Commands

\* So does every kind of command that is grave.
Fits(k) ==
    /\ k.scope \in Scopes /\ k.asks \in Prompts
    /\ k.scope = "listing" => k.asks = "never"
    /\ k.grave => k.asks # "never" /\ k.scope \in Targeted

\* What holds of the rows holds of the kinds.
LEMMA KindsFit == \A k \in CommandKinds : Fits(k)
<1> DEFINE KindOf(r, x) ==
             [asks |-> r.asks, scope |-> r.scope,
              grave |-> /\ x[1] \notin NotAsked
                        /\ r.effect = "remove" \/ GuardedInMcp(x[2], r.effect)]
<1>1. ASSUME NEW r \in Commands, NEW x \in r.pairs PROVE Fits(KindOf(r, x))
  <2>1. AsksFirst(r)
    BY CommandsAskFirst
  <2>2. GuardedInMcp(x[2], r.effect) => r.effect = "remove" \/ ~ Mild(x)
    BY GuardedRemoves DEF Mild
  <2> QED
    BY <2>1, <2>2 DEF AsksFirst, Fits, Spared
<1> QED
  BY <1>1, Zenon DEF CommandKinds

-----------------------------------------------------------------------------
(* The commands beside one another. *)

Loading == {"load", "load_wait", "read", "loaded"}
Going(p) == pc[p] \notin CliOver \cup {"idle"}

\* The workspace of the command is known, and the item it looks up.
Settled(p) == ws[p] # NotYet /\ (Kind(p).scope = "item" => item[p] # NotYet)

\* What a process has in hand when it reaches a place.
PlaceInv(p) ==
    /\ pc[p] = "idle" =>
         config[p] = NotYet /\ mode[p] = NotYet /\ ws[p] = NotYet /\ got[p] = Unset
    /\ pc[p] # "idle" => cmd[p] \in CommandLines
    /\ pc[p] \in Loading => config[p] = NotYet
    /\ mode[p] = NotYet => ws[p] = NotYet
    /\ ws[p] = NotYet => item[p] = NotYet
    /\ pc[p] \in {"workspace", "item", "connect", "show", "ask", "serve"} =>
         mode[p] # NotYet
    /\ pc[p] = "show" => Kind(p).scope = "show"
    /\ pc[p] = "workspace" => Kind(p).scope \in Targeted
    /\ pc[p] = "item" => Kind(p).scope = "item" /\ ws[p] # NotYet /\ item[p] = NotYet

\* The same of one that works on a workspace.
TargetInv(p) ==
    Kind(p).scope \in Targeted =>
        /\ pc[p] = "workspace" => ws[p] = NotYet
        /\ pc[p] = "connect" => Settled(p) \/ Kind(p).scope = "listing"
        /\ pc[p] = "serve" => Settled(p) /\ config[p] # NotYet
        /\ pc[p] = "ask" =>
             \/ Kind(p).asks = "outset" /\ ws[p] = NotYet
             \/ Kind(p).asks = "first" /\ Settled(p)
             \/ Kind(p).asks \in {"shown", "typed"} /\ Settled(p) /\ config[p] # NotYet
        /\ Kind(p).scope = "listing" =>
             /\ pc[p] \in Loading \cup {"connect"} => ws[p] = NotYet
             /\ pc[p] = "workspace" => config[p] # NotYet

\* Nobody is past the prompt of the command without an answer.
Confirmed(p) == Yes(p) \/ agreed[p]
PastPrompt(p) ==
    \/ pc[p] \in {"serve", "served"}
    \/ /\ Kind(p).asks = "first"
       /\ pc[p] = "connect" \/ (pc[p] \in Loading /\ Settled(p))
    \/ /\ Kind(p).asks = "outset"
       /\ mode[p] # NotYet
       /\ pc[p] \in Loading \cup {"workspace", "item", "connect"}
PromptInv(p) ==
    /\ pc[p] # "idle" /\ Kind(p).asks # "never" /\ Kind(p).scope \in Targeted
    /\ PastPrompt(p)
    => Confirmed(p)

\* What is settled is what the command line, the environment and a config have
\* it: any config while none is loaded.
WorkspaceBy(p, c) ==
    Option(IF Kind(p).scope = "argument" THEN cmd[p].arg ELSE Workspace(p),
           Option(cmd[p].env.workspace, c["workspace"]))
ItemBy(p, c) == Option(cmd[p].arg, Option(cmd[p].env.warehouse, c["warehouse"]))
Possible(p) == IF config[p] = NotYet THEN UserConfigs ELSE {config[p]}
ToldInv(p) ==
    Going(p) /\ Kind(p).scope \in Targeted =>
        /\ ws[p] # NotYet => \A c \in Possible(p) : ws[p] = WorkspaceBy(p, c)
        /\ Kind(p).scope = "item" /\ item[p] # NotYet =>
             \A c \in Possible(p) : item[p] = ItemBy(p, c)

\* What was loaded stood in the file since the command began.
KnownInv(p) ==
    Going(p) =>
        /\ got[p] \in known[p] \cup {Unset}
        /\ config[p] \in known[p] \cup {Unset, NotYet}

CliTypes ==
    /\ DOMAIN cmd = Procs /\ DOMAIN mode = Procs /\ DOMAIN config = Procs
    /\ DOMAIN ws = Procs /\ DOMAIN item = Procs /\ DOMAIN agreed = Procs

OneInv(p) == PlaceInv(p) /\ TargetInv(p) /\ PromptInv(p) /\ ToldInv(p) /\ KnownInv(p)
CliIInv == IInv /\ CliTypes /\ \A p \in Procs : OneInv(p)

\* A step of one process changes nothing of another's but what it may know.
LEMMA OthersKeep ==
    ASSUME CliIInv, NEW p \in Procs, NEW q \in Procs \ {p}, Step(p), Remember
    PROVE  OneInv(q)'
<1>1. /\ pc'[q] = pc[q] /\ got'[q] = got[q]
      /\ cmd'[q] = cmd[q] /\ mode'[q] = mode[q] /\ config'[q] = config[q]
      /\ ws'[q] = ws[q] /\ item'[q] = item[q] /\ agreed'[q] = agreed[q]
  <2> USE DEF CliIInv, IInv, TypeOK, CliTypes, Goto
  <2>1. CASE Invoke(p) \/ Begin(p) \/ KeepConfig(p)
    BY <2>1 DEF Invoke, Begin, KeepConfig
  <2>2. CASE ResolveWorkspace(p) \/ ResolveWarehouse(p)
    BY <2>2 DEF ResolveWorkspace, ResolveWarehouse, Untold, LoadConfig
  <2>3. CASE Connect(p) \/ Show(p)
    BY <2>3 DEF Connect, Show, LoadConfig
  <2>4. CASE Ask(p) \/ Serve(p) \/ Exit(p)
    BY <2>4 DEF Ask, Serve, Exit, cliVars
  <2>5. CASE ConfigStep(p) /\ UNCHANGED cliVars
    <3>1. PICK place : Goto(p, place)
      BY <2>5 DEF ConfigStep, LookForFile, LockToRead, LockToSet, LockToClear, Lock,
            GiveUpReading, ReadText, CheckValue, GiveUpSetting, Update, WriteAside,
            Replace, Raise, GiveUpClearing, Unlink, Kill
    <3>2. got' = got \/ \E g : got' = [got EXCEPT ![p] = g]
      BY <2>5 DEF ConfigStep, LookForFile, LockToRead, LockToSet, LockToClear, Lock,
            GiveUpReading, ReadText, CheckValue, GiveUpSetting, Update, WriteAside,
            Replace, Raise, GiveUpClearing, Unlink, Kill
    <3> QED
      BY <2>5, <3>1, <3>2 DEF cliVars
  <2> QED
    BY <2>1, <2>2, <2>3, <2>4, <2>5 DEF Step
<1>2. Going(q) => known[q] \subseteq known'[q]
  BY <1>1 DEF Going, Remember
<1>3. OneInv(q)
  BY DEF CliIInv
<1>4. PlaceInv(q)' /\ TargetInv(q)'
  BY <1>1, <1>3 DEF OneInv, PlaceInv, TargetInv, Kind, Settled
<1>5. PromptInv(q)'
  BY <1>1, <1>3 DEF OneInv, PromptInv, PastPrompt, Confirmed, Yes, Kind, Settled
<1>6. ToldInv(q)'
  BY <1>1, <1>3 DEF OneInv, ToldInv, Going, Kind, Possible, WorkspaceBy, ItemBy, Workspace
<1>7. KnownInv(q)'
  BY <1>1, <1>2, <1>3 DEF OneInv, KnownInv, Going
<1> QED
  BY <1>4, <1>5, <1>6, <1>7 DEF OneInv

\* What the command line of a process under way is.
LEMMA KindFits ==
    ASSUME CliIInv, NEW p \in Procs, pc[p] # "idle"
    PROVE  Fits(Kind(p)) /\ cmd[p] \in CommandLines
<1>1. cmd[p] \in CommandLines
  BY DEF CliIInv, OneInv, PlaceInv
<1> QED
  BY <1>1, KindsFit DEF CommandLines, Kind

\* The steps of a process, one action each.
LEMMA InvokeStep ==
    ASSUME CliIInv, NEW p \in Procs, Invoke(p), Remember
    PROVE  OneInv(p)'
<1>1. PICK i \in Invocations[p] : cmd' = [cmd EXCEPT ![p] = i]
  BY DEF Invoke
<1>2. /\ pc[p] = "idle" /\ pc'[p] = "load" /\ cmd'[p] = i
      /\ UNCHANGED <<got, mode, config, ws, item, agreed>>
  BY <1>1 DEF Invoke, Goto, CliIInv, IInv, TypeOK, CliTypes
<1>3. /\ config[p] = NotYet /\ mode[p] = NotYet /\ ws[p] = NotYet /\ got[p] = Unset
      /\ item[p] = NotYet
  BY <1>2 DEF CliIInv, OneInv, PlaceInv
<1>4. i \in CommandLines
  BY CliAssumption
<1>5. PlaceInv(p)' /\ TargetInv(p)'
  BY <1>2, <1>3, <1>4 DEF PlaceInv, TargetInv, Loading, Kind, Settled
<1>6. PromptInv(p)'
  BY <1>2, <1>3 DEF PromptInv, PastPrompt, Settled
<1>7. ToldInv(p)' /\ KnownInv(p)'
  BY <1>2, <1>3 DEF ToldInv, KnownInv
<1> QED
  BY <1>5, <1>6, <1>7 DEF OneInv

LEMMA BeginStep ==
    ASSUME CliIInv, NEW p \in Procs, Begin(p), Remember
    PROVE  OneInv(p)'
<1> DEFINE place == pc'[p]
<1>1. /\ pc[p] = "loaded" /\ mode[p] = NotYet
      /\ UNCHANGED <<got, cmd, config, ws, item, agreed>>
  BY DEF Begin
<1>2. /\ cmd[p] \in CommandLines /\ config[p] = NotYet /\ ws[p] = NotYet
      /\ item[p] = NotYet
  BY <1>1 DEF CliIInv, OneInv, PlaceInv, Loading
<1>3. Fits(Kind(p))
  BY <1>1, KindFits
<1>4. \/ place = "refused"
      \/ mode'[p] # NotYet /\ place = "ask" /\ Kind(p).asks = "outset"
      \/ mode'[p] # NotYet /\ place = Body(Kind(p)) /\ Kind(p).asks # "outset"
  <2>1. CASE RootMode(p) = Junk
    BY <1>1, <2>1 DEF Begin, Goto, CliIInv, IInv, TypeOK
  <2>2. CASE RootMode(p) # Junk
    <3>1. mode'[p] = Option(cmd[p].leaf.auth, RootMode(p))
      BY <2>2 DEF Begin, CliIInv, CliTypes
    <3>2. got[p]["auth_mode"] \in Words
      BY CliAssumption DEF CliIInv, IInv, TypeOK, UserConfigs, Words
    <3>3. mode'[p] # NotYet
      BY <1>2, <3>1, <3>2, CliAssumption
         DEF RootMode, Option, CommandLines, OptionSets
    <3>4. pc'[p] = IF Kind(p).scope = "all" /\ Workspace(p) # NoValue THEN "refused"
                   ELSE IF Kind(p).asks = "outset" THEN "ask" ELSE Body(Kind(p))
      BY <1>1, <2>2 DEF Begin, Goto, CliIInv, IInv, TypeOK
    <3> QED
      BY <3>3, <3>4
  <2> QED
    BY <2>1, <2>2
<1>5. Body(Kind(p)) \in {"workspace", "connect", "show", "set", "clear", "serve"}
      /\ (Body(Kind(p)) = "show" <=> Kind(p).scope = "show")
      /\ (Body(Kind(p)) = "workspace" <=> Kind(p).scope \in Early)
      /\ (Kind(p).scope = "listing" => Body(Kind(p)) = "connect")
  BY <1>3 DEF Fits, Body, Scopes, Targeted, Early
<1>6. PlaceInv(p)' /\ TargetInv(p)'
  BY <1>1, <1>2, <1>4, <1>5
     DEF PlaceInv, TargetInv, Loading, Kind, Settled, Targeted, Early
<1>7. PromptInv(p)'
  BY <1>1, <1>2, <1>3, <1>4, <1>5
     DEF PromptInv, PastPrompt, Kind, Loading, Fits, Settled, Targeted, Early
<1>8. ToldInv(p)'
  BY <1>1, <1>2 DEF ToldInv
<1>9. KnownInv(p)'
  <2>1. KnownInv(p)
    BY DEF CliIInv, OneInv
  <2> QED
    BY <1>1, <2>1 DEF KnownInv, Going, Remember, CliOver, ConfigOver
<1> QED
  BY <1>6, <1>7, <1>8, <1>9 DEF OneInv

LEMMA KeepConfigStep ==
    ASSUME CliIInv, NEW p \in Procs, KeepConfig(p), Remember
    PROVE  OneInv(p)'
<1>1. /\ pc[p] = "loaded" /\ mode[p] # NotYet /\ config'[p] = got[p]
      /\ UNCHANGED <<got, cmd, mode, ws, item, agreed>>
  BY DEF KeepConfig, CliIInv, CliTypes
<1>2. /\ cmd[p] \in CommandLines /\ config[p] = NotYet
      /\ ws[p] = NotYet => item[p] = NotYet
  BY <1>1 DEF CliIInv, OneInv, PlaceInv, Loading
<1>3. got[p] \in UserConfigs /\ got[p] # NotYet
  BY CliAssumption DEF CliIInv, IInv, TypeOK
<1>4. pc'[p] = IF Body(Kind(p)) = "workspace" /\ ws[p] = NotYet THEN "workspace"
               ELSE IF Kind(p).scope = "item" /\ item[p] = NotYet THEN "item"
               ELSE IF Kind(p).scope = "show" THEN "show" ELSE "connect"
  BY DEF KeepConfig, Goto, CliIInv, IInv, TypeOK
<1>5. Body(Kind(p)) = "workspace" <=> Kind(p).scope \in Early
  BY <1>1, KindFits DEF Fits, Scopes, Body, Targeted, Early
<1>6. OneInv(p)
  BY DEF CliIInv
<1>7. PlaceInv(p)' /\ TargetInv(p)'
  BY <1>1, <1>2, <1>3, <1>4, <1>5, <1>6
     DEF OneInv, PlaceInv, TargetInv, Loading, Kind, Settled, Targeted, Early
<1>8. PromptInv(p)'
  <2>1. Fits(Kind(p))
    BY <1>1, KindFits
  <2> QED
    BY <1>1, <1>2, <1>4, <1>5, <1>6, <2>1
       DEF OneInv, PromptInv, PastPrompt, Kind, Loading, Confirmed, Yes, Settled, Fits,
           Targeted, Early
<1>9. ToldInv(p)'
  BY <1>1, <1>2, <1>3, <1>6
     DEF OneInv, ToldInv, Going, CliOver, ConfigOver, Possible, WorkspaceBy, ItemBy, Kind,
         Workspace
<1>10. KnownInv(p)'
  BY <1>1, <1>6 DEF OneInv, KnownInv, Going, Remember, CliOver, ConfigOver
<1> QED
  BY <1>7, <1>8, <1>9, <1>10 DEF OneInv

\* A command that needs the config first goes and loads it.
LEMMA LoadConfigStep ==
    ASSUME CliIInv, NEW p \in Procs, LoadConfig(p), Remember,
           pc[p] \in {"workspace", "item", "connect", "show"},
           UNCHANGED <<got, cmd, mode, config, agreed>>
    PROVE  OneInv(p)'
<1>1. pc'[p] = "load" /\ config[p] = NotYet /\ UNCHANGED <<ws, item>>
  BY DEF LoadConfig, Goto, CliIInv, IInv, TypeOK
<1>2. OneInv(p)
  BY DEF CliIInv
<1>3. PlaceInv(p)' /\ TargetInv(p)'
  BY <1>1, <1>2 DEF OneInv, PlaceInv, TargetInv, Kind, Loading
<1>4. PromptInv(p)'
  <2>1. pc[p] # "idle" /\ Fits(Kind(p))
    BY KindFits
  <2>2. CASE pc[p] = "connect"
    BY <1>1, <1>2, <2>1, <2>2
       DEF OneInv, PlaceInv, PromptInv, PastPrompt, Kind, Confirmed, Yes, Targeted, Early
  <2>3. CASE pc[p] # "connect"
    BY <1>1, <1>2, <2>1, <2>3
       DEF OneInv, TargetInv, PlaceInv, PromptInv, PastPrompt, Loading, Settled, Kind,
           Confirmed, Yes, Targeted, Early
  <2> QED
    BY <2>2, <2>3
<1>5. ToldInv(p)'
  BY <1>1, <1>2
     DEF OneInv, ToldInv, Going, CliOver, ConfigOver, Possible, WorkspaceBy, ItemBy, Kind,
         Workspace
<1>6. KnownInv(p)'
  BY <1>1, <1>2 DEF OneInv, KnownInv, Going, Remember, CliOver, ConfigOver
<1> QED
  BY <1>3, <1>4, <1>5, <1>6 DEF OneInv

\* A command that is over has nothing left to keep.
LEMMA EndStep ==
    ASSUME CliIInv, NEW p \in Procs, NEW place \in CliOver \ {"served"}, Goto(p, place),
           pc[p] # "idle", UNCHANGED <<got, cmd, mode, config, ws, item, agreed>>
    PROVE  OneInv(p)'
<1>1. pc'[p] = place
  BY DEF Goto, CliIInv, IInv, TypeOK
<1>2. OneInv(p)
  BY DEF CliIInv
<1>3. PlaceInv(p)' /\ TargetInv(p)' /\ PromptInv(p)'
  BY <1>1, <1>2
     DEF OneInv, PlaceInv, TargetInv, PromptInv, PastPrompt, Loading, CliOver, ConfigOver
<1>4. ToldInv(p)' /\ KnownInv(p)'
  BY <1>1 DEF ToldInv, KnownInv, Going
<1> QED
  BY <1>3, <1>4 DEF OneInv

LEMMA WorkspaceStep ==
    ASSUME CliIInv, NEW p \in Procs, ResolveWorkspace(p), Remember
    PROVE  OneInv(p)'
<1> DEFINE given == IF Kind(p).scope = "argument" THEN cmd[p].arg ELSE Workspace(p)
           v == Told(p, given, cmd[p].env.workspace, "workspace")
<1>1. pc[p] = "workspace"
  BY DEF ResolveWorkspace
<1>2. CASE Untold(p, v)
  <2>1. CASE LoadConfig(p)
    BY <1>1, <1>2, <2>1, LoadConfigStep DEF Untold
  <2>2. CASE Goto(p, "refused") /\ UNCHANGED <<ws, item>>
    BY <1>1, <1>2, <2>2, EndStep DEF Untold, ResolveWorkspace, CliOver
  <2> QED
    BY <1>2, <2>1, <2>2 DEF Untold
<1>3. CASE /\ v \notin {NotYet, NoValue}
           /\ ws' = [ws EXCEPT ![p] = v]
           /\ item' = [item EXCEPT ![p] =
                          IF Kind(p).scope = "snapshot" THEN cmd[p].arg ELSE @]
           /\ Goto(p, IF Kind(p).scope = "item" THEN "item" ELSE Resolved(Kind(p)))
           /\ UNCHANGED <<file, lock, op, got, draft, cmd, mode, config, agreed, left>>
  <2>1. /\ ws'[p] = v /\ v # NotYet
        /\ Kind(p).scope # "snapshot" => item'[p] = item[p]
        /\ pc'[p] = IF Kind(p).scope = "item" THEN "item" ELSE Resolved(Kind(p))
    BY <1>3 DEF Goto, CliIInv, IInv, TypeOK, CliTypes
  <2>2. OneInv(p)
    BY DEF CliIInv
  <2>3. /\ cmd[p] \in CommandLines /\ mode[p] # NotYet
        /\ Kind(p).scope \in Targeted /\ item[p] = NotYet
    BY <1>1, <2>2 DEF OneInv, PlaceInv, TargetInv
  <2>4. /\ pc'[p] \in {"item", "ask", "connect", "serve"}
        /\ pc'[p] = "ask" => Kind(p).asks = "first"
        /\ pc'[p] = "item" => Kind(p).scope = "item"
        /\ pc'[p] = "serve" <=> Kind(p).scope = "listing"
    <3>1. Fits(Kind(p))
      BY <1>1, KindFits
    <3> QED
      BY <2>1, <3>1 DEF Resolved, Fits
  <2>5. PlaceInv(p)'
    BY <1>3, <2>1, <2>3, <2>4 DEF PlaceInv, Loading, Kind
  <2>6. TargetInv(p)'
    BY <1>1, <1>3, <2>1, <2>2, <2>3, <2>4
       DEF OneInv, TargetInv, Settled, Kind, Loading
  <2>7. PromptInv(p)'
    <3>1. Fits(Kind(p))
      BY <1>1, KindFits
    <3> QED
      BY <1>1, <1>3, <2>1, <2>2, <2>3, <2>4, <3>1
         DEF OneInv, PromptInv, PastPrompt, Loading, Kind, Confirmed, Yes, Resolved, Fits
  <2>8. v # NotYet => \A c \in Possible(p) : v = WorkspaceBy(p, c)
    BY DEF Told, GivenFirst, Option, Possible, WorkspaceBy
  <2>9. Going(p)
    BY <1>1 DEF Going, CliOver, ConfigOver
  <2>10. ToldInv(p)'
    BY <1>3, <2>1, <2>2, <2>3, <2>8, <2>9
       DEF OneInv, ToldInv, Possible, WorkspaceBy, ItemBy, Kind, Workspace
  <2>11. KnownInv(p)'
    BY <1>3, <2>2, <2>4, <2>9
       DEF OneInv, KnownInv, Going, Remember, CliOver, ConfigOver
  <2> QED
    BY <2>5, <2>6, <2>7, <2>10, <2>11 DEF OneInv
<1> QED
  BY <1>2, <1>3 DEF ResolveWorkspace

LEMMA WarehouseStep ==
    ASSUME CliIInv, NEW p \in Procs, ResolveWarehouse(p), Remember
    PROVE  OneInv(p)'
<1> DEFINE v == Told(p, cmd[p].arg, cmd[p].env.warehouse, "warehouse")
<1>1. pc[p] = "item"
  BY DEF ResolveWarehouse
<1>2. CASE Untold(p, v)
  <2>1. CASE LoadConfig(p)
    BY <1>1, <1>2, <2>1, LoadConfigStep DEF Untold
  <2>2. CASE Goto(p, "refused") /\ UNCHANGED <<ws, item>>
    BY <1>1, <1>2, <2>2, EndStep DEF Untold, ResolveWarehouse, CliOver
  <2> QED
    BY <1>2, <2>1, <2>2 DEF Untold
<1>3. CASE /\ v \notin {NotYet, NoValue}
           /\ item' = [item EXCEPT ![p] = v]
           /\ Goto(p, Resolved(Kind(p)))
           /\ UNCHANGED <<file, lock, op, got, draft, cmd, mode, config, ws, agreed, left>>
  <2>1. item'[p] = v /\ v # NotYet /\ pc'[p] = Resolved(Kind(p))
    BY <1>3 DEF Goto, CliIInv, IInv, TypeOK, CliTypes
  <2>2. OneInv(p)
    BY DEF CliIInv
  <2>3. /\ cmd[p] \in CommandLines /\ mode[p] # NotYet
        /\ Kind(p).scope = "item" /\ ws[p] # NotYet
    BY <1>1, <2>2 DEF OneInv, PlaceInv, TargetInv
  <2>4. pc'[p] \in {"ask", "connect"} /\ (pc'[p] = "ask" <=> Kind(p).asks = "first")
    BY <2>1, <2>3 DEF Resolved
  <2>5. ws[p] # NotYet
    BY <1>1, <2>2 DEF OneInv, PlaceInv, TargetInv
  <2>6. PlaceInv(p)' /\ TargetInv(p)'
    BY <1>3, <2>1, <2>3, <2>4, <2>5 DEF PlaceInv, TargetInv, Settled, Kind, Loading
  <2>7. PromptInv(p)'
    BY <1>1, <1>3, <2>1, <2>2, <2>3, <2>4
       DEF OneInv, PromptInv, PastPrompt, Loading, Kind, Confirmed, Yes
  <2>8. \A c \in Possible(p) : v = ItemBy(p, c)
    BY <2>1 DEF Told, GivenFirst, Option, Possible, ItemBy
  <2>9. Going(p)
    BY <1>1 DEF Going, CliOver, ConfigOver
  <2>10. ToldInv(p)'
    BY <1>3, <2>1, <2>2, <2>8, <2>9
       DEF OneInv, ToldInv, Possible, WorkspaceBy, ItemBy, Kind, Workspace
  <2>11. KnownInv(p)'
    BY <1>3, <2>2, <2>4, <2>9
       DEF OneInv, KnownInv, Going, Remember, CliOver, ConfigOver
  <2> QED
    BY <2>6, <2>7, <2>10, <2>11 DEF OneInv
<1> QED
  BY <1>2, <1>3 DEF ResolveWarehouse

LEMMA ConnectStep ==
    ASSUME CliIInv, NEW p \in Procs, Connect(p), Remember
    PROVE  OneInv(p)'
<1>1. pc[p] = "connect" /\ UNCHANGED <<got, cmd, mode, config, agreed>>
  BY DEF Connect
<1>2. CASE LoadConfig(p)
  BY <1>1, <1>2, LoadConfigStep
<1>3. CASE UNCHANGED <<ws, item>> /\ Goto(p, "failed")
  BY <1>1, <1>3, EndStep DEF CliOver
<1>4. CASE UNCHANGED <<ws, item>> /\ config[p] # NotYet /\ Goto(p, Found(Kind(p)))
  <2>1. pc'[p] = Found(Kind(p))
    BY <1>4 DEF Goto, CliIInv, IInv, TypeOK
  <2>2. OneInv(p)
    BY DEF CliIInv
  <2>4. Fits(Kind(p))
    BY <1>1, KindFits
  <2>3. /\ pc'[p] \in {"ask", "serve", "workspace"}
        /\ pc'[p] = "ask" <=> Kind(p).asks \in {"shown", "typed"}
        /\ pc'[p] = "workspace" <=> Kind(p).scope = "listing"
    BY <2>1, <2>4 DEF Found, Fits
  <2>5. PlaceInv(p)' /\ TargetInv(p)'
    BY <1>1, <1>4, <2>2, <2>3
       DEF OneInv, PlaceInv, TargetInv, Settled, Kind, Loading, Targeted
  <2>6. PromptInv(p)'
    BY <1>1, <1>4, <2>2, <2>3, <2>4
       DEF OneInv, PlaceInv, PromptInv, PastPrompt, Kind, Confirmed, Yes, Loading, Fits,
           Prompts
  <2>7. ToldInv(p)'
    BY <1>1, <1>4, <2>2
       DEF OneInv, ToldInv, Going, CliOver, ConfigOver, Possible, WorkspaceBy, ItemBy, Kind,
           Workspace
  <2>8. KnownInv(p)'
    BY <1>1, <2>2, <2>3 DEF OneInv, KnownInv, Going, Remember, CliOver, ConfigOver
  <2> QED
    BY <2>5, <2>6, <2>7, <2>8 DEF OneInv
<1> QED
  BY <1>2, <1>3, <1>4 DEF Connect

LEMMA ShowStep ==
    ASSUME CliIInv, NEW p \in Procs, Show(p), Remember
    PROVE  OneInv(p)'
<1>1. pc[p] = "show" /\ UNCHANGED <<got, cmd, mode, config, agreed>>
  BY DEF Show
<1>2. CASE LoadConfig(p)
  BY <1>1, <1>2, LoadConfigStep
<1>3. CASE UNCHANGED <<ws, item>> /\ Goto(p, "serve")
  <2>1. pc'[p] = "serve"
    BY <1>3 DEF Goto, CliIInv, IInv, TypeOK
  <2>2. OneInv(p)
    BY DEF CliIInv
  <2>3. Kind(p).scope \notin Targeted
    BY <1>1, <2>2 DEF OneInv, PlaceInv, Targeted, Early
  <2>4. PlaceInv(p)' /\ TargetInv(p)' /\ PromptInv(p)' /\ ToldInv(p)'
    BY <1>1, <1>3, <2>1, <2>2, <2>3
       DEF OneInv, PlaceInv, TargetInv, PromptInv, ToldInv, Kind, Loading
  <2>5. KnownInv(p)'
    BY <1>1, <2>1, <2>2 DEF OneInv, KnownInv, Going, Remember, CliOver, ConfigOver
  <2> QED
    BY <2>4, <2>5 DEF OneInv
<1> QED
  BY <1>2, <1>3 DEF Show

LEMMA AskStep ==
    ASSUME CliIInv, NEW p \in Procs, Ask(p), Remember
    PROVE  OneInv(p)'
<1>1. pc[p] = "ask" /\ UNCHANGED <<got, cmd, mode, config, ws, item>>
  BY DEF Ask
<1>2. CASE Goto(p, "aborted") /\ UNCHANGED agreed
  BY <1>1, <1>2, EndStep DEF CliOver
<1>3. CASE /\ Goto(p, Agreed(Kind(p)))
           /\ \/ Yes(p) /\ UNCHANGED agreed
              \/ agreed' = [agreed EXCEPT ![p] = TRUE]
  <2>1. pc'[p] = Agreed(Kind(p)) /\ Confirmed(p)'
    <3>1. pc'[p] = Agreed(Kind(p))
      BY <1>3 DEF Goto, CliIInv, IInv, TypeOK
    <3>2. Yes(p) /\ UNCHANGED agreed => Confirmed(p)'
      BY <1>1 DEF Confirmed, Yes
    <3>3. agreed' = [agreed EXCEPT ![p] = TRUE] => agreed'[p] = TRUE
      BY DEF CliIInv, CliTypes
    <3> QED
      BY <1>3, <3>1, <3>2, <3>3 DEF Confirmed
  <2>2. OneInv(p)
    BY DEF CliIInv
  <2>3. Fits(Kind(p))
    BY <1>1, KindFits
  <2>4. /\ Body(Kind(p)) \in {"workspace", "connect", "show", "set", "clear", "serve"}
        /\ Body(Kind(p)) = "show" <=> Kind(p).scope = "show"
        /\ Body(Kind(p)) = "workspace" <=> Kind(p).scope \in Early
        /\ Kind(p).scope = "listing" => Body(Kind(p)) = "connect"
    BY <2>3 DEF Fits, Body, Scopes, Targeted, Early
  <2>5. pc'[p] = IF Kind(p).asks = "outset" THEN Body(Kind(p))
                 ELSE IF Kind(p).asks = "first" THEN "connect" ELSE "serve"
    BY <2>1 DEF Agreed
  <2>6. PlaceInv(p)'
    BY <1>1, <2>2, <2>4, <2>5 DEF OneInv, PlaceInv, Kind, Loading, Targeted
  <2>7. TargetInv(p)'
    BY <1>1, <2>2, <2>3, <2>4, <2>5
       DEF OneInv, TargetInv, Kind, Settled, Fits, Loading, Targeted, Early
  <2>8. PromptInv(p)'
    BY <2>1 DEF PromptInv
  <2>9. ToldInv(p)'
    BY <1>1, <2>2
       DEF OneInv, ToldInv, Going, CliOver, ConfigOver, Possible, WorkspaceBy, ItemBy, Kind,
           Workspace
  <2>10. KnownInv(p)'
    BY <1>1, <2>2, <2>4, <2>5
       DEF OneInv, KnownInv, Going, Remember, CliOver, ConfigOver
  <2> QED
    BY <2>6, <2>7, <2>8, <2>9, <2>10 DEF OneInv
<1> QED
  BY <1>2, <1>3 DEF Ask

LEMMA ServeStep ==
    ASSUME CliIInv, NEW p \in Procs, Serve(p), Remember
    PROVE  OneInv(p)'
<1>1. pc[p] = "serve" /\ UNCHANGED <<got, cmd, mode, config, ws, item, agreed>>
  BY DEF Serve, cliVars
<1>2. CASE Goto(p, "failed")
  BY <1>1, <1>2, EndStep DEF CliOver
<1>3. CASE Goto(p, "served")
  <2>1. pc'[p] = "served"
    BY <1>3 DEF Goto, CliIInv, IInv, TypeOK
  <2>2. OneInv(p)
    BY DEF CliIInv
  <2>3. PlaceInv(p)' /\ TargetInv(p)'
    BY <1>1, <2>1, <2>2 DEF OneInv, PlaceInv, TargetInv, Loading
  <2>4. PromptInv(p)'
    BY <1>1, <2>1, <2>2 DEF OneInv, PromptInv, PastPrompt, Confirmed, Yes, Kind
  <2>5. ToldInv(p)' /\ KnownInv(p)'
    BY <2>1 DEF ToldInv, KnownInv, Going, CliOver
  <2> QED
    BY <2>3, <2>4, <2>5 DEF OneInv
<1> QED
  BY <1>2, <1>3 DEF Serve

LEMMA ExitStep ==
    ASSUME CliIInv, NEW p \in Procs, Exit(p), Remember
    PROVE  OneInv(p)'
<1>1. /\ pc'[p] = "idle" /\ got'[p] = Unset /\ config'[p] = NotYet /\ mode'[p] = NotYet
      /\ ws'[p] = NotYet /\ item'[p] = NotYet
  BY DEF Exit, Goto, CliIInv, IInv, TypeOK, CliTypes
<1> QED
  BY <1>1
     DEF OneInv, PlaceInv, TargetInv, PromptInv, PastPrompt, ToldInv, KnownInv, Going,
         Loading

\* A step of config.py ends the command, or gets on with what it began.
LEMMA ConfigPlaces ==
    ASSUME CliIInv, NEW p \in Procs, ConfigStep(p), Remember
    PROVE  \/ /\ pc[p] \in Loading /\ pc'[p] \in {"load_wait", "read", "loaded"}
              /\ got'[p] \in {got[p], Unset, AsLoaded(file')}
           \/ /\ pc[p] # "idle"
              /\ pc'[p] \in ConfigOver \cup {"set_wait", "update", "write", "replace", "unlink"}
              /\ got' = got
<1> USE DEF CliIInv, IInv, TypeOK, Goto, Loading, ConfigOver
<1>1. CASE LookForFile(p) \/ LockToRead(p) \/ GiveUpReading(p) \/ ReadText(p)
  BY <1>1 DEF LookForFile, LockToRead, Lock, GiveUpReading, ReadText
<1>2. CASE CheckValue(p) \/ LockToSet(p) \/ GiveUpSetting(p) \/ Update(p) \/ WriteAside(p)
           \/ Replace(p) \/ Raise(p)
  BY <1>2 DEF CheckValue, LockToSet, Lock, GiveUpSetting, Update, WriteAside, Replace, Raise
<1>3. CASE LockToClear(p) \/ GiveUpClearing(p) \/ Unlink(p) \/ Kill(p)
  BY <1>3 DEF LockToClear, Lock, GiveUpClearing, Unlink, Kill, InConfig
<1> QED
  BY <1>1, <1>2, <1>3 DEF ConfigStep

\* So nothing is settled, asked or forgotten meanwhile.
LEMMA ConfigStepKeeps ==
    ASSUME CliIInv, NEW p \in Procs, ConfigStep(p), UNCHANGED cliVars, Remember
    PROVE  OneInv(p)'
<1>1. UNCHANGED <<cmd, mode, config, ws, item, agreed>>
  BY DEF cliVars
<1>2. OneInv(p)
  BY DEF CliIInv
<1>3. CASE /\ pc[p] \in Loading /\ pc'[p] \in {"load_wait", "read", "loaded"}
           /\ got'[p] \in {got[p], Unset, AsLoaded(file')}
  <2>1. PlaceInv(p)' /\ TargetInv(p)'
    BY <1>1, <1>2, <1>3 DEF OneInv, PlaceInv, TargetInv, Loading, Kind
  <2>2. PromptInv(p)'
    BY <1>1, <1>2, <1>3
       DEF OneInv, PromptInv, PastPrompt, Loading, Settled, Kind, Confirmed, Yes
  <2>3. Going(p)
    BY <1>3 DEF Going, Loading, CliOver, ConfigOver
  <2>4. ToldInv(p)'
    BY <1>1, <1>2, <2>3
       DEF OneInv, ToldInv, Possible, WorkspaceBy, ItemBy, Kind, Workspace
  <2>5. known'[p] = known[p] \cup {AsLoaded(file')}
    BY <1>3 DEF Remember, CliOver, ConfigOver
  <2>6. KnownInv(p)'
    BY <1>1, <1>2, <1>3, <2>3, <2>5 DEF OneInv, KnownInv
  <2> QED
    BY <2>1, <2>2, <2>4, <2>6 DEF OneInv
<1>4. CASE /\ pc[p] # "idle"
           /\ pc'[p] \in ConfigOver \cup {"set_wait", "update", "write", "replace", "unlink"}
           /\ got' = got
  <2>1. PlaceInv(p)' /\ TargetInv(p)' /\ PromptInv(p)'
    BY <1>1, <1>2, <1>4
       DEF OneInv, PlaceInv, TargetInv, PromptInv, PastPrompt, Loading, ConfigOver
  <2>2. Going(p)' => Going(p) /\ known[p] \subseteq known'[p]
    <3>1. CASE pc'[p] \in CliOver \cup {"idle"}
      BY <3>1 DEF Going
    <3>2. CASE pc[p] \in CliOver
      BY <1>4, <3>2 DEF CliOver, ConfigOver, ConfigStep, LookForFile, LockToRead,
         LockToSet, LockToClear, Lock, GiveUpReading, ReadText, CheckValue,
         GiveUpSetting, Update, WriteAside, Replace, Raise, GiveUpClearing, Unlink,
         Kill, InConfig
    <3>3. CASE pc[p] \notin CliOver /\ pc'[p] \notin CliOver \cup {"idle"}
      BY <1>4, <3>3 DEF Going, Remember
    <3> QED
      BY <3>1, <3>2, <3>3
  <2>3. ToldInv(p)'
    BY <1>1, <1>2, <2>2
       DEF OneInv, ToldInv, Possible, WorkspaceBy, ItemBy, Kind, Workspace
  <2>4. KnownInv(p)'
    BY <1>1, <1>2, <1>4, <2>2 DEF OneInv, KnownInv
  <2> QED
    BY <2>1, <2>3, <2>4 DEF OneInv
<1> QED
  BY <1>3, <1>4, ConfigPlaces

\* All together.
LEMMA StepCliIInv ==
    ASSUME CliIInv, NEW p \in Procs, Step(p), Remember
    PROVE  CliIInv'
<1>1. OneInv(p)'
  BY InvokeStep, BeginStep, KeepConfigStep, WorkspaceStep, WarehouseStep, ConnectStep,
     ShowStep, AskStep, ServeStep, ExitStep, ConfigStepKeeps DEF Step
<1>2. \A q \in Procs : OneInv(q)'
  BY <1>1, OthersKeep
<1>3. CliTypes'
  BY DEF CliIInv, CliTypes, Step, Invoke, Begin, KeepConfig, ResolveWorkspace,
         ResolveWarehouse, Untold, LoadConfig, Connect, Show, Ask, Serve, Exit, cliVars
<1>4. IInv'
  <2> USE UnsetType DEF CliIInv
  <2>1. CASE Invoke(p)
    <3>1. PICK i \in Invocations[p] : op' = [op EXCEPT ![p] = i.op]
      BY <2>1 DEF Invoke
    <3>2. i.op \in [key : Keys, value : Words]
      BY CliAssumption DEF CommandLines
    <3> QED
      BY <2>1, <3>1, <3>2, QuietStep DEF Invoke, IInv, TypeOK, Locked
  <2>2. CASE Begin(p) \/ KeepConfig(p) \/ ResolveWorkspace(p) \/ ResolveWarehouse(p)
             \/ Connect(p) \/ Show(p) \/ Ask(p) \/ Serve(p)
    <3>1. pc[p] # "idle" /\ UNCHANGED <<file, lock, op, got, draft>>
      BY <2>2 DEF Begin, KeepConfig, ResolveWorkspace, ResolveWarehouse, Untold, Connect,
           Show, Ask, Serve
    <3>2. PICK place : Goto(p, place) /\ place \notin Locked
      <4>1. Fits(Kind(p))
        BY <3>1, KindFits
      <4>2. Body(Kind(p)) \notin Locked /\ Agreed(Kind(p)) \notin Locked
        BY <4>1 DEF Fits, Scopes, Targeted, Early, Body, Agreed, Locked
      <4>3. CASE Begin(p) \/ KeepConfig(p)
        BY <4>2, <4>3 DEF Begin, KeepConfig, Locked
      <4>4. CASE ResolveWorkspace(p) \/ ResolveWarehouse(p)
        BY <4>4 DEF ResolveWorkspace, ResolveWarehouse, Untold, LoadConfig, Resolved, Locked
      <4>5. CASE Connect(p) \/ Show(p)
        BY <4>5 DEF Connect, Show, LoadConfig, Found, Locked
      <4>6. CASE Ask(p) \/ Serve(p)
        BY <4>2, <4>6 DEF Ask, Serve, Locked
      <4> QED
        BY <2>2, <4>3, <4>4, <4>5, <4>6
    <3> QED
      BY <3>1, <3>2, QuietStep DEF IInv, TypeOK, Locked
  <2>3. CASE Exit(p)
    BY <2>3, QuietStep DEF Exit, IInv, TypeOK, Locked
  <2>4. CASE ConfigStep(p)
    BY <2>4, StepIInv
  <2> QED
    BY <2>1, <2>2, <2>3, <2>4 DEF Step
<1> QED
  BY <1>2, <1>3, <1>4 DEF CliIInv

\* At first no command has begun.
LEMMA InitCliIInv == Init => CliIInv
<1> SUFFICES ASSUME Init PROVE CliIInv
  OBVIOUS
<1>1. IInv
  BY AtFirst, CliAssumption DEF Init
<1>2. CliTypes
  BY DEF Init, CliTypes
<1>3. ASSUME NEW p \in Procs PROVE OneInv(p)
  <2>1. /\ pc[p] = "idle" /\ got[p] = Unset /\ config[p] = NotYet /\ mode[p] = NotYet
        /\ ws[p] = NotYet /\ item[p] = NotYet
    BY DEF Init
  <2> QED
    BY <2>1
       DEF OneInv, PlaceInv, TargetInv, PromptInv, PastPrompt, ToldInv, KnownInv, Going,
           Loading
<1> QED
  BY <1>1, <1>2, <1>3 DEF CliIInv

\* What one step keeps, all of them keep.
LEMMA NextCliIInv == CliIInv /\ [Next]_vars => CliIInv'
<1> SUFFICES ASSUME CliIInv, [Next]_vars PROVE CliIInv'
  OBVIOUS
<1>1. CASE Next
  BY <1>1, StepCliIInv DEF Next
<1>2. CASE UNCHANGED vars
  <2>1. UNCHANGED <<file, lock, pc, op, got, draft, cmd, mode, config, ws, item, agreed, known>>
    BY <1>2 DEF vars, configVars, cliVars
  <2>2. IInv' /\ CliTypes'
    BY <2>1 DEF CliIInv, IInv, TypeOK, HoldsLock, DraftIsCurrent, CliTypes
  <2>3. ASSUME NEW p \in Procs PROVE OneInv(p)'
    BY <2>1
       DEF CliIInv, OneInv, PlaceInv, TargetInv, PromptInv, PastPrompt, Confirmed, Yes,
           ToldInv, KnownInv, Going, Kind, Settled, Possible, WorkspaceBy, ItemBy, Workspace
  <2> QED
    BY <2>2, <2>3 DEF CliIInv
<1> QED
  BY <1>1, <1>2

\* What any command takes away it takes with --yes or with an answer: none of
\* the table has its prompt missing, or at a place that a run of it goes round.
THEOREM RemovalsConfirmedCorrect == Spec => []RemovalsConfirmed
<1>1. CliIInv => RemovalsConfirmed
  <2> SUFFICES ASSUME CliIInv, NEW p \in Procs, pc[p] \in {"serve", "served"},
                      Kind(p).grave
               PROVE  Confirmed(p)
    BY DEF RemovalsConfirmed, Confirmed
  <2>1. Fits(Kind(p))
    BY KindFits
  <2> QED
    BY <2>1 DEF CliIInv, OneInv, PromptInv, PastPrompt, Fits
<1> QED
  BY <1>1, InitCliIInv, NextCliIInv, PTL DEF Spec

\* A command is for what its line, the environment and one config of the file's
\* say, whatever the others do to the file meanwhile.
THEOREM ActsWhereToldCorrect == Spec => []ActsWhereTold
<1>1. CliIInv => ActsWhereTold
  <2> SUFFICES ASSUME CliIInv, NEW p \in Procs, pc[p] = "serve", Kind(p).scope \in Targeted
               PROVE  \E c \in known[p] \cup {Unset} :
                         /\ ws[p] = WorkspaceBy(p, c)
                         /\ Kind(p).scope = "item" => item[p] = ItemBy(p, c)
    BY DEF ActsWhereTold, WorkspaceBy, ItemBy, Targeted, Early
  <2>1. OneInv(p)
    BY DEF CliIInv
  <2>2. Settled(p) /\ config[p] # NotYet /\ Going(p)
    BY <2>1 DEF OneInv, TargetInv, Going, CliOver, ConfigOver
  <2>3. config[p] \in known[p] \cup {Unset}
    BY <2>1, <2>2 DEF OneInv, KnownInv
  <2> QED
    BY <2>1, <2>2, <2>3 DEF OneInv, ToldInv, Possible, Settled
<1> QED
  BY <1>1, InitCliIInv, NextCliIInv, PTL DEF Spec

\* Beside the commands too, a change of the file is one whole request.
THEOREM CommandsChangeByRequest == Spec => EachChangeIsOneRequest
<1>1. CliIInv /\ [Next]_vars =>
        [file' # file =>
           \E p \in Procs :
              \/ pc[p] = "replace" /\ file' = Updated(file, op[p]) /\ file # Broken
              \/ pc[p] = "unlink" /\ file' = Absent]_configVars
  <2> SUFFICES ASSUME CliIInv, Next, file' # file
               PROVE  \E p \in Procs :
                         \/ pc[p] = "replace" /\ file' = Updated(file, op[p]) /\ file # Broken
                         \/ pc[p] = "unlink" /\ file' = Absent
    BY DEF vars, configVars
  <2>1. PICK p \in Procs : Step(p)
    BY DEF Next
  <2>2. ConfigStep(p)
    BY <2>1 DEF Step, Invoke, Begin, KeepConfig, ResolveWorkspace, ResolveWarehouse,
         Untold, Connect, Show, Ask, Serve, Exit
  <2> QED
    BY <2>2, ChangeIsRequest DEF CliIInv
<1> QED
  BY <1>1, InitCliIInv, NextCliIInv, PTL DEF Spec, EachChangeIsOneRequest
=============================================================================
