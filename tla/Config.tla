------------------------------- MODULE Config -------------------------------
(***************************************************************************)
(* The user's config file: config.py, as the processes of the machine use  *)
(* it.  A file holds a value, a value the parser drops, or nothing, for    *)
(* every key; it can also be absent or not parse at all.                   *)
(***************************************************************************)
CONSTANTS
    Procs,          \* processes, each with one request
    Keys,           \* of all the sections
    DefaultsKeys,   \* those of [defaults], whose values are checked before the lock
    Values, NoValue,
    Junk,           \* a value that its key does not take
    Absent, Broken, \* no file; a file that is not TOML
    NoProc

ASSUME ConfigAssumption ==
    /\ DefaultsKeys \subseteq Keys
    /\ NoValue \notin Values /\ Junk \notin Values /\ Junk # NoValue
    /\ NoProc \notin Procs
    /\ Absent # Broken

VARIABLES
    file,           \* what the file system has under default_path()
    lock,           \* the process that holds the FileLock
    pc,             \* where each process is
    op,             \* the key and value it is to set
    got,            \* what its last load_config returned
    draft           \* what it is about to write

configVars == <<file, lock, pc, op, got, draft>>

Goto(p, place) == pc' = [pc EXCEPT ![p] = place]

-----------------------------------------------------------------------------
\* UserConfig() and the UserConfigs that _parse_sections can return.
Unset == [k \in Keys |-> NoValue]
UserConfigs == [Keys -> Values \cup {NoValue}]
Contents == [Keys -> Values \cup {NoValue, Junk}]

ASSUME NoSuchContents == Absent \notin Contents /\ Broken \notin Contents

\* _parse_sections: what is unknown or invalid is dropped.
Parse(c) == [k \in Keys |-> IF c[k] = Junk THEN NoValue ELSE c[k]]

\* What load_config makes of the file.  A file that is not UTF-8, which makes it
\* raise in spite of its docstring, is left out.
AsLoaded(c) == IF c \in {Absent, Broken} THEN Unset ELSE Parse(c)

\* set_config's updater on what _read_all_sections_locked returned.  The other
\* keys are written back as they were parsed.
Updated(c, o) ==
    [(IF c = Absent THEN Unset ELSE Parse(c)) EXCEPT ![o.key] = o.value]

-----------------------------------------------------------------------------
(* load_config. *)

\* exists() is asked before the lock.
LookForFile(p) ==
    /\ pc[p] = "load"
    /\ \/ /\ file = Absent
          /\ got' = [got EXCEPT ![p] = Unset]
          /\ Goto(p, "loaded")
       \/ /\ file # Absent
          /\ Goto(p, "load_wait")
          /\ UNCHANGED got
    /\ UNCHANGED <<file, lock, op, draft>>

Lock(p, from, to) ==
    /\ pc[p] = from
    /\ lock = NoProc
    /\ lock' = p
    /\ Goto(p, to)
    /\ UNCHANGED <<file, op, got, draft>>

LockToRead(p) == Lock(p, "load_wait", "read")

\* _LOCK_TIMEOUT passes: empty defaults, with a warning.
GiveUpReading(p) ==
    /\ pc[p] = "load_wait"
    /\ lock # NoProc
    /\ got' = [got EXCEPT ![p] = Unset]
    /\ Goto(p, "loaded")
    /\ UNCHANGED <<file, lock, op, draft>>

\* The file may have gone since exists(): OSError, and empty defaults again.
ReadText(p) ==
    /\ pc[p] = "read"
    /\ got' = [got EXCEPT ![p] = AsLoaded(file)]
    /\ lock' = NoProc
    /\ Goto(p, "loaded")
    /\ UNCHANGED <<file, op, draft>>

-----------------------------------------------------------------------------
(* set_config. *)

\* Values for [defaults] are checked first, by _coerce_defaults_key.
CheckValue(p) ==
    /\ pc[p] = "set"
    /\ Goto(p, IF op[p].key \in DefaultsKeys /\ op[p].value = Junk
               THEN "set_failed" ELSE "set_wait")
    /\ UNCHANGED <<file, lock, op, got, draft>>

LockToSet(p) == Lock(p, "set_wait", "update")

\* ConfigError
GiveUpSetting(p) ==
    /\ pc[p] = "set_wait"
    /\ lock # NoProc
    /\ Goto(p, "set_failed")
    /\ UNCHANGED <<file, lock, op, got, draft>>

\* _read_all_sections_locked and the updater, both of which may raise.
Update(p) ==
    /\ pc[p] = "update"
    /\ file # Broken
    /\ op[p].value # Junk
    /\ draft' = [draft EXCEPT ![p] = Updated(file, op[p])]
    /\ Goto(p, "write")
    /\ UNCHANGED <<file, lock, op, got>>

\* Writing to the file itself would truncate it first.
WriteInPlace(p) ==
    /\ pc[p] = "write"
    /\ file' = Broken
    /\ Goto(p, "replace")
    /\ UNCHANGED <<lock, op, got, draft>>

\* _write_config_unlocked: the new contents go to a file beside ...
WriteAside(p) ==
    /\ pc[p] = "write"
    /\ Goto(p, "replace")
    /\ UNCHANGED <<file, lock, op, got, draft>>

\* ... which takes the place of the old one.
Replace(p) ==
    /\ pc[p] = "replace"
    /\ file' = draft[p]
    /\ lock' = NoProc
    /\ Goto(p, "set_ok")
    /\ UNCHANGED <<op, got, draft>>

\* Not TOML, not a value of the key, or an OSError: the temporary file goes.
Raise(p) ==
    /\ \/ pc[p] = "update" /\ (file = Broken \/ op[p].value = Junk)
       \/ pc[p] \in {"write", "replace"}
    /\ lock' = NoProc
    /\ Goto(p, "set_failed")
    /\ UNCHANGED <<file, op, got, draft>>

-----------------------------------------------------------------------------
(* clear_config. *)

LockToClear(p) == Lock(p, "clear", "unlink")

\* filelock.Timeout is not caught here.
GiveUpClearing(p) ==
    /\ pc[p] = "clear"
    /\ lock # NoProc
    /\ Goto(p, "clear_failed")
    /\ UNCHANGED <<file, lock, op, got, draft>>

Unlink(p) ==
    /\ pc[p] = "unlink"
    /\ file' = Absent
    /\ lock' = NoProc
    /\ Goto(p, "clear_ok")
    /\ UNCHANGED <<op, got, draft>>

-----------------------------------------------------------------------------
ConfigOver == {"set_ok", "set_failed", "clear_ok", "clear_failed", "killed"}
InConfig == {"load", "load_wait", "read", "set", "set_wait", "update", "write",
             "replace", "clear", "unlink"}

\* The process is killed: the system takes its lock back, a temporary file stays.
Kill(p) ==
    /\ pc[p] \in InConfig
    /\ lock' = IF lock = p THEN NoProc ELSE lock
    /\ Goto(p, "killed")
    /\ UNCHANGED <<file, op, got, draft>>

ConfigStep(p) ==
    \/ LookForFile(p) \/ LockToRead(p) \/ GiveUpReading(p) \/ ReadText(p)
    \/ CheckValue(p) \/ LockToSet(p) \/ GiveUpSetting(p)
    \/ Update(p) \/ WriteAside(p) \/ Replace(p) \/ Raise(p)
    \/ LockToClear(p) \/ GiveUpClearing(p) \/ Unlink(p)
    \/ Kill(p)

\* Any process may start any of the three, again and again.
Request(p) ==
    /\ pc[p] \notin InConfig
    /\ \E place \in {"load", "set", "clear"} : Goto(p, place)
    /\ op' \in [Procs -> [key : Keys, value : Values \cup {NoValue, Junk}]]
    /\ \A q \in Procs \ {p} : op'[q] = op[q]
    /\ UNCHANGED <<file, lock, got, draft>>

ConfigInit ==
    /\ file \in Contents \cup {Absent, Broken}
    /\ lock = NoProc
    /\ pc = [p \in Procs |-> "idle"]
    /\ op \in [Procs -> [key : Keys, value : Values \cup {NoValue, Junk}]]
    /\ got = [p \in Procs |-> Unset]
    /\ draft = [p \in Procs |-> Unset]

ConfigNext == \E p \in Procs : Request(p) \/ ConfigStep(p)

ConfigSpec == ConfigInit /\ [][ConfigNext]_configVars

-----------------------------------------------------------------------------
\* Every change of the file is the whole of one process's request and nothing
\* else: one key set in what the file said until then, or the file removed.  So
\* no update is lost, and no reader and no crash ever meets half of one.
EachChangeIsOneRequest ==
    [][file' # file =>
        \E p \in Procs :
            \/ pc[p] = "replace" /\ file' = Updated(file, op[p]) /\ file # Broken
            \/ pc[p] = "unlink" /\ file' = Absent]_configVars
=============================================================================
