----------------------------- MODULE LookupCache -----------------------------
(***************************************************************************)
(* LookupCache (cache.py) as processes and threads run it: a file lock, a  *)
(* read of the whole document, a temporary file and an os.replace.  It     *)
(* implements AtomicCache.                                                 *)
(***************************************************************************)
EXTENDS CacheContent

CONSTANTS
    Procs,       \* processes and worker threads that share the file
    NoProc,      \* the lock is free
    Ops          \* calls of the methods they make

ASSUME LockAssumption == NoProc \notin Procs

VARIABLES
    file,    \* the document on disk, or why there is none
    lock,    \* holder of the FileLock
    stage,   \* where each process is
    op,      \* the call it is running
    local    \* the document it has read

cacheVars == <<file, lock, stage, op, local>>

InSection == {"locked", "write", "replace", "release"}

MoveTo(p, place) == stage' = [stage EXCEPT ![p] = place]

CacheInit ==
    /\ file \in Unreadable \cup {EmptyDoc}
    /\ lock = NoProc
    /\ stage = [p \in Procs |-> "idle"]
    /\ op \in [Procs -> Ops]
    /\ local = [p \in Procs |-> EmptyDoc]

Call(p, o) ==
    /\ stage[p] = "idle"
    /\ op' = [op EXCEPT ![p] = o]
    /\ MoveTo(p, "acquire")
    /\ UNCHANGED <<file, lock, local>>

\* with self._lock
TakeLock(p) == lock = NoProc /\ lock' = p

Acquire(p) ==
    /\ stage[p] = "acquire"
    /\ TakeLock(p)
    /\ MoveTo(p, "locked")
    /\ UNCHANGED <<file, op, local>>

WaitOn(p) == MoveTo(p, "acquire")
GiveUp(p) == MoveTo(p, "idle")

\* Five seconds pass and another process still holds the lock.
LockTimeout(p) ==
    /\ stage[p] = "acquire"
    /\ lock # NoProc
    /\ GiveUp(p)
    /\ UNCHANGED <<file, lock, op, local>>

\* _read, and the method's decision to write.
Read(p) ==
    /\ stage[p] = "locked"
    /\ local' = [local EXCEPT ![p] = Load(file)]
    /\ MoveTo(p, IF CallWrites(op[p], Load(file)) THEN "write" ELSE "release")
    /\ UNCHANGED <<file, lock, op>>

\* What writing the new document leaves in the cache file itself.
WriteInPlace == file' = Corrupt
WriteAside == UNCHANGED file

\* _write: the document goes to a temporary file.
WriteTemp(p) ==
    /\ stage[p] = "write"
    /\ WriteAside
    /\ MoveTo(p, "replace")
    /\ UNCHANGED <<lock, op, local>>

\* os.replace puts the temporary file in the place of the cache file.
Replace(p) ==
    /\ stage[p] = "replace"
    /\ file' = ApplyCall(op[p], local[p])
    /\ MoveTo(p, "release")
    /\ UNCHANGED <<lock, op, local>>

\* Writing or replacing raises: the temporary file goes, the cache file stays.
WriteFails(p) ==
    /\ stage[p] \in {"write", "replace"}
    /\ MoveTo(p, "release")
    /\ UNCHANGED <<file, lock, op, local>>

Release(p) ==
    /\ stage[p] = "release"
    /\ lock' = IF lock = p THEN NoProc ELSE lock
    /\ MoveTo(p, "idle")
    /\ UNCHANGED <<file, op, local>>

\* The process is killed anywhere: the system frees its lock, and a new process
\* takes its place.
Crash(p) ==
    /\ stage[p] # "idle"
    /\ MoveTo(p, "idle")
    /\ lock' = IF lock = p THEN NoProc ELSE lock
    /\ UNCHANGED <<file, op, local>>

Work(p) ==
    \/ Acquire(p)
    \/ LockTimeout(p)
    \/ Read(p)
    \/ WriteTemp(p)
    \/ Replace(p)
    \/ WriteFails(p)
    \/ Release(p)

CacheNext == \E p \in Procs : (\E o \in Ops : Call(p, o)) \/ Work(p) \/ Crash(p)

CacheSpec == CacheInit /\ [][CacheNext]_cacheVars

\* A process that is not killed keeps running its call.
CacheFairSpec == CacheSpec /\ \A p \in Procs : WF_cacheVars(Work(p))

-----------------------------------------------------------------------------
(* Properties. *)

\* Every call has its effect at once, on the latest complete document: no
\* concurrent update is lost, and no crash tears the file.
Abstract == INSTANCE AtomicCache WITH Apply <- ApplyCall
ImplementsAtomicCache == Abstract!Spec

\* Two processes are never between _read and the end of _write at once, and a
\* document a process is about to replace is the one it read.
OneWriterAtATime ==
    \A p \in Procs :
        /\ stage[p] \in InSection <=> lock = p
        /\ stage[p] \in {"write", "replace"} => local[p] = Load(file)

\* Every call comes to an end, with its effect or with a lock timeout.
CallsEnd == \A p \in Procs : stage[p] = "acquire" ~> stage[p] = "idle"
=============================================================================
