----------------------------- MODULE LoadProofs -----------------------------
(***************************************************************************)
(* Proofs about loading for any number of callers and any set of calls.    *)
(***************************************************************************)
EXTENDS Load, TLAPS

Early == {"start", "truncate", "drop", "create", "stage"}

\* A load that comes from a URL stages nothing and is never cleaned up after.
PathInv ==
    \A l \in Loaders :
        pc[l] \in {"truncate", "drop", "create", "stage", "upload", "unstage", "raised"} =>
            call[l].entry \notin FromUrl

\* Nothing is loaded, and nothing decided, before the copy.
CopyInv ==
    \A l \in Loaders :
        /\ pc[l] \in Early \cup {"upload", "copy"} => copies[l] = 0 /\ outcome[l] = "none"
        /\ pc[l] = "raised" => outcome[l] # "result"

\* The call still has to delete a staging Lakehouse, may keep it, or says that
\* it could not.
LakeInv ==
    \A l \in Loaders :
        /\ pc[l] \in Early => lake[l] = "none"
        /\ lake[l] = "known" =>
              \/ pc[l] \in {"upload", "copy", "unstage"} /\ call[l].entry \notin FromUrl
              \/ call[l].keepStaging
              \/ outcome[l] \in {"unstage_failed", "killed"} /\ pc[l] \in {"raised", "done"}

\* Under if_exists="fail" nobody gets past the check without making the table.
FailInv ==
    \A l \in Loaders :
        call[l].policy = "fail" /\ call[l].entry \notin Direct =>
            /\ pc[l] \notin {"truncate", "drop"}
            /\ pc[l] \in {"stage", "upload", "copy", "unstage", "raised"} => created[l]
            /\ copies[l] > 0 => created[l]

\* Once a caller has made the table, the rows of before are gone for good.
OldInv == (\E l \in Loaders : created[l]) => table.rows[Old] = 0

IInv ==
    /\ TypeOK
    /\ PathInv
    /\ LoadedOnce
    /\ CopyInv
    /\ LakeInv
    /\ FailInv
    /\ OldInv

-----------------------------------------------------------------------------
(* Lemmas about tables. *)

Tables == [exists : BOOLEAN, rows : [Owners -> Nat]]

LEMMA FreshTables ==
    /\ Absent \in Tables /\ Absent.rows = NoRows /\ ~ Absent.exists
    /\ Empty \in Tables /\ Empty.rows = NoRows /\ Empty.exists
    /\ NoRows[Old] = 0
BY DEF Tables, Absent, Empty, NoRows, Owners

LEMMA AddedType ==
    ASSUME NEW t \in Tables, NEW o \in Owners
    PROVE  /\ WithRowsOf(t, o) \in Tables
           /\ WithRowsOf(t, o) = [exists |-> t.exists, rows |-> [t.rows EXCEPT ![o] = @ + 1]]
<1>1. WithRowsOf(t, o) = [exists |-> t.exists, rows |-> [t.rows EXCEPT ![o] = @ + 1]]
    BY DEF WithRowsOf, Tables
<1>. QED
    BY <1>1 DEF Tables

\* Loading adds to the rows of the loader only.
LEMMA AddedRows ==
    ASSUME NEW t \in Tables, NEW l \in Loaders
    PROVE  /\ WithRowsOf(t, l) \in Tables
           /\ WithRowsOf(t, l).exists = t.exists
           /\ WithRowsOf(t, l).rows[Old] = t.rows[Old]
           /\ \A o \in Owners : WithRowsOf(t, l).rows[o] >= t.rows[o]
<1>1. l # Old /\ l \in Owners /\ Old \in Owners
    BY LoadAssumption DEF Owners
<1> DEFINE w == [t.rows EXCEPT ![l] = @ + 1]
<1>2. WithRowsOf(t, l) \in Tables /\ WithRowsOf(t, l) = [exists |-> t.exists, rows |-> w]
    BY <1>1, AddedType
<1>3. t.rows \in [Owners -> Nat]
    BY DEF Tables
<1>4. w[Old] = t.rows[Old] /\ \A o \in Owners : w[o] >= t.rows[o]
    BY <1>1, <1>3
<1> HIDE DEF w
<1>. QED
    BY <1>2, <1>4

\* What each action may do to the table, seen from the rows of before.
TableStep(l) ==
    \/ table' = table
    \/ table' \in {Empty, Absent}
    \/ table.exists /\ table' = Copied(l)

LEMMA TableStepGood ==
    ASSUME NEW l \in Loaders, TypeOK, TableStep(l)
    PROVE  /\ table' \in Tables
           /\ ~ table'.exists => table'.rows = NoRows
           /\ table.rows[Old] = 0 => table'.rows[Old] = 0
<1>1. table \in Tables
    BY DEF TypeOK, Tables
<1>2. CASE table' = table
    BY <1>1, <1>2 DEF TypeOK
<1>3. CASE table' \in {Empty, Absent}
    BY <1>3, FreshTables
<1>4. CASE table.exists /\ table' = Copied(l)
    <2> DEFINE t == IF TruncateFirst(l) THEN Empty ELSE table
    <2>1. t \in Tables /\ t.exists /\ (table.rows[Old] = 0 => t.rows[Old] = 0)
        BY <1>1, <1>4, FreshTables
    <2>2. table' = WithRowsOf(t, l)
        BY <1>4 DEF Copied
    <2>. QED
        BY <2>1, <2>2, AddedRows
<1>. QED
    BY <1>2, <1>3, <1>4 DEF TableStep

-----------------------------------------------------------------------------
(* The steps of one caller: what they leave of the invariant. *)

LEMMA InitIInv == Init => IInv
<1> SUFFICES ASSUME Init PROVE IInv
    OBVIOUS
<1>1. table \in Tables /\ (~ table.exists => table.rows = NoRows)
    <2>1. Old \in Owners
        BY DEF Owners
    <2>. QED
        BY <2>1, FreshTables, AddedType DEF Init
<1>2. TypeOK
    BY <1>1, LoadAssumption DEF Init, TypeOK, Tables
<1>3. LoadedOnce /\ OldInv
    BY DEF Init, LoadedOnce, OldInv
<1>. QED
    BY <1>2, <1>3 DEF Init, IInv, PathInv, CopyInv, LakeInv, FailInv, Early, FromUrl

LEMMA StepTable ==
    ASSUME NEW l \in Loaders, Work(l) \/ Kill(l)
    PROVE  TableStep(l)
BY DEF Work, Kill, CheckExists, StartDirect, Truncate, Drop, CreateTable, PrepareFails,
       Leaves, Stage, StageFails, RetryUpload, Upload, UploadFails, CopyInto, CopyFails,
       BothOrNone, Unstage, UnstageFails, Reraise, CleanUp, TableStep

\* A step moves the caller that takes it and nobody else.
LEMMA OneMoves ==
    ASSUME TypeOK, NEW l \in Loaders, Work(l) \/ Kill(l), NEW k \in Loaders, pc'[k] # pc[k]
    PROVE  l = k
BY DEF TypeOK, Goto, Work, CheckExists, StartDirect, Truncate, Drop, CreateTable, PrepareFails,
       Stage, StageFails, RetryUpload, Upload, UploadFails, RaiseUpload, CopyInto, CopyFails,
       RaiseCopy, Unstage, UnstageFails, AfterLoad, Reraise, CleanUp, Kill

\* Where the if_exists policies lead.
LEMMA Checked ==
    ASSUME NEW c \in Calls, NEW exists
    PROVE  /\ AfterCheck(c, exists) \in {"refused", "copy", "create", "stage", "truncate", "drop"}
           /\ c.entry \in FromUrl => AfterCheck(c, exists) \in {"refused", "copy"}
           /\ c.entry \notin FromUrl => AfterCheck(c, exists) # "copy"
           /\ c.policy = "fail" => AfterCheck(c, exists) \in {"refused", "create"}
<1>1. c.policy \in {"fail", "append", "truncate", "replace"}
    BY LoadAssumption DEF Policies
<1>2. CASE c.policy = "fail"
    BY <1>2 DEF AfterCheck
<1>3. CASE c.policy = "append"
    BY <1>3 DEF AfterCheck
<1>4. CASE c.policy = "truncate"
    BY <1>4 DEF AfterCheck
<1>5. CASE c.policy = "replace"
    BY <1>5 DEF AfterCheck
<1>. QED
    BY <1>1, <1>2, <1>3, <1>4, <1>5

\* The type invariant but for the table.
LEMMA StepType ==
    ASSUME NEW l \in Loaders, TypeOK, Work(l) \/ Kill(l)
    PROVE  TypeOK'
<1>1. /\ table' \in [exists : BOOLEAN, rows : [Owners -> Nat]]
      /\ ~ table'.exists => table'.rows = NoRows
    BY StepTable, TableStepGood DEF Tables
<1> USE LoadAssumption DEF TypeOK, Goto, Ends, CountTry, TriesLeft
<1>2. CASE CheckExists(l)
    <2> DEFINE next == AfterCheck(call[l], table.exists)
    <2>1. next \in {"refused", "copy", "create", "stage", "truncate", "drop"}
        BY Checked
    <2> HIDE DEF next
    <2>2. CASE next = "refused"
        BY <1>1, <1>2, <2>2 DEF CheckExists, next
    <2>3. CASE next # "refused"
        BY <1>1, <1>2, <2>1, <2>3 DEF CheckExists, next
    <2>. QED
        BY <2>2, <2>3
<1>3. CASE StartDirect(l)
    BY <1>1, <1>3 DEF StartDirect
<1>4. CASE Truncate(l) \/ Drop(l) \/ CreateTable(l) \/ PrepareFails(l)
    BY <1>1, <1>4 DEF Truncate, Drop, CreateTable, PrepareFails
<1>5. CASE Stage(l) \/ StageFails(l)
    <2>1. CASE Stage(l)
        BY <1>1, <2>1 DEF Stage
    <2>2. CASE StageFails(l)
        BY <1>1, <2>2 DEF StageFails
    <2>. QED
        BY <1>5, <2>1, <2>2
<1>6. CASE RetryUpload(l) \/ Upload(l) \/ UploadFails(l)
    BY <1>1, <1>6 DEF RetryUpload, Upload, UploadFails, RaiseUpload
<1>7. CASE CopyInto(l)
    BY <1>1, <1>7 DEF CopyInto, AfterCopy
<1>8. CASE CopyFails(l)
    BY <1>1, <1>8 DEF CopyFails, BothOrNone, RaiseCopy, AfterCopy
<1>9. CASE Unstage(l) \/ UnstageFails(l)
    <2>1. CASE Unstage(l)
        BY <1>1, <2>1 DEF Unstage, AfterLoad
    <2>2. CASE UnstageFails(l)
        BY <1>1, <2>2 DEF UnstageFails, AfterLoad
    <2>. QED
        BY <1>9, <2>1, <2>2
<1>10. CASE Reraise(l) \/ CleanUp(l) \/ Kill(l)
    BY <1>1, <1>10 DEF Reraise, CleanUp, Kill
<1>. QED
    BY <1>2, <1>3, <1>4, <1>5, <1>6, <1>7, <1>8, <1>9, <1>10 DEF Work

\* The parts of the invariant that speak of each caller by itself.
CallerInv == PathInv /\ LoadedOnce /\ CopyInv /\ LakeInv /\ FailInv

LEMMA StepCaller ==
    ASSUME NEW l \in Loaders, TypeOK, CallerInv, Work(l) \/ Kill(l)
    PROVE  CallerInv'
<1> USE LoadAssumption DEF TypeOK, CallerInv, PathInv, LoadedOnce, CopyInv, LakeInv, FailInv,
                           Early, Goto, Ends
<1>1. CASE CheckExists(l)
    <2> DEFINE next == AfterCheck(call[l], table.exists)
    <2>1. /\ next \in {"refused", "copy", "create", "stage", "truncate", "drop"}
          /\ call[l].entry \in FromUrl => next \in {"refused", "copy"}
          /\ call[l].entry \notin FromUrl => next # "copy"
          /\ call[l].policy = "fail" => next \in {"refused", "create"}
        BY Checked
    <2> HIDE DEF next
    <2>2. CASE next = "refused"
        BY <1>1, <2>2 DEF CheckExists, next
    <2>3. CASE next # "refused"
        BY <1>1, <2>1, <2>3 DEF CheckExists, next
    <2>. QED
        BY <2>2, <2>3
<1>2. CASE StartDirect(l)
    BY <1>2 DEF StartDirect
<1>3. CASE Truncate(l)
    BY <1>3 DEF Truncate
<1>4. CASE Drop(l)
    BY <1>4 DEF Drop
<1>5. CASE CreateTable(l)
    BY <1>5 DEF CreateTable
<1>6. CASE PrepareFails(l)
    BY <1>6 DEF PrepareFails
<1>7. CASE Stage(l)
    BY <1>7 DEF Stage
<1>8. CASE StageFails(l)
    BY <1>8 DEF StageFails
<1>9. CASE RetryUpload(l)
    BY <1>9 DEF RetryUpload
<1>10. CASE Upload(l)
    BY <1>10 DEF Upload
<1>11. CASE UploadFails(l)
    BY <1>11 DEF UploadFails, RaiseUpload
<1>12. CASE CopyInto(l)
    BY <1>12 DEF CopyInto, AfterCopy
<1>13. CASE CopyFails(l)
    BY <1>13 DEF CopyFails, BothOrNone, RaiseCopy, AfterCopy
<1>14. CASE Unstage(l)
    BY <1>14 DEF Unstage, AfterLoad, KeepStaging
<1>15. CASE UnstageFails(l)
    BY <1>15 DEF UnstageFails, AfterLoad
<1>16. CASE Reraise(l)
    BY <1>16 DEF Reraise
<1>17. CASE CleanUp(l)
    BY <1>17 DEF CleanUp
<1>18. CASE Kill(l)
    BY <1>18 DEF Kill
<1>. QED
    BY <1>1, <1>2, <1>3, <1>4, <1>5, <1>6, <1>7, <1>8, <1>9, <1>10, <1>11, <1>12, <1>13,
       <1>14, <1>15, <1>16, <1>17, <1>18 DEF Work

\* Whoever makes the table makes it empty.
LEMMA StepOld ==
    ASSUME NEW l \in Loaders, TypeOK, OldInv, Work(l) \/ Kill(l)
    PROVE  OldInv'
<1>1. table.rows[Old] = 0 => table'.rows[Old] = 0
    BY StepTable, TableStepGood
<1>2. CASE CreateTable(l)
    BY <1>2, FreshTables DEF CreateTable, OldInv
<1>3. CASE ~ CreateTable(l)
    <2>1. created' = created
        BY <1>3 DEF Work, CheckExists, StartDirect, Truncate, Drop, PrepareFails, Stage,
                    StageFails, RetryUpload, Upload, UploadFails, CopyInto, CopyFails, Unstage,
                    UnstageFails, Reraise, CleanUp, Kill
    <2>. QED
        BY <1>1, <2>1 DEF OldInv
<1>. QED
    BY <1>2, <1>3

LEMMA NextIInv == IInv /\ [Next]_vars => IInv'
<1> SUFFICES ASSUME IInv, [Next]_vars PROVE IInv'
    OBVIOUS
<1>1. CASE UNCHANGED vars
    BY <1>1 DEF vars, IInv, TypeOK, PathInv, LoadedOnce, CopyInv, LakeInv, FailInv, OldInv
<1>2. CASE Next
    <2>1. PICK l \in Loaders : Work(l) \/ Kill(l)
        BY <1>2 DEF Next
    <2>. QED
        BY <2>1, StepType, StepCaller, StepOld DEF IInv, CallerInv
<1>. QED
    BY <1>1, <1>2

LEMMA Invariance == Spec => []IInv
<1>. QED
    BY InitIInv, NextIInv, PTL DEF Spec

-----------------------------------------------------------------------------
(* The theorems. *)

\* Every variable stays in its set for any number of callers, and the DFS
\* create is tried at most CreateRetries times.
THEOREM LoadTypeCorrect == Spec => []TypeOK
<1>1. IInv => TypeOK
    BY DEF IInv
<1>. QED
    BY <1>1, Invariance, PTL

\* No failure, retry or concurrent caller makes a call load its rows twice, and
\* what it reports agrees with what it loaded.
THEOREM LoadedOnceCorrect == Spec => []LoadedOnce
<1>1. IInv => LoadedOnce
    BY DEF IInv
<1>. QED
    BY <1>1, Invariance, PTL

\* Whatever fails, a call that returns leaves no staging Lakehouse it knows of,
\* unless it was told to or says so.
THEOREM StagingCorrect == Spec => []StagingRemoved
<1>1. IInv => StagingRemoved
    BY DEF IInv, LakeInv, StagingRemoved
<1>. QED
    BY <1>1, Invariance, PTL

\* if_exists="fail" is kept by the entry points that look at the table first,
\* whatever other callers, direct ones among them, do between the check and
\* the load.
THEOREM FailPolicyCorrect == Spec => []FailPolicyNeedsNewTable
<1>1. IInv => FailPolicyNeedsNewTable
    BY DEF IInv, FailInv, FailPolicyNeedsNewTable
<1>. QED
    BY <1>1, Invariance, PTL

\* TRUNCATE and COPY INTO of a URL load take effect together: rows disappear
\* only when the call's own rows appear.
THEOREM FailedUrlLoadCorrect == Spec => FailedUrlLoadKeepsRows
<1>1. IInv /\ [Next]_vars => [UrlLoadKeepsRows]_vars
    <2> SUFFICES ASSUME IInv, Next PROVE UrlLoadKeepsRows
        OBVIOUS
    <2> SUFFICES ASSUME NEW k \in Loaders, call[k].entry \in FromUrl, pc'[k] # pc[k],
                        NEW o \in Owners, table'.rows[o] < table.rows[o]
                 PROVE  copies'[k] > copies[k]
        BY DEF UrlLoadKeepsRows
    <2>1. PICK l \in Loaders : Work(l) \/ Kill(l)
        BY DEF Next
    <2>2. l = k
        BY <2>1, OneMoves DEF IInv
    <2>3. table' # table
        <3>1. table.rows[o] \in Nat
            BY DEF IInv, TypeOK
        <3>. QED
            BY <3>1
    <2>4. CopyInto(k) \/ CopyFails(k)
        BY <2>1, <2>2, <2>3 DEF IInv, PathInv, Work, CheckExists, StartDirect, Truncate, Drop,
                    CreateTable, PrepareFails, Stage, StageFails, RetryUpload, Upload,
                    UploadFails, Unstage, UnstageFails, Reraise, CleanUp, Kill
    <2>. QED
        BY <2>3, <2>4 DEF IInv, TypeOK, CopyInto, CopyFails, BothOrNone
<1>. QED
    BY <1>1, Invariance, PTL DEF Spec, FailedUrlLoadKeepsRows

\* The cleanup only ever runs when the rows of before are gone already: a table
\* that was there is never lost to it.
THEOREM CleanupCorrect == Spec => CleanupSparesOldRows
<1> DEFINE SparesOld == \A l \in Loaders : CleanupSparesRowsOf(l, Old)
<1>1. IInv /\ [Next]_vars => [SparesOld]_vars
    <2> SUFFICES ASSUME IInv, Next, NEW k \in Loaders, pc[k] = "raised", pc'[k] = "done"
                 PROVE  table'.rows[Old] >= table.rows[Old]
        BY DEF CleanupSparesRowsOf
    <2>1. PICK l \in Loaders : Work(l) \/ Kill(l)
        BY DEF Next
    <2>2. l = k
        BY <2>1, OneMoves DEF IInv
    <2>3. table.rows[Old] \in Nat
        BY DEF IInv, TypeOK, Owners
    <2>4. CASE CleanUp(k)
        <3>1. table' \in {table, Absent} /\ created[k]
            BY <2>4 DEF CleanUp, Leaves, MustCleanUp
        <3>2. table.rows[Old] = 0
            BY <3>1 DEF IInv, OldInv
        <3>. QED
            BY <2>3, <3>1, <3>2, FreshTables
    <2>5. CASE ~ CleanUp(k)
        <3>1. table' = table
            BY <2>1, <2>2, <2>5 DEF Work, CheckExists, StartDirect, Truncate, Drop, CreateTable,
                    PrepareFails, Stage, StageFails, RetryUpload, Upload, UploadFails, CopyInto,
                    CopyFails, Unstage, UnstageFails, Reraise, Kill
        <3>. QED
            BY <2>3, <3>1
    <2>. QED
        BY <2>4, <2>5
<1>. QED
    BY <1>1, Invariance, PTL DEF Spec, CleanupSparesOldRows
=============================================================================
