---------------------------- MODULE SettingsProofs ----------------------------
(***************************************************************************)
(* Proofs that read-modify-write of the audit settings brings nothing up   *)
(* that no call asked for, and that the pools stay valid, for any number   *)
(* of callers, any requests, any lag of the reads and any lost updates.    *)
(***************************************************************************)
EXTENDS Settings, FiniteSetTheorems, TLAPS

\* A document that may be about: with its fields, and with nothing unasked.
Good(doc) ==
    /\ DOMAIN doc = {"state", "retention", "groups"}
    /\ doc.state \in {"Enabled", "Disabled"}
    /\ Asked(doc)

\* Every version that a read can return is good, and so is what is about to be
\* sent, however old the version it was made from.
IInv ==
    /\ request \in [Callers -> AuditRequests] \cup [Callers -> PoolRequests]
    /\ DOMAIN pc = Callers /\ DOMAIN body = Callers
    /\ Good(audit)
    /\ \A doc \in auditSeen : Good(doc)
    /\ \A c \in Callers : pc[c] = "patch" /\ IsAudit(request[c]) => Good(body[c])

\* The pool functions are no audit functions.
PoolRequestsAreOthers == \A r \in PoolRequests : ~ IsAudit(r)

LEMMA FirstIsGood ==
    ASSUME first \in Audits
    PROVE  Good(first)
BY SettingsAssumption DEF Good, Asked

\* The heart of it: from a good document a call makes a good one.
LEMMA BodyIsGood ==
    ASSUME PoolRequestsAreOthers, IInv, NEW c \in Callers, IsAudit(request[c]),
           NEW doc, Good(doc), ~ AuditUnchanged(request[c], doc)
    PROVE  Good(AuditBody(request[c], doc))
<1> DEFINE r == request[c]
           sent == AuditBody(r, doc)
<1>1. r \in AuditRequests
    BY DEF IInv, PoolRequestsAreOthers
<1>2. /\ "days" \in DOMAIN r => r.days \in AskedDays
      /\ "groups" \in DOMAIN r => r.groups \subseteq AskedGroups
      /\ "group" \in DOMAIN r => r.group \in AskedGroups
    BY DEF AskedDays, AskedGroups
<1>3. MaySwitchOn(r) => \E d \in Callers : MaySwitchOn(request[d])
    OBVIOUS
<1>4. r.op = "audit_disable" => \E d \in Callers : request[d].op = "audit_disable"
    OBVIOUS
<1>11. Good(sent) => Good(AuditBody(request[c], doc))
    OBVIOUS
<1> HIDE DEF r
<1>5. ASSUME r.op = "audit_enable" PROVE Good(sent)
    <2>1. sent = [state |-> "Enabled", retention |-> r.days, groups |-> doc.groups]
        BY <1>5 DEF AuditBody
    <2>2. r.days \in AskedDays /\ MaySwitchOn(r)
        BY <1>1, <1>2, <1>5, SettingsAssumption DEF MaySwitchOn
    <2> HIDE DEF sent
    <2>. QED
        BY <1>3, <2>1, <2>2 DEF Good, Asked
<1>6. ASSUME r.op = "audit_disable" PROVE Good(sent)
    <2>1. sent = [doc EXCEPT !.state = "Disabled"]
        BY <1>6 DEF AuditBody
    <2> HIDE DEF sent
    <2>. QED
        BY <1>4, <1>6, <2>1 DEF Good, Asked
<1>7. ASSUME r.op = "set_retention" PROVE Good(sent)
    <2>1. sent = [doc EXCEPT !.retention = r.days]
        BY <1>7 DEF AuditBody
    <2>2. r.days \in AskedDays
        BY <1>1, <1>2, <1>7, SettingsAssumption
    <2> HIDE DEF sent
    <2>. QED
        BY <2>1, <2>2 DEF Good, Asked
<1>8. ASSUME r.op = "set_action_groups" PROVE Good(sent)
    <2>1. sent = [state |-> GroupsState(r, doc), retention |-> doc.retention,
                  groups |-> r.groups]
        BY <1>8 DEF AuditBody, SentRetention
    <2>2. r.groups \subseteq AskedGroups
        BY <1>1, <1>2, <1>8, SettingsAssumption
    <2>3. GroupsState(r, doc) = doc.state \/ (GroupsState(r, doc) = "Enabled" /\ MaySwitchOn(r))
        BY <1>8 DEF GroupsState, MaySwitchOn
    <2> HIDE DEF sent
    <2>. QED
        BY <1>3, <2>1, <2>2, <2>3 DEF Good, Asked
<1>9. ASSUME r.op = "add_action_group" PROVE Good(sent)
    <2>1. sent = [doc EXCEPT !.groups = @ \cup {r.group}]
        BY <1>9 DEF AuditBody
    <2>2. r.group \in AskedGroups
        BY <1>1, <1>2, <1>9, SettingsAssumption
    <2> HIDE DEF sent
    <2>. QED
        BY <2>1, <2>2 DEF Good, Asked
<1>10. ASSUME r.op = "remove_action_group" PROVE Good(sent)
    <2>1. sent = [doc EXCEPT !.groups = @ \ {r.group}]
        BY <1>10 DEF AuditBody
    <2> HIDE DEF sent
    <2>. QED
        BY <2>1 DEF Good, Asked
<1>. QED
    BY <1>11, <1>5, <1>6, <1>7, <1>8, <1>9, <1>10 DEF IsAudit, AuditUnchanged, r

LEMMA InitIInv == Init => IInv
BY FirstIsGood DEF Init, IInv

LEMMA StepIInv ==
    ASSUME PoolRequestsAreOthers, IInv, [Next]_vars
    PROVE  IInv'
<1>0. first' = first /\ request' = request
    BY DEF Next, vars, unchanging, ReadAudit, ReadPools, Patch, PatchFails, Reread, Settle
<1>1. \A doc : Good(doc)' <=> Good(doc)
    BY <1>0 DEF Good, Asked, AskedDays, AskedGroups
<1>2. CASE UNCHANGED vars
    BY <1>0, <1>1, <1>2 DEF vars, IInv
<1>3. ASSUME NEW c \in Callers, ReadAudit(c) PROVE IInv'
    <2>1. ASSUME pc'[c] = "patch" PROVE Good(body'[c])
        <3>1. PICK doc \in auditSeen :
                  ~ AuditUnchanged(request[c], doc) /\ body'[c] = AuditBody(request[c], doc)
            BY <1>3, <2>1 DEF ReadAudit, Decide, Goto, Return, Raise, IInv
        <3>. QED
            BY <1>3, <3>1, BodyIsGood DEF ReadAudit, IInv
    <2>2. /\ UNCHANGED <<audit, auditSeen>>
          /\ DOMAIN pc' = Callers /\ DOMAIN body' = Callers
          /\ \A d \in Callers \ {c} : pc'[d] = pc[d] /\ body'[d] = body[d]
        BY <1>3 DEF ReadAudit, Decide, Goto, Return, Raise, IInv, service
    <2>. QED
        BY <1>0, <1>1, <2>1, <2>2 DEF IInv
<1>4. ASSUME NEW c \in Callers, ReadPools(c) PROVE IInv'
    <2>1. /\ UNCHANGED <<audit, auditSeen>> /\ ~ IsAudit(request[c])
          /\ DOMAIN pc' = Callers /\ DOMAIN body' = Callers
          /\ \A d \in Callers \ {c} : pc'[d] = pc[d] /\ body'[d] = body[d]
        BY <1>4 DEF ReadPools, Decide, Goto, Return, Raise, IInv, service
    <2>. QED
        BY <1>0, <1>1, <2>1 DEF IInv
<1>5. ASSUME NEW c \in Callers, Patch(c) \/ PatchFails(c) PROVE IInv'
    <2>1. /\ pc[c] = "patch" /\ UNCHANGED body
          /\ \/ UNCHANGED <<audit, auditSeen>>
             \/ /\ IsAudit(request[c])
                /\ audit' = body[c] /\ auditSeen' = auditSeen \cup {body[c]}
        BY <1>5 DEF Patch, PatchFails, Stores, service
    <2>2. /\ DOMAIN pc' = Callers /\ pc'[c] # "patch"
          /\ \A d \in Callers \ {c} : pc'[d] = pc[d]
        BY <1>5 DEF Patch, PatchFails, Goto, Return, Raise, IInv
    <2>. QED
        BY <1>0, <1>1, <2>1, <2>2 DEF IInv
<1>6. ASSUME NEW c \in Callers, Reread(c) PROVE IInv'
    <2>1. /\ UNCHANGED <<audit, auditSeen, body>>
          /\ DOMAIN pc' = Callers /\ pc'[c] # "patch"
          /\ \A d \in Callers \ {c} : pc'[d] = pc[d]
        BY <1>6 DEF Reread, Goto, Return, Raise, IInv, service
    <2>. QED
        BY <1>0, <1>1, <2>1 DEF IInv
<1>7. CASE Settle
    BY <1>0, <1>1, <1>7 DEF Settle, IInv
<1>. QED
    BY <1>2, <1>3, <1>4, <1>5, <1>6, <1>7 DEF Next

\* Stale reads, lost answers and lost updates bring up no state, retention or
\* group of the audit that no call has asked for.
THEOREM NothingUnaskedCorrect ==
    ASSUME PoolRequestsAreOthers
    PROVE  Spec => []NothingUnasked
<1>1. IInv /\ [Next]_vars => IInv'
    BY StepIInv
<1>2. IInv => NothingUnasked
    BY DEF IInv, Good, NothingUnasked
<1>. QED
    BY InitIInv, <1>1, <1>2, PTL DEF Spec

-----------------------------------------------------------------------------
(* The pools. *)

PoolFields == {"name", "share", "default"}

\* A pool configuration as the service should hold it.
Sound(doc) ==
    /\ DOMAIN doc = {"state", "pools"}
    /\ IsFiniteSet(doc.pools)
    /\ \A p \in doc.pools : DOMAIN p = PoolFields
    /\ Total(doc.pools) <= 100
    /\ \A p, q \in doc.pools : p.default /\ q.default => p = q
    /\ \A p, q \in doc.pools : p.name = q.name => p = q

\* What the service holds is sound, and so is what is about to be sent, however
\* many updates have been made since it was read.
PoolInv ==
    /\ request \in [Callers -> AuditRequests] \cup [Callers -> PoolRequests]
    /\ DOMAIN pc = Callers /\ DOMAIN body = Callers
    /\ Sound(pools)
    /\ \A c \in Callers : pc[c] = "patch" /\ ~ IsAudit(request[c]) => Sound(body[c])

\* The functions of sql_pools.py, with a whole pool for create_pool.
PoolRequestsFit ==
    /\ \A r \in AuditRequests : IsAudit(r)
    /\ \A r \in PoolRequests :
         /\ r.op \in {"pools_get", "pools_enable", "pools_disable", "create_pool",
                      "update_pool", "delete_pool"}
         /\ r.op = "create_pool" => DOMAIN r.pool = PoolFields

LEMMA AtMostOne ==
    ASSUME NEW S, IsFiniteSet(S), Cardinality(S) <= 1, NEW p \in S, NEW q \in S
    PROVE  p = q
<1>1. Cardinality(S) \in Nat /\ Cardinality(S) # 0
    BY FS_CardinalityType, FS_EmptySet
<1>2. Cardinality(S) = 1
    BY <1>1
<1>. QED
    BY <1>2, FS_Singleton

\* What an update leaves of one pool: its name.
LEMMA UpdatedPool ==
    ASSUME NEW p, DOMAIN p = PoolFields, NEW r
    PROVE  DOMAIN Updated(p, r) = PoolFields /\ Updated(p, r).name = p.name
BY DEF PoolFields, Updated

\* From a sound configuration a call that passes the checks makes a sound one.
LEMMA PoolBodyIsSound ==
    ASSUME PoolRequestsFit, NEW r \in PoolRequests, NEW doc, Sound(doc),
           ~ PoolRefuses(r, doc), ~ PoolUnchanged(r, doc), Valid(PoolBody(r, doc))
    PROVE  Sound(PoolBody(r, doc))
<1> DEFINE sent == PoolBody(r, doc)
<1>1. SUFFICES /\ DOMAIN sent = {"state", "pools"}
               /\ IsFiniteSet(sent.pools)
               /\ \A p \in sent.pools : DOMAIN p = PoolFields
               /\ \A p, q \in sent.pools : p.name = q.name => p = q
    <2>1. ASSUME IsFiniteSet(sent.pools), NEW p \in sent.pools, NEW q \in sent.pools,
                 p.default, q.default
          PROVE  p = q
        <3> DEFINE defaults == {x \in sent.pools : x.default}
        <3>1. IsFiniteSet(defaults)
            BY <2>1, FS_Subset
        <3>2. Cardinality(defaults) <= 1
            BY DEF Valid
        <3>. QED
            BY <2>1, <3>1, <3>2, AtMostOne
    <2>. QED
        BY <2>1 DEF Sound, Valid
<1>2. CASE r.op \in {"pools_enable", "pools_disable"}
    <2>1. DOMAIN sent = {"state", "pools"} /\ sent.pools = doc.pools
        BY <1>2 DEF PoolBody, Sound
    <2>. QED
        BY <2>1 DEF Sound
<1>3. CASE r.op = "create_pool"
    <2>1. DOMAIN sent = {"state", "pools"} /\ sent.pools = doc.pools \cup {r.pool}
        BY <1>3 DEF PoolBody, Sound
    <2>2. \A p \in doc.pools : p.name # r.pool.name
        BY <1>3 DEF PoolRefuses, Named
    <2>3. DOMAIN r.pool = PoolFields
        BY <1>3 DEF PoolRequestsFit
    <2>4. IsFiniteSet(sent.pools)
        BY <2>1, FS_AddElement DEF Sound
    <2>. QED
        BY <2>1, <2>2, <2>3, <2>4 DEF Sound
<1>4. CASE r.op = "update_pool"
    <2>1. PICK old \in doc.pools : old.name = r.name
        BY <1>4 DEF PoolRefuses, Named
    <2>2. Named(doc, r.name) = {old}
        BY <2>1 DEF Named, Sound
    <2>3. /\ DOMAIN sent = {"state", "pools"}
          /\ sent.pools = (doc.pools \ {old}) \cup {Updated(old, r)}
        BY <1>4, <2>2 DEF PoolBody, Sound
    <2>4. DOMAIN Updated(old, r) = PoolFields /\ Updated(old, r).name = old.name
        BY UpdatedPool DEF Sound
    <2>5. IsFiniteSet(sent.pools)
        <3>1. IsFiniteSet(doc.pools \ {old})
            BY FS_RemoveElement DEF Sound
        <3>. QED
            BY <2>3, <3>1, FS_AddElement
    <2>. QED
        BY <2>1, <2>3, <2>4, <2>5 DEF Sound
<1>5. CASE r.op = "delete_pool"
    <2>1. DOMAIN sent = {"state", "pools"} /\ sent.pools \subseteq doc.pools
        BY <1>5 DEF PoolBody, Sound, Named
    <2>2. IsFiniteSet(sent.pools)
        BY <2>1, FS_Subset DEF Sound
    <2>. QED
        BY <2>1, <2>2 DEF Sound
<1>. QED
    BY <1>2, <1>3, <1>4, <1>5 DEF PoolRequestsFit, PoolUnchanged

LEMMA StepPoolInv ==
    ASSUME PoolRequestsFit, PoolInv, [Next]_vars
    PROVE  PoolInv'
<1>0. request' = request
    BY DEF Next, vars, unchanging, ReadAudit, ReadPools, Patch, PatchFails, Reread, Settle
<1>2. CASE UNCHANGED vars
    BY <1>2 DEF vars, PoolInv
<1>3. ASSUME NEW c \in Callers, ReadPools(c) PROVE PoolInv'
    <2>1. request[c] \in PoolRequests
        BY <1>3 DEF ReadPools, PoolInv, PoolRequestsFit
    <2>2. ASSUME pc'[c] = "patch" PROVE Sound(body'[c])
        <3>1. /\ ~ PoolRefuses(request[c], pools) /\ ~ PoolUnchanged(request[c], pools)
              /\ Valid(PoolBody(request[c], pools))
              /\ body'[c] = PoolBody(request[c], pools)
            BY <1>3, <2>2 DEF ReadPools, Decide, Goto, Return, Raise, PoolInv
        <3>. QED
            BY <2>1, <3>1, PoolBodyIsSound DEF PoolInv
    <2>3. /\ UNCHANGED pools
          /\ DOMAIN pc' = Callers /\ DOMAIN body' = Callers
          /\ \A d \in Callers \ {c} : pc'[d] = pc[d] /\ body'[d] = body[d]
        BY <1>3 DEF ReadPools, Decide, Goto, Return, Raise, PoolInv, service
    <2>. QED
        BY <1>0, <2>2, <2>3 DEF PoolInv
<1>4. ASSUME NEW c \in Callers, ReadAudit(c) PROVE PoolInv'
    <2>1. /\ UNCHANGED pools /\ IsAudit(request[c])
          /\ DOMAIN pc' = Callers /\ DOMAIN body' = Callers
          /\ \A d \in Callers \ {c} : pc'[d] = pc[d] /\ body'[d] = body[d]
        BY <1>4 DEF ReadAudit, Decide, Goto, Return, Raise, PoolInv, service
    <2>. QED
        BY <1>0, <2>1 DEF PoolInv
<1>5. ASSUME NEW c \in Callers, Patch(c) \/ PatchFails(c) PROVE PoolInv'
    <2>1. /\ pc[c] = "patch" /\ UNCHANGED body
          /\ UNCHANGED pools \/ (~ IsAudit(request[c]) /\ pools' = body[c])
        BY <1>5 DEF Patch, PatchFails, Stores, service
    <2>2. /\ DOMAIN pc' = Callers /\ pc'[c] # "patch"
          /\ \A d \in Callers \ {c} : pc'[d] = pc[d]
        BY <1>5 DEF Patch, PatchFails, Goto, Return, Raise, PoolInv
    <2>. QED
        BY <1>0, <2>1, <2>2 DEF PoolInv
<1>6. ASSUME NEW c \in Callers, Reread(c) PROVE PoolInv'
    <2>1. /\ UNCHANGED <<pools, body>>
          /\ DOMAIN pc' = Callers /\ pc'[c] # "patch"
          /\ \A d \in Callers \ {c} : pc'[d] = pc[d]
        BY <1>6 DEF Reread, Goto, Return, Raise, PoolInv, service
    <2>. QED
        BY <1>0, <2>1 DEF PoolInv
<1>7. CASE Settle
    BY <1>0, <1>7 DEF Settle, PoolInv
<1>. QED
    BY <1>2, <1>3, <1>4, <1>5, <1>6, <1>7 DEF Next

\* Pools that are valid at first stay so: within 100 percent, with one default
\* and one name each, whichever calls of sql_pools.py overwrite each other.
THEOREM PoolsValidCorrect ==
    ASSUME PoolRequestsFit, \A doc \in PoolConfigs : Sound(doc)
    PROVE  Spec => []PoolsStayValid
<1>1. Init => PoolInv
    BY DEF Init, PoolInv
<1>2. PoolInv /\ [Next]_vars => PoolInv'
    BY StepPoolInv
<1>3. PoolInv => PoolsStayValid
    BY DEF PoolInv, Sound, PoolsStayValid
<1>. QED
    BY <1>1, <1>2, <1>3, PTL DEF Spec

-----------------------------------------------------------------------------
(* What a fresh write keeps. *)

\* The names of the pools a request may remove or change are its own.
PoolRequestsNamed ==
    \A r \in PoolRequests :
        r.op \in {"update_pool", "delete_pool"} => "name" \in DOMAIN r /\ "pool" \notin DOMAIN r

\* What is about to be sent was made from what was read, with all its fields.
BodyInv ==
    /\ DOMAIN pc = Callers /\ DOMAIN body = Callers /\ DOMAIN current = Callers
    /\ \A c \in Callers : pc[c] = "patch" =>
         IF IsAudit(request[c])
         THEN /\ DOMAIN current[c] = {"state", "retention", "groups"}
              /\ body[c] = AuditBody(request[c], current[c])
              /\ ~ AuditUnchanged(request[c], current[c])
         ELSE /\ DOMAIN current[c] = {"state", "pools"}
              /\ body[c] = PoolBody(request[c], current[c])
              /\ ~ PoolUnchanged(request[c], current[c])

LEMMA StepBodyInv ==
    ASSUME IInv, PoolInv, BodyInv, [Next]_vars
    PROVE  BodyInv'
<1>0. request' = request
    BY DEF Next, vars, unchanging, ReadAudit, ReadPools, Patch, PatchFails, Reread, Settle
<1>1. CASE UNCHANGED vars
    BY <1>1 DEF vars, BodyInv
<1>2. ASSUME NEW c \in Callers, ReadAudit(c) PROVE BodyInv'
    <2>1. ASSUME pc'[c] = "patch"
          PROVE  /\ IsAudit(request[c])
                 /\ DOMAIN current'[c] = {"state", "retention", "groups"}
                 /\ body'[c] = AuditBody(request[c], current'[c])
                 /\ ~ AuditUnchanged(request[c], current'[c])
        <3>1. PICK doc \in auditSeen :
                  /\ ~ AuditUnchanged(request[c], doc)
                  /\ current'[c] = doc /\ body'[c] = AuditBody(request[c], doc)
            BY <1>2, <2>1 DEF ReadAudit, Decide, Goto, Return, Raise, BodyInv
        <3>. QED
            BY <1>2, <3>1 DEF ReadAudit, IInv, Good
    <2>2. /\ DOMAIN pc' = Callers /\ DOMAIN body' = Callers /\ DOMAIN current' = Callers
          /\ \A d \in Callers \ {c} :
               pc'[d] = pc[d] /\ body'[d] = body[d] /\ current'[d] = current[d]
        BY <1>2 DEF ReadAudit, Decide, Goto, Return, Raise, BodyInv
    <2>. QED
        BY <1>0, <2>1, <2>2 DEF BodyInv
<1>3. ASSUME NEW c \in Callers, ReadPools(c) PROVE BodyInv'
    <2>1. ASSUME pc'[c] = "patch"
          PROVE  /\ ~ IsAudit(request[c])
                 /\ DOMAIN current'[c] = {"state", "pools"}
                 /\ body'[c] = PoolBody(request[c], current'[c])
                 /\ ~ PoolUnchanged(request[c], current'[c])
        <3>1. /\ ~ PoolUnchanged(request[c], pools)
              /\ current'[c] = pools /\ body'[c] = PoolBody(request[c], pools)
            BY <1>3, <2>1 DEF ReadPools, Decide, Goto, Return, Raise, BodyInv
        <3>. QED
            BY <1>3, <3>1 DEF ReadPools, PoolInv, Sound
    <2>2. /\ DOMAIN pc' = Callers /\ DOMAIN body' = Callers /\ DOMAIN current' = Callers
          /\ \A d \in Callers \ {c} :
               pc'[d] = pc[d] /\ body'[d] = body[d] /\ current'[d] = current[d]
        BY <1>3 DEF ReadPools, Decide, Goto, Return, Raise, BodyInv
    <2>. QED
        BY <1>0, <2>1, <2>2 DEF BodyInv
<1>4. ASSUME NEW c \in Callers, Patch(c) \/ PatchFails(c) \/ Reread(c) PROVE BodyInv'
    <2>1. /\ UNCHANGED <<body, current>>
          /\ DOMAIN pc' = Callers /\ pc'[c] # "patch"
          /\ \A d \in Callers \ {c} : pc'[d] = pc[d]
        BY <1>4 DEF Patch, PatchFails, Reread, Goto, Return, Raise, BodyInv
    <2>. QED
        BY <1>0, <2>1 DEF BodyInv
<1>5. CASE Settle
    BY <1>0, <1>5 DEF Settle, BodyInv
<1>. QED
    BY <1>1, <1>2, <1>3, <1>4, <1>5 DEF Next

\* The fields of the audit that a function does not name.
LEMMA AuditBodyKeeps ==
    ASSUME NEW r \in AuditRequests, IsAudit(r), ~ AuditUnchanged(r, audit),
           DOMAIN audit = {"state", "retention", "groups"}
    PROVE  /\ "days" \notin DOMAIN r => AuditBody(r, audit).retention = audit.retention
           /\ r.op \in {"set_retention", "add_action_group", "remove_action_group"}
                  => AuditBody(r, audit).state = audit.state
           /\ r.op \in {"audit_enable", "audit_disable", "set_retention"}
                  => AuditBody(r, audit).groups = audit.groups
<1> DEFINE sent == AuditBody(r, audit)
<1>1. CASE r.op = "audit_enable"
    <2>1. "days" \in DOMAIN r /\ sent.groups = audit.groups
        BY <1>1, SettingsAssumption DEF AuditBody
    <2>. QED
        BY <1>1, <2>1
<1>2. CASE r.op = "audit_disable"
    <2>1. sent.retention = audit.retention /\ sent.groups = audit.groups
        BY <1>2 DEF AuditBody
    <2>. QED
        BY <1>2, <2>1
<1>3. CASE r.op = "set_retention"
    <2>1. "days" \in DOMAIN r /\ sent.state = audit.state /\ sent.groups = audit.groups
        BY <1>3, SettingsAssumption DEF AuditBody
    <2>. QED
        BY <1>3, <2>1
<1>4. CASE r.op = "set_action_groups"
    <2>1. sent.retention = audit.retention
        BY <1>4 DEF AuditBody, SentRetention
    <2>. QED
        BY <1>4, <2>1
<1>5. CASE r.op \in {"add_action_group", "remove_action_group"}
    <2>1. sent.retention = audit.retention /\ sent.state = audit.state
        BY <1>5 DEF AuditBody
    <2>. QED
        BY <1>5, <2>1
<1>. QED
    BY <1>1, <1>2, <1>3, <1>4, <1>5 DEF IsAudit, AuditUnchanged

\* The pools that a function does not name.
LEMMA PoolBodyKeeps ==
    ASSUME PoolRequestsFit, PoolRequestsNamed, NEW r \in PoolRequests,
           ~ PoolUnchanged(r, pools), DOMAIN pools = {"state", "pools"},
           NEW p \in pools.pools, p.name \notin Names(r)
    PROVE  p \in PoolBody(r, pools).pools
<1>1. CASE r.op \in {"pools_enable", "pools_disable"}
    BY <1>1 DEF PoolBody
<1>2. CASE r.op = "create_pool"
    BY <1>2 DEF PoolBody
<1>3. CASE r.op \in {"update_pool", "delete_pool"}
    <2>1. Names(r) = {r.name}
        BY <1>3 DEF PoolRequestsNamed, Names
    <2>2. p \notin Named(pools, r.name)
        BY <2>1 DEF Named
    <2>. QED
        BY <1>3, <2>2 DEF PoolBody
<1>. QED
    BY <1>1, <1>2, <1>3 DEF PoolRequestsFit, PoolUnchanged

\* Every PATCH that was made from what the service still holds changes what it
\* is for and keeps the rest, whatever happened before.
THEOREM FreshWriteCorrect ==
    ASSUME PoolRequestsFit, PoolRequestsNamed, \A doc \in PoolConfigs : Sound(doc)
    PROVE  Spec => FreshWriteKeepsTheRest
<1> DEFINE Keeps(c) ==
        /\ IsAudit(request[c]) /\ current[c] = audit =>
              /\ "days" \notin DOMAIN request[c] => audit'.retention = audit.retention
              /\ request[c].op \in {"set_retention", "add_action_group", "remove_action_group"}
                     => audit'.state = audit.state
              /\ request[c].op \in {"audit_enable", "audit_disable", "set_retention"}
                     => audit'.groups = audit.groups
        /\ ~ IsAudit(request[c]) /\ current[c] = pools =>
              \A p \in pools.pools : p.name \notin Names(request[c]) => p \in pools'.pools
<1>1. PoolRequestsAreOthers
    BY DEF PoolRequestsFit, PoolRequestsAreOthers, IsAudit
<1>2. Init => IInv /\ PoolInv /\ BodyInv
    BY InitIInv DEF Init, PoolInv, BodyInv
<1>3. IInv /\ PoolInv /\ BodyInv /\ [Next]_vars => IInv' /\ PoolInv' /\ BodyInv'
    BY <1>1, StepIInv, StepPoolInv, StepBodyInv
<1>4. ASSUME IInv, PoolInv, BodyInv, [Next]_vars, NEW c \in Callers,
             pc[c] = "patch", pc'[c] # "patch"
      PROVE  Keeps(c)
    <2>1. Patch(c) \/ PatchFails(c)
        BY <1>4 DEF Next, vars, ReadAudit, ReadPools, Patch, PatchFails, Reread, Settle,
                    Decide, Goto, Return, Raise, BodyInv
    <2>2. UNCHANGED <<audit, pools>> \/ Stores(c)
        BY <2>1 DEF Patch, PatchFails, service
    <2>3. CASE UNCHANGED <<audit, pools>>
        BY <2>3
    <2>4. CASE Stores(c) /\ IsAudit(request[c])
        <3>1. audit' = AuditBody(request[c], current[c])
            BY <1>4, <2>4 DEF Stores, BodyInv
        <3>2. request[c] \in AuditRequests /\ ~ AuditUnchanged(request[c], current[c])
            BY <1>1, <1>4, <2>4 DEF IInv, BodyInv, PoolRequestsAreOthers
        <3>. QED
            BY <1>4, <2>4, <3>1, <3>2, AuditBodyKeeps DEF IInv, Good
    <2>5. CASE Stores(c) /\ ~ IsAudit(request[c])
        <3>1. pools' = PoolBody(request[c], current[c])
            BY <1>4, <2>5 DEF Stores, BodyInv
        <3>2. request[c] \in PoolRequests /\ ~ PoolUnchanged(request[c], current[c])
            BY <1>4, <2>5 DEF PoolInv, BodyInv, PoolRequestsFit
        <3>. QED
            BY <1>4, <2>5, <3>1, <3>2, PoolBodyKeeps DEF PoolInv, Sound
    <2>. QED
        BY <2>2, <2>3, <2>4, <2>5
<1>5. IInv /\ PoolInv /\ BodyInv /\ [Next]_vars
        => [\A c \in Callers : pc[c] = "patch" /\ pc'[c] # "patch" => Keeps(c)]_vars
    BY <1>4
<1>6. Spec => [][\A c \in Callers : pc[c] = "patch" /\ pc'[c] # "patch" => Keeps(c)]_vars
    BY <1>2, <1>3, <1>5, PTL DEF Spec
<1>. QED
    BY <1>6 DEF FreshWriteKeepsTheRest
=============================================================================
