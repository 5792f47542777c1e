-------------------------- MODULE ModelAccessProofs --------------------------
(***************************************************************************)
(* Theorems about ModelAccess for any sets of requests, applications,      *)
(* calls and secrets.                                                      *)
(***************************************************************************)
EXTENDS ModelAccess, TLAPS

\* Every action keeps every variable in its domain, and a call under way names
\* a request: no handler works on a row it has not read.
THEOREM TypeCorrect == Spec => []TypeOK
<1>1. Init => TypeOK
  BY NullAssumption DEF Init, TypeOK, Statuses, Open, Live, AdminSteps, UserSteps
<1>2. TypeOK /\ [Next]_vars => TypeOK'
  <2> SUFFICES ASSUME TypeOK, [Next]_vars PROVE TypeOK'
    OBVIOUS
  <2> USE NullAssumption
      DEF TypeOK, Statuses, Open, Live, Verdicts, AdminSteps, UserSteps, tables, admin,
          user, trail
  <2>1. ASSUME NEW u \in Callers, UserStep(u) PROVE TypeOK'
    <3>1. CASE CreateCheck(u)
      BY <3>1 DEF CreateCheck, UserGoto
    <3>2. CASE CreateInsert(u)
      BY <3>2 DEF CreateInsert, UserGoto, SetStatus
    <3>3. CASE RevealRead(u)
      BY <3>3 DEF RevealRead, UserGoto
    <3>4. CASE RevealAudit(u)
      BY <3>4 DEF RevealAudit, UserGoto
    <3>5. CASE RevealReturn(u)
      BY <3>5 DEF RevealReturn, UserGoto
    <3> QED BY <2>1, <3>1, <3>2, <3>3, <3>4, <3>5 DEF UserStep
  <2>2. ASSUME NEW u \in Callers, UserCrash(u) PROVE TypeOK'
    BY <2>2 DEF UserCrash, UserGoto
  <2>3. ASSUME NEW r \in Requests, Cancel(r) \/ RequestRevocation(r) PROVE TypeOK'
    BY <2>3 DEF Cancel, RequestRevocation, SetStatus
  <2>4. ASSUME NEW a \in Admins, AdminRead(a) PROVE TypeOK'
    <3>1. ASSUME NEW step \in AdminSteps, NEW r \in Requests, NEW s \in Secrets \cup {NoSecret},
                 Enter(a, step, r, s),
                 step \in {"approve_upsert", "update_upsert"} => s \in Secrets
          PROVE  TypeOK'
      BY <3>1 DEF Enter
    <3>2. CASE ReadForApproval(a)
      BY <3>1, <3>2 DEF ReadForApproval
    <3>3. CASE ReadForDenial(a) \/ ReadForRevoke(a) \/ ReadForConfirm(a) \/ ReadForKeep(a)
      BY <3>1, <3>3 DEF ReadForDenial, ReadForRevoke, ReadForConfirm, ReadForKeep
    <3>4. CASE ReadForUpdate(a)
      BY <3>1, <3>4 DEF ReadForUpdate
    <3> QED BY <2>4, <3>2, <3>3, <3>4 DEF AdminRead
  <2>5. ASSUME NEW a \in Admins, AdminWork(a) PROVE TypeOK'
    <3>1. CASE ApproveUpsert(a)
      BY <3>1 DEF ApproveUpsert, UpsertCredentials, Goto
    <3>2. CASE UpdateUpsert(a)
      BY <3>2 DEF UpdateUpsert, UpsertCredentials, Done
    <3>3. CASE RevokeCut(a)
      BY <3>3 DEF RevokeCut, SetActive, Goto
    <3>4. CASE KeepRestore(a)
      BY <3>4 DEF KeepRestore, SetActive, Goto
    <3>5. ASSUME NEW step \in AdminSteps, NEW s \in Statuses, NEW next \in AdminSteps,
                 step # "idle", next \notin {"idle", "approve_upsert", "update_upsert"},
                 WriteStatus(a, step, s, next)
          PROVE  TypeOK'
      <4>1. CASE IndexAllows(req[a], s)
        BY <3>5, <4>1 DEF WriteStatus, SetStatus, Goto
      <4>2. CASE ~IndexAllows(req[a], s)
        <5>1. Done(a) /\ UNCHANGED <<tables, user, trail, crashes>>
          BY <3>5, <4>2 DEF WriteStatus
        <5> QED BY <5>1 DEF Done
      <4> QED BY <4>1, <4>2
    <3>6. CASE ApproveStatus(a) \/ DenyStatus(a) \/ RevokeStatus(a) \/ KeepStatus(a)
      BY <3>5, <3>6 DEF ApproveStatus, DenyStatus, RevokeStatus, KeepStatus
    <3>7. CASE Audit(a)
      BY <3>7 DEF Audit, WriteAudit, Goto
    <3>8. ASSUME NEW step \in AdminSteps, NEW v \in Verdicts, SendNotice(a, step, v)
          PROVE  TypeOK'
      BY <3>8 DEF SendNotice, Done
    <3>9. CASE Notify(a)
      BY <3>8, <3>9 DEF Notify
    <3> QED BY <2>5, <3>1, <3>2, <3>3, <3>4, <3>6, <3>7, <3>9 DEF AdminWork
  <2>6. ASSUME NEW a \in Admins, AdminCrash(a) PROVE TypeOK'
    BY <2>6 DEF AdminCrash, Done
  <2>7. CASE UNCHANGED vars
    BY <2>7 DEF vars
  <2> QED BY <2>1, <2>2, <2>3, <2>4, <2>5, <2>6, <2>7 DEF Next
<1> QED BY <1>1, <1>2, PTL DEF Spec

-----------------------------------------------------------------------------

\* A status the unique index accepts leaves at most one open request per
\* application.
LEMMA IndexKeepsUnique ==
    ASSUME TypeOK, UniqueOpenRequest, NEW r \in Requests, NEW s \in Statuses,
           IndexAllows(r, s), SetStatus(r, s)
    PROVE  UniqueOpenRequest'
BY DEF TypeOK, UniqueOpenRequest, IndexAllows, SetStatus

\* An application never has two open requests: the unique index stops the
\* second INSERT of a check-then-insert race, and the unguarded UPDATE of a
\* late decision on a request whose place has been taken.
THEOREM UniqueOpen == Spec => []UniqueOpenRequest
<1>1. Init => UniqueOpenRequest
  BY DEF Init, UniqueOpenRequest, Open, Live
<1>2. TypeOK /\ UniqueOpenRequest /\ [Next]_vars => UniqueOpenRequest'
  <2> SUFFICES ASSUME TypeOK, UniqueOpenRequest, [Next]_vars
               PROVE  UniqueOpenRequest'
    OBVIOUS
  <2>1. CASE UNCHANGED status
    BY <2>1 DEF UniqueOpenRequest
  <2>2. ASSUME NEW u \in Callers, CreateInsert(u) PROVE UniqueOpenRequest'
    <3>1. ureq[u] \in Requests /\ "pendente" \in Statuses
      BY <2>2 DEF CreateInsert, TypeOK, Statuses, Open
    <3>2. CASE IndexAllows(ureq[u], "pendente")
      BY <2>2, <3>1, <3>2, IndexKeepsUnique DEF CreateInsert
    <3>3. CASE ~IndexAllows(ureq[u], "pendente")
      BY <2>1, <2>2, <3>3 DEF CreateInsert
    <3> QED BY <3>2, <3>3
  <2>3. ASSUME NEW r \in Requests, Cancel(r) PROVE UniqueOpenRequest'
    <3>1. IndexAllows(r, "cancelado") /\ "cancelado" \in Statuses
      BY DEF IndexAllows, Statuses, Open, Live
    <3> QED BY <2>3, <3>1, IndexKeepsUnique DEF Cancel
  <2>4. ASSUME NEW r \in Requests, RequestRevocation(r) PROVE UniqueOpenRequest'
    <3>1. IndexAllows(r, "revogacao_solicitada") /\ "revogacao_solicitada" \in Statuses
      BY <2>4 DEF RequestRevocation, UniqueOpenRequest, IndexAllows, Statuses, Open, Live
    <3> QED BY <2>4, <3>1, IndexKeepsUnique DEF RequestRevocation
  <2>5. ASSUME NEW a \in Admins, NEW step \in AdminSteps, NEW s \in Statuses,
               NEW next, step # "idle", WriteStatus(a, step, s, next)
        PROVE  UniqueOpenRequest'
    <3>1. req[a] \in Requests
      BY <2>5 DEF WriteStatus, TypeOK
    <3>2. CASE IndexAllows(req[a], s)
      BY <2>5, <3>1, <3>2, IndexKeepsUnique DEF WriteStatus
    <3>3. CASE ~IndexAllows(req[a], s)
      BY <2>1, <2>5, <3>3 DEF WriteStatus
    <3> QED BY <3>2, <3>3
  <2>6. ASSUME NEW a \in Admins,
               ApproveStatus(a) \/ DenyStatus(a) \/ RevokeStatus(a) \/ KeepStatus(a)
        PROVE  UniqueOpenRequest'
    BY <2>5, <2>6 DEF ApproveStatus, DenyStatus, RevokeStatus, KeepStatus,
                      AdminSteps, Statuses, Open, Live
  <2>7. \/ UNCHANGED status
        \/ \E u \in Callers : CreateInsert(u)
        \/ \E r \in Requests : Cancel(r) \/ RequestRevocation(r)
        \/ \E a \in Admins :
             ApproveStatus(a) \/ DenyStatus(a) \/ RevokeStatus(a) \/ KeepStatus(a)
    BY DEF Next, vars, tables, UserStep, CreateCheck, RevealRead, RevealAudit,
           RevealReturn, UserCrash, AdminCrash, AdminRead, ReadForApproval,
           ReadForDenial, ReadForRevoke, ReadForConfirm, ReadForKeep, ReadForUpdate,
           Enter, AdminWork, ApproveUpsert, UpdateUpsert, RevokeCut, KeepRestore,
           Audit, WriteAudit, Notify, SendNotice
  <2> QED BY <2>1, <2>2, <2>3, <2>4, <2>6, <2>7
<1> QED BY <1>1, <1>2, TypeCorrect, PTL DEF Spec

-----------------------------------------------------------------------------

\* A call about to return a secret has one audit row more than it has returned.
AuditedBeforeReturn ==
    \A u \in Callers :
        /\ disclosed[u] <= revealRows[u]
        /\ upc[u] = "reveal_return" => disclosed[u] < revealRows[u]

\* No secret reaches a user before its own MODEL_ACCESS_SECRET_REVEAL row is
\* committed, whatever calls die in between.
THEOREM Disclosure == Spec => []DisclosureIsAudited
<1>1. Init => AuditedBeforeReturn
  BY DEF Init, AuditedBeforeReturn
<1>2. TypeOK /\ AuditedBeforeReturn /\ [Next]_vars => AuditedBeforeReturn'
  <2> SUFFICES ASSUME TypeOK, AuditedBeforeReturn, [Next]_vars
               PROVE  AuditedBeforeReturn'
    OBVIOUS
  <2> USE DEF TypeOK, AuditedBeforeReturn
  <2>1. CASE UNCHANGED user
    BY <2>1 DEF user
  <2>2. ASSUME NEW u \in Callers, UserStep(u) PROVE AuditedBeforeReturn'
    <3>1. CASE CreateCheck(u)
      BY <3>1 DEF CreateCheck, UserGoto
    <3>2. CASE CreateInsert(u)
      BY <3>2 DEF CreateInsert, UserGoto
    <3>3. CASE RevealRead(u)
      BY <3>3 DEF RevealRead, UserGoto
    <3>4. CASE RevealAudit(u)
      BY <3>4 DEF RevealAudit, UserGoto
    <3>5. CASE RevealReturn(u)
      BY <3>5 DEF RevealReturn, UserGoto
    <3> QED BY <2>2, <3>1, <3>2, <3>3, <3>4, <3>5 DEF UserStep
  <2>3. ASSUME NEW u \in Callers, UserCrash(u) PROVE AuditedBeforeReturn'
    BY <2>3 DEF UserCrash, UserGoto
  <2>4. \/ UNCHANGED user
        \/ \E u \in Callers : UserStep(u) \/ UserCrash(u)
    BY DEF Next, vars, Cancel, RequestRevocation, AdminCrash, AdminRead,
           ReadForApproval, ReadForDenial, ReadForRevoke, ReadForConfirm, ReadForKeep,
           ReadForUpdate, Enter, AdminWork, ApproveUpsert, UpdateUpsert, RevokeCut,
           KeepRestore, ApproveStatus, DenyStatus, RevokeStatus, KeepStatus,
           WriteStatus, Audit, WriteAudit, Notify, SendNotice
  <2> QED BY <2>1, <2>2, <2>3, <2>4
<1>3. AuditedBeforeReturn => DisclosureIsAudited
  BY DEF AuditedBeforeReturn, DisclosureIsAudited
<1> QED BY <1>1, <1>2, <1>3, TypeCorrect, PTL DEF Spec

-----------------------------------------------------------------------------

\* What the row an admin's call read still says when the call is at each of its
\* statements, provided no other admin's call works on the row.
ReadStillHolds(a) ==
    /\ pc[a] \in {"approve_upsert", "approve_status", "deny_status"}
         => status[req[a]] \in {"pendente", "cancelado"}
    /\ pc[a] = "approve_status" => active[req[a]] /\ secret[req[a]] # NoSecret
    /\ pc[a] \in {"revoke_cut", "revoke_status", "keep_restore", "update_upsert"}
         => status[req[a]] \in Live
    /\ pc[a] = "revoke_status" => ~active[req[a]]
    /\ pc[a] = "keep_status" => status[req[a]] = "revogacao_solicitada"

\* A request about to be inserted is in nobody else's hands.
FreshInsert(u) ==
    upc[u] = "create_insert" =>
        /\ status[ureq[u]] = "nenhum"
        /\ \A v \in Callers : ureq[v] = ureq[u] => v = u

CurationInv ==
    /\ \A a \in Admins : ReadStillHolds(a)
    /\ \A u \in Callers : FreshInsert(u)
    /\ RevokedIsCut

LEMMA CurationStep ==
    ASSUME TypeOK, OneAdminPerRequest, CurationInv, [Next]_vars
    PROVE  CurationInv'
<1> USE NullAssumption
    DEF TypeOK, OneAdminPerRequest, CurationInv, ReadStillHolds, FreshInsert,
        RevokedIsCut, Live, tables, admin, user, trail
<1>1. ASSUME NEW u \in Callers, UserStep(u) PROVE CurationInv'
  <2>1. CASE CreateCheck(u)
    BY <2>1 DEF CreateCheck, UserGoto
  <2>2. CASE CreateInsert(u)
    BY <2>2 DEF CreateInsert, UserGoto, SetStatus
  <2>3. CASE RevealRead(u)
    BY <2>3 DEF RevealRead, UserGoto, Readable
  <2>4. CASE RevealAudit(u) \/ RevealReturn(u)
    BY <2>4 DEF RevealAudit, RevealReturn, UserGoto
  <2> QED BY <1>1, <2>1, <2>2, <2>3, <2>4 DEF UserStep
<1>2. ASSUME NEW u \in Callers, UserCrash(u) PROVE CurationInv'
  BY <1>2 DEF UserCrash, UserGoto
<1>3. ASSUME NEW r \in Requests, Cancel(r) PROVE CurationInv'
  BY <1>3 DEF Cancel, SetStatus
<1>4. ASSUME NEW r \in Requests, RequestRevocation(r) PROVE CurationInv'
  BY <1>4 DEF RequestRevocation, SetStatus
<1>5. ASSUME NEW a \in Admins, AdminRead(a) PROVE CurationInv'
  BY <1>5 DEF AdminRead, ReadForApproval, ReadForDenial, ReadForRevoke,
              ReadForConfirm, ReadForKeep, ReadForUpdate, Enter
<1>6. ASSUME NEW a \in Admins, AdminWork(a) PROVE CurationInv'
  <2>1. CASE ApproveUpsert(a)
    BY <2>1 DEF ApproveUpsert, UpsertCredentials, Goto
  <2>2. CASE UpdateUpsert(a)
    BY <2>2 DEF UpdateUpsert, UpsertCredentials, Done
  <2>3. CASE RevokeCut(a)
    <3>1. RevokedIsCut'
      BY <2>3 DEF RevokeCut, SetActive
    <3>2. \A v \in Callers : FreshInsert(v)'
      BY <2>3 DEF RevokeCut
    <3>3. ASSUME NEW b \in Admins, b # a PROVE ReadStillHolds(b)'
      <4>1. pc'[b] = pc[b] /\ req'[b] = req[b] /\ UNCHANGED <<status, secret>>
        BY <2>3, <3>3 DEF RevokeCut, SetActive, Goto
      <4>2. pc[b] = "approve_status" => req[b] # req[a]
        BY <2>3, <3>3 DEF RevokeCut
      <4>3. req[b] # req[a] /\ req[b] \in Requests => active'[req[b]] = active[req[b]]
        BY <2>3 DEF RevokeCut, SetActive
      <4>4. pc[b] = "revoke_status" => ~active'[req[b]]
        BY <2>3, <4>3 DEF RevokeCut, SetActive
      <4> QED BY <4>1, <4>2, <4>3, <4>4
    <3>4. ReadStillHolds(a)'
      <4>1. pc'[a] = "revoke_status" /\ req'[a] = req[a] /\ status'[req[a]] \in Live
        BY <2>3 DEF RevokeCut, Goto
      <4>2. ~active'[req[a]]
        BY <2>3 DEF RevokeCut, SetActive
      <4> QED BY <4>1, <4>2
    <3> QED BY <3>1, <3>2, <3>3, <3>4
  <2>4. CASE KeepRestore(a)
    BY <2>4 DEF KeepRestore, SetActive, Goto
  <2>5. CASE ApproveStatus(a)
    BY <2>5 DEF ApproveStatus, WriteStatus, SetStatus, Goto, Done
  <2>6. CASE DenyStatus(a)
    BY <2>6 DEF DenyStatus, WriteStatus, SetStatus, Goto, Done
  <2>7. CASE RevokeStatus(a)
    BY <2>7 DEF RevokeStatus, WriteStatus, SetStatus, Goto, Done
  <2>8. CASE KeepStatus(a)
    BY <2>8 DEF KeepStatus, WriteStatus, SetStatus, Goto, Done
  <2>9. CASE Audit(a) \/ Notify(a)
    <3>1. ASSUME NEW step, NEW v, NEW next \in {"approve_notify", "deny_notify",
                 "revoke_notify", "keep_notify"}, WriteAudit(a, step, v, next)
          PROVE  CurationInv'
      BY <3>1 DEF WriteAudit, Goto
    <3>2. ASSUME NEW step, NEW v, SendNotice(a, step, v) PROVE CurationInv'
      BY <3>2 DEF SendNotice, Done
    <3>3. CASE Audit(a)
      BY <3>1, <3>3 DEF Audit
    <3>4. CASE Notify(a)
      BY <3>2, <3>4 DEF Notify
    <3> QED BY <2>9, <3>3, <3>4
  <2> QED BY <1>6, <2>1, <2>2, <2>3, <2>4, <2>5, <2>6, <2>7, <2>8, <2>9 DEF AdminWork
<1>7. ASSUME NEW a \in Admins, AdminCrash(a) PROVE CurationInv'
  BY <1>7 DEF AdminCrash, Done
<1>8. CASE UNCHANGED vars
  BY <1>8 DEF vars
<1> QED BY <1>1, <1>2, <1>3, <1>4, <1>5, <1>6, <1>7, <1>8 DEF Next

LEMMA CurationInvariant == Spec /\ []OneAdminPerRequest => []CurationInv
<1>1. Init => CurationInv
  BY DEF Init, CurationInv, ReadStillHolds, FreshInsert, RevokedIsCut
<1>2. TypeOK /\ OneAdminPerRequest /\ CurationInv /\ [Next]_vars => CurationInv'
  BY CurationStep
<1> QED BY <1>1, <1>2, TypeCorrect, PTL DEF Spec

\* As long as no two curators' calls work on one request at a time, a revoked
\* request never has active credentials, also when calls die between cutting
\* the credentials and writing the status, and whatever the user does meanwhile.
THEOREM RevokedCut == Spec /\ []OneAdminPerRequest => []RevokedIsCut
<1>1. CurationInv => RevokedIsCut
  BY DEF CurationInv
<1> QED BY <1>1, CurationInvariant, PTL

\* A decision about to be told is the one its call has stored, and what the trail and
\* the notices tell of a request the status has borne out.
Telling(a) ==
    /\ pc[a] \in {"approve_audit", "approve_notify", "keep_restore", "keep_audit",
                  "keep_notify"} => status[req[a]] \in Live
    /\ pc[a] \in {"deny_audit", "deny_notify"} => status[req[a]] = "negado"
    /\ pc[a] \in {"revoke_audit", "revoke_notify"} => status[req[a]] = "revogado"

TrailInv == TrailNeverAhead /\ \A a \in Admins : Telling(a)

\* Neither what users may do to a request nor a decision on what a call still rightly
\* holds belies a row or notice of an earlier one.
LEMMA BorneOutAfter ==
    ASSUME NEW v, NEW s, NEW t, BorneOut(v, s),
           \/ s \in {"nenhum", "pendente", "cancelado"}
           \/ s \in Live /\ t \in Live \cup {"revogado"}
    PROVE  BorneOut(v, t)
BY DEF BorneOut, Live

\* A status written on request r leaves the other requests as they are.
LEMMA StatusTold ==
    ASSUME TypeOK, TrailInv, NEW r \in Requests, NEW t \in Statuses, SetStatus(r, t),
           UNCHANGED trail,
           \/ status[r] \in {"nenhum", "pendente", "cancelado"}
           \/ status[r] \in Live /\ t \in Live \cup {"revogado"}
    PROVE  TrailNeverAhead'
<1>1. status'[r] = t /\ \A q \in Requests \ {r} : status'[q] = status[q]
  BY DEF SetStatus, TypeOK
<1> QED BY <1>1, BorneOutAfter DEF TrailInv, TrailNeverAhead, trail

LEMMA TrailStep ==
    ASSUME TypeOK, OneAdminPerRequest, CurationInv, TrailInv, [Next]_vars
    PROVE  TrailInv'
<1> USE NullAssumption DEF TypeOK, OneAdminPerRequest, CurationInv, tables, admin, user, trail
<1>1. CASE UNCHANGED <<status, pc, req, trail>>
  BY <1>1 DEF TrailInv, TrailNeverAhead, Telling
<1>2. ASSUME NEW r \in Requests, NEW t \in Statuses, SetStatus(r, t), UNCHANGED <<admin, trail>>,
             \/ status[r] \in {"nenhum", "pendente"}
             \/ status[r] \in Live /\ t \in Live
      PROVE  TrailInv'
  <2>1. TrailNeverAhead'
    BY <1>2, StatusTold
  <2>2. \A a \in Admins : Telling(a)'
    BY <1>2 DEF TrailInv, Telling, SetStatus, Live
  <2> QED BY <2>1, <2>2 DEF TrailInv
<1>3. ASSUME NEW u \in Callers, CreateInsert(u) PROVE TrailInv'
  <2>1. CASE IndexAllows(ureq[u], "pendente")
    BY <1>2, <1>3, <2>1 DEF CreateInsert, FreshInsert, Statuses, Open
  <2>2. CASE ~IndexAllows(ureq[u], "pendente")
    BY <1>1, <1>3, <2>2 DEF CreateInsert
  <2> QED BY <2>1, <2>2
<1>4. ASSUME NEW r \in Requests, Cancel(r) \/ RequestRevocation(r) PROVE TrailInv'
  BY <1>2, <1>4 DEF Cancel, RequestRevocation, Statuses, Open, Live
<1>5. ASSUME NEW a \in Admins, AdminRead(a) PROVE TrailInv'
  BY <1>5 DEF AdminRead, ReadForApproval, ReadForDenial, ReadForRevoke, ReadForConfirm,
              ReadForKeep, ReadForUpdate, Enter, TrailInv, TrailNeverAhead, Telling
<1>6. ASSUME NEW a \in Admins, pc[a] # "idle", Done(a), UNCHANGED <<status, trail>>
      PROVE  TrailInv'
  BY <1>6 DEF Done, TrailInv, TrailNeverAhead, Telling
<1>7. ASSUME NEW a \in Admins, NEW step, NEW s \in Statuses, NEW next,
             step # "idle", WriteStatus(a, step, s, next),
             \/ /\ status[req[a]] \in {"pendente", "cancelado"}
                /\ \/ s = "aprovado" /\ next = "approve_audit"
                   \/ s = "negado" /\ next = "deny_audit"
             \/ /\ status[req[a]] \in Live
                /\ \/ s = "revogado" /\ next = "revoke_audit"
                   \/ s = "aprovado" /\ next = "keep_restore"
      PROVE  TrailInv'
  <2> PICK r \in Requests : r = req[a] /\ pc[a] = step
    BY <1>7 DEF WriteStatus
  <2>1. CASE IndexAllows(r, s)
    <3>1. SetStatus(r, s) /\ Goto(a, next) /\ UNCHANGED trail
      BY <1>7, <2>1 DEF WriteStatus
    <3>2. TrailNeverAhead'
      BY <1>7, <3>1, StatusTold DEF Live
    <3>3. Telling(a)'
      BY <1>7, <3>1 DEF SetStatus, Goto, Telling, Live
    <3>4. ASSUME NEW b \in Admins, b # a PROVE Telling(b)'
      <4>1. pc'[b] = pc[b] /\ req'[b] = req[b]
        BY <3>1, <3>4 DEF Goto
      <4>2. pc[b] # "idle" => req[b] \in Requests /\ status'[req[b]] = status[req[b]]
        BY <1>7, <3>1, <3>4 DEF SetStatus
      <4> QED BY <4>1, <4>2 DEF TrailInv, Telling
    <3> QED BY <3>2, <3>3, <3>4 DEF TrailInv
  <2>2. CASE ~IndexAllows(r, s)
    BY <1>6, <1>7, <2>2 DEF WriteStatus
  <2> QED BY <2>1, <2>2
<1>8. ASSUME NEW a \in Admins, AdminWork(a) PROVE TrailInv'
  <2>1. ReadStillHolds(a)
    OBVIOUS
  <2>2. CASE ApproveUpsert(a) \/ RevokeCut(a)
    BY <2>2 DEF ApproveUpsert, UpsertCredentials, RevokeCut, SetActive, Goto, TrailInv,
                TrailNeverAhead, Telling
  <2>3. CASE UpdateUpsert(a)
    BY <1>6, <2>3 DEF UpdateUpsert
  <2>4. CASE KeepRestore(a)
    BY <2>4 DEF KeepRestore, SetActive, Goto, TrailInv, TrailNeverAhead, Telling
  <2>5. CASE ApproveStatus(a) \/ DenyStatus(a)
    BY <1>7, <2>1, <2>5 DEF ApproveStatus, DenyStatus, WriteStatus, ReadStillHolds, Statuses,
                            Open, Live
  <2>6. CASE RevokeStatus(a) \/ KeepStatus(a)
    BY <1>7, <2>1, <2>6 DEF RevokeStatus, KeepStatus, WriteStatus, ReadStillHolds, Statuses,
                            Open, Live
  <2>7. ASSUME NEW step, NEW v, NEW next, WriteAudit(a, step, v, next),
               \/ step = "approve_audit" /\ v = "APPROVE" /\ next = "approve_notify"
               \/ step = "deny_audit" /\ v = "DENY" /\ next = "deny_notify"
               \/ step = "revoke_audit" /\ v = "REVOKE" /\ next = "revoke_notify"
               \/ step = "keep_audit" /\ v = "REJECT_REVOKE" /\ next = "keep_notify"
        PROVE  TrailInv'
    <3>1. BorneOut(v, status[req[a]])
      BY <2>7 DEF WriteAudit, TrailInv, Telling, BorneOut, Live
    <3>2. TrailNeverAhead'
      BY <2>7, <3>1 DEF WriteAudit, Goto, TrailInv, TrailNeverAhead
    <3>3. \A b \in Admins : Telling(b)'
      BY <2>7 DEF WriteAudit, Goto, TrailInv, Telling
    <3> QED BY <3>2, <3>3 DEF TrailInv
  <2>8. CASE Audit(a)
    BY <2>7, <2>8 DEF Audit
  <2>9. ASSUME NEW step, NEW v, SendNotice(a, step, v),
               \/ step = "approve_notify" /\ v = "APPROVE"
               \/ step = "deny_notify" /\ v = "DENY"
               \/ step = "revoke_notify" /\ v = "REVOKE"
               \/ step = "keep_notify" /\ v = "REJECT_REVOKE"
        PROVE  TrailInv'
    <3>1. BorneOut(v, status[req[a]])
      BY <2>9 DEF SendNotice, TrailInv, Telling, BorneOut, Live
    <3>2. TrailNeverAhead'
      BY <2>9, <3>1 DEF SendNotice, Done, TrailInv, TrailNeverAhead
    <3>3. \A b \in Admins : Telling(b)'
      BY <2>9 DEF SendNotice, Done, TrailInv, Telling
    <3> QED BY <3>2, <3>3 DEF TrailInv
  <2>10. CASE Notify(a)
    BY <2>9, <2>10 DEF Notify
  <2> QED BY <1>8, <2>2, <2>3, <2>4, <2>5, <2>6, <2>8, <2>10 DEF AdminWork
<1>9. ASSUME NEW a \in Admins, AdminCrash(a) PROVE TrailInv'
  BY <1>6, <1>9 DEF AdminCrash
<1>10. \/ UNCHANGED <<status, pc, req, trail>>
       \/ \E u \in Callers : CreateInsert(u)
       \/ \E r \in Requests : Cancel(r) \/ RequestRevocation(r)
       \/ \E a \in Admins : AdminRead(a) \/ AdminWork(a) \/ AdminCrash(a)
  BY DEF Next, vars, UserStep, CreateCheck, RevealRead, RevealAudit, RevealReturn, UserCrash
<1> QED BY <1>1, <1>3, <1>4, <1>5, <1>8, <1>9, <1>10

\* As long as no two curators' calls work on one request, no audit row and no notice
\* tells of a decision that the status of the request has not borne out, whatever calls
\* die, and whatever its user cancels and asks for again meanwhile.
THEOREM TrailBehind == Spec /\ []OneAdminPerRequest => []TrailNeverAhead
<1>1. Init => TrailInv
  BY DEF Init, TrailInv, TrailNeverAhead, BorneOut, Telling
<1>2. TypeOK /\ OneAdminPerRequest /\ CurationInv /\ TrailInv /\ [Next]_vars => TrailInv'
  BY TrailStep
<1>3. TrailInv => TrailNeverAhead
  BY DEF TrailInv
<1> QED BY <1>1, <1>2, <1>3, TypeCorrect, CurationInvariant, PTL DEF Spec

-----------------------------------------------------------------------------

\* The trail of a request agrees with its status.
TrailAgrees(r) ==
    /\ lastAudit[r] \in VerdictsOf(status[r])
    /\ lastNotice[r] = lastAudit[r]

\* What the status, the credentials and the trail of a request say while an
\* admin's call works on it, statement by statement.
InHand(a, r) ==
    /\ pc[a] # "idle"
    /\ pc[a] \in {"approve_upsert", "approve_status", "deny_status", "revoke_cut",
                  "revoke_status", "keep_status", "update_upsert"}
         => TrailAgrees(r)
    /\ pc[a] \in {"approve_upsert", "approve_status", "deny_status"}
         => status[r] \in {"pendente", "cancelado"}
    /\ pc[a] \in {"revoke_cut", "revoke_status", "keep_status", "keep_restore",
                  "keep_audit", "keep_notify", "approve_audit", "approve_notify",
                  "update_upsert"}
         => status[r] \in Live
    /\ pc[a] \in {"deny_audit", "deny_notify"} => status[r] = "negado"
    /\ pc[a] \in {"revoke_audit", "revoke_notify"} => status[r] = "revogado"
    /\ active[r] <=>
         pc[a] \notin {"approve_upsert", "deny_status", "deny_audit", "deny_notify",
                       "revoke_status", "revoke_audit", "revoke_notify"}
    /\ pc[a] = "approve_notify" => lastAudit[r] = "APPROVE"
    /\ pc[a] = "deny_notify"    => lastAudit[r] = "DENY"
    /\ pc[a] = "revoke_notify"  => lastAudit[r] = "REVOKE"
    /\ pc[a] = "keep_notify"    => lastAudit[r] = "REJECT_REVOKE"

\* What they say when no call does.
AtRest(r) ==
    /\ TrailAgrees(r)
    /\ status[r] \in Live => active[r]
    /\ active[r] => status[r] \in Live \cup {"cancelado"}

Accounted(r) ==
    /\ active[r] => secret[r] # NoSecret
    /\ \A a \in Admins : req[a] = r => InHand(a, r)
    /\ Quiet(r) => AtRest(r)

SettledInv == crashes = 0 => \A r \in Requests : Accounted(r)

\* A request whose rows and whose calls a step leaves alone stays accounted for.
LEMMA Untouched ==
    ASSUME NEW q \in Requests, Accounted(q),
           status'[q] = status[q], active'[q] = active[q], secret'[q] = secret[q],
           lastAudit'[q] = lastAudit[q], lastNotice'[q] = lastNotice[q],
           \A b \in Admins : \/ pc'[b] = pc[b] /\ req'[b] = req[b]
                             \/ req[b] # q /\ req'[b] # q
    PROVE  Accounted(q)'
<1>1. TrailAgrees(q)' <=> TrailAgrees(q)
  BY DEF TrailAgrees, VerdictsOf
<1>2. AtRest(q)' <=> AtRest(q)
  BY <1>1 DEF AtRest
<1>3. Quiet(q)' => Quiet(q)
  BY DEF Quiet
<1>4. ASSUME NEW b \in Admins, req'[b] = q PROVE InHand(b, q)'
  <2>1. req[b] = q /\ pc'[b] = pc[b]
    BY <1>4
  <2>2. InHand(b, q)
    BY <2>1 DEF Accounted
  <2> QED BY <1>1, <2>1, <2>2 DEF InHand
<1> QED BY <1>2, <1>3, <1>4 DEF Accounted

\* A call takes up a request no other call holds.
LEMMA EnterSettled ==
    ASSUME TypeOK, OneAdminPerRequest', NEW q \in Requests, Accounted(q),
           NEW a \in Admins, NEW r \in Requests, NEW step, NEW s,
           Enter(a, step, r, s),
           \/ step \in {"approve_upsert", "deny_status"} /\ status[r] = "pendente"
           \/ step \in {"revoke_cut", "update_upsert", "keep_status"} /\ status[r] \in Live
    PROVE  Accounted(q)'
<1>1. /\ UNCHANGED <<status, active, secret, lastAudit, lastNotice>>
      /\ pc[a] = "idle" /\ pc'[a] = step /\ req'[a] = r
      /\ \A b \in Admins \ {a} : pc'[b] = pc[b] /\ req'[b] = req[b]
  BY DEF Enter, TypeOK, tables, trail
<1>2. req[a] # q
  BY <1>1 DEF Accounted, InHand
<1>3. CASE q # r
  BY <1>1, <1>2, <1>3, Untouched
<1>4. CASE q = r
  <2>1. ASSUME NEW b \in Admins, req[b] = q PROVE FALSE
    <3>1. pc[b] # "idle" /\ b # a
      BY <1>2, <2>1 DEF Accounted, InHand
    <3>2. pc'[b] # "idle" /\ pc'[a] # "idle" /\ req'[b] = req'[a]
      BY <1>1, <1>4, <2>1, <3>1
    <3> QED BY <3>1, <3>2 DEF OneAdminPerRequest
  <2>2. AtRest(q)
    BY <2>1 DEF Accounted, Quiet
  <2>3. TrailAgrees(q)'
    BY <1>1, <2>2 DEF AtRest, TrailAgrees, VerdictsOf
  <2>4. InHand(a, q)'
    BY <1>1, <1>4, <2>2, <2>3 DEF InHand, AtRest, Live
  <2>5. \A b \in Admins : req'[b] = q => b = a
    BY <1>1, <2>1
  <2> QED BY <1>1, <1>4, <2>4, <2>5 DEF Accounted, Quiet
<1> QED BY <1>3, <1>4

\* What is left to show of a step of a call: the request it works on.
LEMMA WorkSettled ==
    ASSUME TypeOK, OneAdminPerRequest, NEW q \in Requests, Accounted(q),
           NEW a \in Admins, pc[a] # "idle", NEW r \in Requests, r = req[a],
           \A p \in Requests \ {r} :
               /\ status'[p] = status[p] /\ active'[p] = active[p]
               /\ secret'[p] = secret[p]
               /\ lastAudit'[p] = lastAudit[p] /\ lastNotice'[p] = lastNotice[p],
           \/ \E step : Goto(a, step) /\ (InHand(a, r) => InHand(a, r)')
           \/ Done(a) /\ (InHand(a, r) => AtRest(r)'),
           (InHand(a, r) /\ (active[r] => secret[r] # NoSecret))
               => (active'[r] => secret'[r] # NoSecret)
    PROVE  Accounted(q)'
<1>1. \A b \in Admins \ {a} : pc'[b] = pc[b] /\ req'[b] = req[b]
  BY DEF Goto, Done, TypeOK
<1>2. req'[a] \in {r, NoRequest} /\ NoRequest \notin Requests
  BY NullAssumption DEF Goto, Done, TypeOK
<1>3. CASE q # r
  <2>1. req[a] # q /\ req'[a] # q
    BY <1>2, <1>3
  <2> QED BY <1>1, <1>3, <2>1, Untouched
<1>4. CASE q = r
  <2>1. InHand(a, r)
    BY <1>4 DEF Accounted
  <2>2. \A b \in Admins : req[b] = r => b = a
    BY <1>4 DEF Accounted, InHand, OneAdminPerRequest
  <2>3. \A b \in Admins : req'[b] = r => b = a
    BY <1>1, <2>2
  <2>4. active'[r] => secret'[r] # NoSecret
    BY <1>4, <2>1 DEF Accounted
  <2>5. CASE \E step : Goto(a, step) /\ (InHand(a, r) => InHand(a, r)')
    <3>1. req'[a] = r /\ InHand(a, r)'
      BY <2>1, <2>5 DEF Goto
    <3> QED BY <1>4, <2>3, <2>4, <3>1 DEF Accounted, Quiet
  <2>6. CASE Done(a) /\ (InHand(a, r) => AtRest(r)')
    <3>1. AtRest(r)'
      BY <2>1, <2>6
    <3>2. req'[a] # r
      BY <1>2, <2>6 DEF Done, TypeOK
    <3> QED BY <1>4, <2>3, <2>4, <3>1, <3>2 DEF Accounted
  <2> QED BY <2>5, <2>6
<1> QED BY <1>3, <1>4

LEMMA SettledStep ==
    ASSUME TypeOK, UniqueOpenRequest, OneAdminPerRequest, OneAdminPerRequest',
           CurationInv, SettledInv, [Next]_vars
    PROVE  SettledInv'
<1> SUFFICES ASSUME crashes' = 0, NEW q \in Requests PROVE Accounted(q)'
  BY DEF SettledInv
<1>1. crashes = 0
  <2>1. crashes' \in {crashes, crashes + 1} /\ crashes \in Nat
    BY DEF Next, vars, UserStep, CreateCheck, CreateInsert, RevealRead, RevealAudit,
           RevealReturn, UserCrash, Cancel, RequestRevocation, AdminCrash, AdminRead,
           ReadForApproval, ReadForDenial, ReadForRevoke, ReadForConfirm, ReadForKeep,
           ReadForUpdate, Enter, AdminWork, ApproveUpsert, UpdateUpsert, RevokeCut,
           KeepRestore, ApproveStatus, DenyStatus, RevokeStatus, KeepStatus,
           WriteStatus, Audit, WriteAudit, Notify, SendNotice, TypeOK
  <2> QED BY <2>1
<1>2. Accounted(q)
  BY <1>1 DEF SettledInv
<1>3. CASE UNCHANGED <<tables, pc, req, trail>>
  BY <1>2, <1>3, Untouched DEF tables, trail
<1>4. ASSUME NEW u \in Callers, CreateInsert(u) PROVE Accounted(q)'
  <2> PICK r \in Requests : r = ureq[u]
    BY <1>4 DEF CreateInsert, TypeOK
  <2>1. status[r] = "nenhum"
    BY <1>4 DEF CreateInsert, CurationInv, FreshInsert
  <2>2. CASE q = r /\ status' = [status EXCEPT ![r] = "pendente"]
    <3>1. UNCHANGED <<secret, active, pc, req, lastAudit, lastNotice>>
      BY <1>4 DEF CreateInsert, admin, trail
    <3>2. \A a \in Admins : req[a] # q
      BY <1>2, <2>1, <2>2 DEF Accounted, InHand, TypeOK, AdminSteps, Live
    <3>3. AtRest(q)
      BY <1>2, <3>2 DEF Accounted, Quiet
    <3>4. status'[q] = "pendente"
      BY <2>2 DEF TypeOK
    <3>5. AtRest(q)'
      BY <2>1, <2>2, <3>1, <3>3, <3>4 DEF AtRest, TrailAgrees, VerdictsOf, Live
    <3> QED BY <1>2, <3>1, <3>2, <3>5 DEF Accounted
  <2>3. CASE status'[q] = status[q]
    BY <1>2, <1>4, <2>3, Untouched DEF CreateInsert, admin, trail
  <2>4. status'[q] = status[q] \/ (q = r /\ status' = [status EXCEPT ![r] = "pendente"])
    BY <1>4 DEF CreateInsert, SetStatus, TypeOK
  <2> QED BY <2>2, <2>3, <2>4
<1>5. ASSUME NEW r \in Requests, Cancel(r) \/ RequestRevocation(r) PROVE Accounted(q)'
  <2>1. UNCHANGED <<secret, active, pc, req, lastAudit, lastNotice>>
    BY <1>5 DEF Cancel, RequestRevocation, admin, trail
  <2>2. CASE q # r
    <3>1. status'[q] = status[q]
      BY <1>5, <2>2 DEF Cancel, RequestRevocation, SetStatus, TypeOK
    <3> QED BY <1>2, <2>1, <3>1, Untouched
  <2>3. CASE q = r
    <3>1. \/ status[q] = "pendente" /\ status'[q] = "cancelado"
          \/ status[q] = "aprovado" /\ status'[q] = "revogacao_solicitada"
      BY <1>5, <2>3 DEF Cancel, RequestRevocation, SetStatus, TypeOK
    <3>2. TrailAgrees(q) => TrailAgrees(q)'
      BY <2>1, <3>1 DEF TrailAgrees, VerdictsOf, Live
    <3>3. AtRest(q) => AtRest(q)'
      BY <2>1, <3>1, <3>2 DEF AtRest, Live
    <3>4. ASSUME NEW a \in Admins, req[a] = q PROVE InHand(a, q)'
      <4>1. InHand(a, q)
        BY <1>2, <3>4 DEF Accounted
      <4> QED BY <2>1, <3>1, <3>2, <4>1 DEF InHand, Live
    <3> QED BY <1>2, <2>1, <3>3, <3>4 DEF Accounted, Quiet
  <2> QED BY <2>2, <2>3
<1>6. ASSUME NEW a \in Admins, AdminRead(a) PROVE Accounted(q)'
  <2>1. CASE ReadForApproval(a) \/ ReadForDenial(a)
    BY <1>2, <2>1, EnterSettled DEF ReadForApproval, ReadForDenial
  <2>2. CASE ReadForRevoke(a) \/ ReadForConfirm(a) \/ ReadForKeep(a)
    BY <1>2, <2>2, EnterSettled DEF ReadForRevoke, ReadForConfirm, ReadForKeep, Live
  <2>3. CASE ReadForUpdate(a)
    BY <1>2, <2>3, EnterSettled DEF ReadForUpdate
  <2> QED BY <1>6, <2>1, <2>2, <2>3 DEF AdminRead
<1>7. ASSUME NEW a \in Admins, AdminWork(a) PROVE Accounted(q)'
  <2>1. pc[a] # "idle"
    BY <1>7 DEF AdminWork, ApproveUpsert, UpdateUpsert, RevokeCut, KeepRestore,
                ApproveStatus, DenyStatus, RevokeStatus, KeepStatus, WriteStatus,
                Audit, WriteAudit, Notify, SendNotice
  <2> PICK r \in Requests : r = req[a]
    BY <2>1 DEF TypeOK
  <2>2. CASE ApproveUpsert(a)
    <3>1. /\ secret' = [secret EXCEPT ![r] = merged[a]]
          /\ active' = [active EXCEPT ![r] = TRUE]
          /\ merged[a] \in Secrets /\ merged[a] # NoSecret
          /\ UNCHANGED <<status, lastAudit, lastNotice>>
      BY <2>2, NullAssumption DEF ApproveUpsert, UpsertCredentials, TypeOK, trail
    <3>2. Goto(a, "approve_status") /\ pc[a] = "approve_upsert" /\ pc'[a] = "approve_status"
      BY <2>2 DEF ApproveUpsert, Goto, TypeOK
    <3>3. secret'[r] # NoSecret /\ active'[r]
      BY <3>1 DEF TypeOK
    <3>4. InHand(a, r) => InHand(a, r)'
      BY <3>1, <3>2, <3>3 DEF InHand, TrailAgrees, VerdictsOf
    <3>5. \A p \in Requests \ {r} : active'[p] = active[p] /\ secret'[p] = secret[p]
      BY <3>1 DEF TypeOK
    <3> QED BY <1>2, <2>1, <3>1, <3>2, <3>3, <3>4, <3>5, WorkSettled
  <2>3. CASE UpdateUpsert(a)
    <3>1. /\ secret' = [secret EXCEPT ![r] = merged[a]]
          /\ active' = [active EXCEPT ![r] = TRUE]
          /\ merged[a] \in Secrets /\ merged[a] # NoSecret
          /\ UNCHANGED <<status, lastAudit, lastNotice>>
      BY <2>3, NullAssumption DEF UpdateUpsert, UpsertCredentials, TypeOK, trail
    <3>2. Done(a) /\ pc[a] = "update_upsert"
      BY <2>3 DEF UpdateUpsert
    <3>3. secret'[r] # NoSecret /\ active'[r]
      BY <3>1 DEF TypeOK
    <3>4. InHand(a, r) => AtRest(r)'
      BY <3>1, <3>2, <3>3 DEF InHand, AtRest, TrailAgrees, VerdictsOf
    <3>5. \A p \in Requests \ {r} : active'[p] = active[p] /\ secret'[p] = secret[p]
      BY <3>1 DEF TypeOK
    <3> QED BY <1>2, <2>1, <3>1, <3>2, <3>3, <3>4, <3>5, WorkSettled
  <2>4. CASE RevokeCut(a)
    <3>1. /\ active' = [active EXCEPT ![r] = FALSE]
          /\ UNCHANGED <<status, secret, lastAudit, lastNotice>>
      BY <2>4 DEF RevokeCut, SetActive, trail
    <3>2. Goto(a, "revoke_status") /\ pc[a] = "revoke_cut" /\ pc'[a] = "revoke_status"
      BY <2>4 DEF RevokeCut, Goto, TypeOK
    <3>3. ~active'[r] /\ \A p \in Requests \ {r} : active'[p] = active[p]
      BY <3>1 DEF TypeOK
    <3>4. InHand(a, r) => InHand(a, r)'
      BY <3>1, <3>2, <3>3 DEF InHand, TrailAgrees, VerdictsOf
    <3> QED BY <1>2, <2>1, <3>1, <3>2, <3>3, <3>4, WorkSettled
  <2>5. CASE KeepRestore(a)
    <3>1. /\ active' = [active EXCEPT ![r] = secret[r] # NoSecret]
          /\ UNCHANGED <<status, secret, lastAudit, lastNotice>>
      BY <2>5 DEF KeepRestore, SetActive, trail
    <3>2. Goto(a, "keep_audit") /\ pc[a] = "keep_restore" /\ pc'[a] = "keep_audit"
      BY <2>5 DEF KeepRestore, Goto, TypeOK
    <3>3. \A p \in Requests \ {r} : active'[p] = active[p]
      BY <3>1 DEF TypeOK
    <3>4. active'[r] <=> secret[r] # NoSecret
      BY <3>1 DEF TypeOK
    <3>5. InHand(a, r) /\ (active[r] => secret[r] # NoSecret) => InHand(a, r)'
      BY <3>1, <3>2, <3>4 DEF InHand, TrailAgrees
    <3>6. CASE active[r] => secret[r] # NoSecret
      BY <1>2, <2>1, <3>1, <3>2, <3>3, <3>4, <3>5, <3>6, WorkSettled
    <3>7. CASE q # r
      <4>1. /\ req[a] # q /\ req'[a] # q
            /\ \A b \in Admins \ {a} : pc'[b] = pc[b] /\ req'[b] = req[b]
        BY <3>2, <3>7 DEF Goto, TypeOK
      <4> QED BY <1>2, <3>1, <3>3, <3>7, <4>1, Untouched
    <3> QED BY <1>2, <3>6, <3>7 DEF Accounted
  <2>6. CASE ApproveStatus(a)
    <3>1. pc[a] = "approve_status" /\ UNCHANGED <<secret, active, lastAudit, lastNotice>>
      BY <2>6 DEF ApproveStatus, WriteStatus, trail
    <3>2. CASE IndexAllows(r, "aprovado")
      <4>1. /\ status' = [status EXCEPT ![r] = "aprovado"]
            /\ Goto(a, "approve_audit") /\ pc'[a] = "approve_audit"
        BY <2>6, <3>2 DEF ApproveStatus, WriteStatus, SetStatus, Goto, TypeOK
      <4>2. status'[r] = "aprovado" /\ \A p \in Requests \ {r} : status'[p] = status[p]
        BY <4>1 DEF TypeOK
      <4>3. InHand(a, r) => InHand(a, r)'
        BY <3>1, <4>1, <4>2 DEF InHand, Live
      <4> QED BY <1>2, <2>1, <3>1, <4>1, <4>2, <4>3, WorkSettled
    <3>3. CASE ~IndexAllows(r, "aprovado")
      <4>1. UNCHANGED status /\ Done(a)
        BY <2>6, <3>3 DEF ApproveStatus, WriteStatus
      <4>2. status[r] # "pendente"
        BY <3>3 DEF UniqueOpenRequest, IndexAllows, Open
      <4>3. InHand(a, r) => AtRest(r)'
        BY <3>1, <4>1, <4>2 DEF InHand, AtRest, TrailAgrees, VerdictsOf, Live
      <4> QED BY <1>2, <2>1, <3>1, <4>1, <4>3, WorkSettled
    <3> QED BY <3>2, <3>3
  <2>7. CASE DenyStatus(a)
    <3>1. IndexAllows(r, "negado")
      BY DEF IndexAllows, Open, Live
    <3>2. /\ pc[a] = "deny_status" /\ UNCHANGED <<secret, active, lastAudit, lastNotice>>
          /\ status' = [status EXCEPT ![r] = "negado"]
          /\ Goto(a, "deny_audit") /\ pc'[a] = "deny_audit"
      BY <2>7, <3>1 DEF DenyStatus, WriteStatus, SetStatus, Goto, TypeOK, trail
    <3>3. status'[r] = "negado" /\ \A p \in Requests \ {r} : status'[p] = status[p]
      BY <3>2 DEF TypeOK
    <3>4. InHand(a, r) => InHand(a, r)'
      BY <3>2, <3>3 DEF InHand
    <3> QED BY <1>2, <2>1, <3>2, <3>3, <3>4, WorkSettled
  <2>8. CASE RevokeStatus(a)
    <3>1. IndexAllows(r, "revogado")
      BY DEF IndexAllows, Open, Live
    <3>2. /\ pc[a] = "revoke_status" /\ UNCHANGED <<secret, active, lastAudit, lastNotice>>
          /\ status' = [status EXCEPT ![r] = "revogado"]
          /\ Goto(a, "revoke_audit") /\ pc'[a] = "revoke_audit"
      BY <2>8, <3>1 DEF RevokeStatus, WriteStatus, SetStatus, Goto, TypeOK, trail
    <3>3. status'[r] = "revogado" /\ \A p \in Requests \ {r} : status'[p] = status[p]
      BY <3>2 DEF TypeOK
    <3>4. InHand(a, r) => InHand(a, r)'
      BY <3>2, <3>3 DEF InHand
    <3> QED BY <1>2, <2>1, <3>2, <3>3, <3>4, WorkSettled
  <2>9. CASE KeepStatus(a)
    <3>1. /\ pc[a] = "keep_status" /\ status[r] = "revogacao_solicitada"
          /\ UNCHANGED <<secret, active, lastAudit, lastNotice>>
      BY <2>9 DEF KeepStatus, WriteStatus, CurationInv, ReadStillHolds, trail
    <3>2. IndexAllows(r, "aprovado")
      BY <3>1 DEF UniqueOpenRequest, IndexAllows, Open, Live
    <3>3. /\ status' = [status EXCEPT ![r] = "aprovado"]
          /\ Goto(a, "keep_restore") /\ pc'[a] = "keep_restore"
      BY <2>9, <3>2 DEF KeepStatus, WriteStatus, SetStatus, Goto, TypeOK
    <3>4. status'[r] = "aprovado" /\ \A p \in Requests \ {r} : status'[p] = status[p]
      BY <3>3 DEF TypeOK
    <3>5. InHand(a, r) => InHand(a, r)'
      BY <3>1, <3>3, <3>4 DEF InHand, Live
    <3> QED BY <1>2, <2>1, <3>1, <3>3, <3>4, <3>5, WorkSettled
  <2>10. CASE Audit(a)
    <3>1. ASSUME NEW step, NEW v, NEW next, WriteAudit(a, step, v, next),
                 \/ step = "approve_audit" /\ v = "APPROVE" /\ next = "approve_notify"
                 \/ step = "deny_audit" /\ v = "DENY" /\ next = "deny_notify"
                 \/ step = "revoke_audit" /\ v = "REVOKE" /\ next = "revoke_notify"
                 \/ step = "keep_audit" /\ v = "REJECT_REVOKE" /\ next = "keep_notify"
          PROVE  Accounted(q)'
      <4>1. /\ pc[a] = step /\ Goto(a, next) /\ pc'[a] = next
            /\ lastAudit' = [lastAudit EXCEPT ![r] = v]
            /\ UNCHANGED <<status, secret, active, lastNotice>>
        BY <3>1 DEF WriteAudit, Goto, TypeOK, tables
      <4>2. lastAudit'[r] = v /\ \A p \in Requests \ {r} : lastAudit'[p] = lastAudit[p]
        BY <4>1 DEF TypeOK
      <4>3. InHand(a, r) => InHand(a, r)'
        BY <3>1, <4>1, <4>2 DEF InHand
      <4> QED BY <1>2, <2>1, <4>1, <4>2, <4>3, WorkSettled
    <3> QED BY <2>10, <3>1 DEF Audit
  <2>11. CASE Notify(a)
    <3>1. ASSUME NEW step, NEW v, SendNotice(a, step, v),
                 \/ step = "approve_notify" /\ v = "APPROVE"
                 \/ step = "deny_notify" /\ v = "DENY"
                 \/ step = "revoke_notify" /\ v = "REVOKE"
                 \/ step = "keep_notify" /\ v = "REJECT_REVOKE"
          PROVE  Accounted(q)'
      <4>1. /\ pc[a] = step /\ Done(a)
            /\ lastNotice' = [lastNotice EXCEPT ![r] = v]
            /\ UNCHANGED <<status, secret, active, lastAudit>>
        BY <3>1 DEF SendNotice, tables
      <4>2. lastNotice'[r] = v /\ \A p \in Requests \ {r} : lastNotice'[p] = lastNotice[p]
        BY <4>1 DEF TypeOK
      <4>3. InHand(a, r) => AtRest(r)'
        BY <3>1, <4>1, <4>2 DEF InHand, AtRest, TrailAgrees, VerdictsOf, Live
      <4> QED BY <1>2, <2>1, <4>1, <4>2, <4>3, WorkSettled
    <3> QED BY <2>11, <3>1 DEF Notify
  <2> QED BY <1>7, <2>2, <2>3, <2>4, <2>5, <2>6, <2>7, <2>8, <2>9, <2>10, <2>11
          DEF AdminWork
<1>8. ASSUME NEW a \in Admins, AdminCrash(a) PROVE FALSE
  BY <1>1, <1>8 DEF AdminCrash
<1>9. \/ UNCHANGED <<tables, pc, req, trail>>
      \/ \E u \in Callers : CreateInsert(u)
      \/ \E r \in Requests : Cancel(r) \/ RequestRevocation(r)
      \/ \E a \in Admins : AdminRead(a) \/ AdminWork(a) \/ AdminCrash(a)
  BY DEF Next, vars, admin, UserStep, CreateCheck, RevealRead, RevealAudit,
         RevealReturn, UserCrash
<1> QED BY <1>3, <1>4, <1>5, <1>6, <1>7, <1>8, <1>9

\* While the calls on a request take turns and none has died, it is accounted for at every
\* statement of theirs.
LEMMA SettledInvariant == Spec /\ []OneAdminPerRequest => []SettledInv
<1>1. Init => SettledInv
  <2>1. ASSUME Init, NEW r \in Requests PROVE Accounted(r)
    BY <2>1, NullAssumption DEF Init, Accounted, AtRest, TrailAgrees, VerdictsOf, Live
  <2> QED BY <2>1 DEF SettledInv
<1>2. /\ TypeOK /\ UniqueOpenRequest /\ OneAdminPerRequest /\ OneAdminPerRequest'
      /\ CurationInv /\ SettledInv /\ [Next]_vars
      => SettledInv'
  BY SettledStep
<1> QED BY <1>1, <1>2, TypeCorrect, UniqueOpen, CurationInvariant, PTL DEF Spec

\* Whenever no curator's call works on a request and none has died, the audit
\* trail and the notices agree with its status, and the credentials are on
\* exactly where the status gives access, but for a cancelled request whose
\* late approval the unique index refused: as long as no two curators' calls
\* work on one request, whatever its user cancels or asks for meanwhile.
THEOREM Settled == Spec /\ []OneAdminPerRequest => []SettledAgrees
<1>1. SettledInv => SettledAgrees
  BY DEF SettledInv, SettledAgrees, Accounted, AtRest, TrailAgrees
<1> QED BY <1>1, SettledInvariant, PTL

\* Access that is off while the status still gives it is in the hands of a call that is
\* about to write the status of the revocation.
HalfRevokedIsHeld ==
    crashes = 0 => \A r \in Requests :
        HalfRevoked(r) => \E a \in Admins : req[a] = r /\ pc[a] = "revoke_status"

\* What HalfRevokedResolves rests on: as long as no call dies and no two curators' calls
\* work on one request, nothing is left half revoked by a call that is over.
THEOREM RevocationHeld == Spec /\ []OneAdminPerRequest => []HalfRevokedIsHeld
<1>1. SettledInv => HalfRevokedIsHeld
  <2> SUFFICES ASSUME SettledInv, crashes = 0, NEW r \in Requests, HalfRevoked(r)
               PROVE  \E a \in Admins : req[a] = r /\ pc[a] = "revoke_status"
    BY DEF HalfRevokedIsHeld
  <2>1. Accounted(r) /\ status[r] \in Live /\ ~active[r]
    BY DEF SettledInv, HalfRevoked
  <2>2. ~Quiet(r)
    BY <2>1 DEF Accounted, AtRest
  <2>3. PICK a \in Admins : req[a] = r /\ InHand(a, r)
    BY <2>1, <2>2 DEF Quiet, Accounted
  <2>4. pc[a] \in {"approve_upsert", "deny_status", "deny_audit", "deny_notify",
                  "revoke_status", "revoke_audit", "revoke_notify"}
    BY <2>1, <2>3 DEF InHand
  <2>5. pc[a] = "revoke_status"
    BY <2>1, <2>3, <2>4 DEF InHand, Live
  <2> QED BY <2>3, <2>5
<1> QED BY <1>1, SettledInvariant, PTL

\* "o acesso continua ativo" is true of a request at rest whose user was last told so, as
\* long as no two curators' calls work on one request: two at once are all that can make
\* this notice of admin_review_revocation a false one, short of a call that dies.
THEOREM KeptNotice == Spec /\ []OneAdminPerRequest => []KeptNoticeIsTrue
<1>1. SettledInv => KeptNoticeIsTrue
  <2> SUFFICES ASSUME SettledInv, crashes = 0, NEW r \in Requests, Quiet(r),
                      lastNotice[r] = "REJECT_REVOKE"
               PROVE  Readable(r)
    BY DEF KeptNoticeIsTrue
  <2>1. Accounted(r) /\ AtRest(r)
    BY DEF SettledInv, Accounted
  <2>2. "REJECT_REVOKE" \in VerdictsOf(status[r])
    BY <2>1 DEF AtRest, TrailAgrees
  <2>3. status[r] \in Live
    BY <2>2 DEF VerdictsOf
  <2> QED BY <2>1, <2>3 DEF Accounted, AtRest, Readable
<1> QED BY <1>1, SettledInvariant, PTL

-----------------------------------------------------------------------------

\* The access a step leaves every request, when it changes one row at most.
LEMMA AccessAfter ==
    ASSUME TypeOK, NEW r \in Requests, NEW p, NEW b \in BOOLEAN,
           status' = [status EXCEPT ![r] = p],
           \A q \in Requests \ {r} : secret'[q] = secret[q] /\ active'[q] = active[q],
           b = Readable(r)'
    PROVE  Lifecycle!Move(r, p, b)
<1> DEFINE Access == [q \in Requests |-> Readable(q)]
<1>1. ASSUME NEW q \in Requests \ {r} PROVE Readable(q)' = Readable(q)
  BY <1>1 DEF TypeOK, Readable
<1>2. Access' = [Access EXCEPT ![r] = b]
  BY <1>1
<1> QED BY <1>2 DEF Lifecycle!Move

\* A step that changes neither a status nor who can read what is a stutter of
\* the lifecycle.
LEMMA AccessSame ==
    ASSUME TypeOK, UNCHANGED status, \A q \in Requests : Readable(q)' = Readable(q)
    PROVE  UNCHANGED Lifecycle!lifecycle
BY DEF Lifecycle!lifecycle, TypeOK

\* Every statement of every call is a step of the lifecycle or a stutter.
LEMMA StatementRefines ==
    ASSUME TypeOK, CurationInv, [Next]_vars
    PROVE  [Lifecycle!Next]_Lifecycle!lifecycle
<1> USE NullAssumption DEF TypeOK
<1>1. ASSUME NEW u \in Callers, CreateInsert(u) PROVE [Lifecycle!Next]_Lifecycle!lifecycle
  <2>1. CASE IndexAllows(ureq[u], "pendente")
    <3> PICK r \in Requests : r = ureq[u]
      BY <1>1 DEF CreateInsert
    <3>1. /\ status[r] = "nenhum"
          /\ status' = [status EXCEPT ![r] = "pendente"]
          /\ UNCHANGED <<secret, active>>
      BY <1>1, <2>1 DEF CreateInsert, SetStatus, CurationInv, FreshInsert
    <3>2. Lifecycle!Alone(r)
      BY <2>1 DEF IndexAllows, Lifecycle!Alone, Lifecycle!InForce, Lifecycle!Granted,
                  Open, Live
    <3>3. Readable(r)' = FALSE
      BY <3>1 DEF Readable, Live
    <3>4. Lifecycle!Move(r, "pendente", FALSE)
      BY <3>1, <3>3, AccessAfter
    <3> QED BY <3>1, <3>2, <3>4 DEF Lifecycle!Next, Lifecycle!Ask
  <2>2. CASE ~IndexAllows(ureq[u], "pendente")
    BY <1>1, <2>2, AccessSame DEF CreateInsert, Readable
  <2> QED BY <2>1, <2>2
<1>2. ASSUME NEW r \in Requests, Cancel(r) PROVE Lifecycle!Next
  <2>1. Readable(r)' = FALSE
    BY <1>2 DEF Cancel, SetStatus, Readable, Live
  <2>2. Lifecycle!Move(r, "cancelado", FALSE)
    BY <1>2, <2>1, AccessAfter DEF Cancel, SetStatus
  <2> QED BY <1>2, <2>2 DEF Cancel, Lifecycle!Next, Lifecycle!Withdraw
<1>3. ASSUME NEW r \in Requests, RequestRevocation(r) PROVE Lifecycle!Next
  <2> PICK b \in BOOLEAN : b = Readable(r)
    BY DEF Readable
  <2>1. b = Readable(r)'
    BY <1>3 DEF RequestRevocation, SetStatus, Readable, Live
  <2>2. Lifecycle!Move(r, "revogacao_solicitada", b)
    BY <1>3, <2>1 DEF RequestRevocation, SetStatus, Lifecycle!Move, Readable
  <2> QED BY <1>3, <2>2 DEF RequestRevocation, Lifecycle!Next, Lifecycle!AskRevocation
<1>4. ASSUME NEW r \in Requests, NEW s \in Secrets, UpsertCredentials(r, s),
             UNCHANGED status
      PROVE  [Lifecycle!Next]_Lifecycle!lifecycle
  <2>1. CASE status[r] \in Live
    <3> PICK p : p = status[r]
      OBVIOUS
    <3>1. Readable(r)' = TRUE
      BY <1>4, <2>1, NoSecret \notin Secrets DEF UpsertCredentials, Readable
    <3>2. Lifecycle!Move(r, p, TRUE)
      BY <1>4, <3>1, AccessAfter DEF UpsertCredentials
    <3> QED BY <2>1, <3>2 DEF Lifecycle!Next, Lifecycle!Restore, Lifecycle!Granted, Live
  <2>2. CASE status[r] \notin Live
    BY <1>4, <2>2, AccessSame DEF UpsertCredentials, Readable
  <2> QED BY <2>1, <2>2
<1>5. ASSUME NEW r \in Requests, NEW b \in BOOLEAN, SetActive(r, b), UNCHANGED status,
             status[r] \in Live
      PROVE  Lifecycle!Next
  <2> PICK p : p = status[r]
    OBVIOUS
  <2> PICK c \in BOOLEAN : c = Readable(r)'
    BY DEF Readable
  <2>1. Lifecycle!Move(r, p, c)
    BY <1>5, AccessAfter DEF SetActive
  <2> QED BY <1>5, <2>1 DEF Lifecycle!Next, Lifecycle!Restore, Lifecycle!Cut,
                            Lifecycle!Granted, Live
<1>6. ASSUME NEW a \in Admins, NEW r \in Requests, r = req[a], NEW step,
             NEW s \in Statuses, NEW next, WriteStatus(a, step, s, next),
             NEW b \in BOOLEAN, b = (s \in Live /\ secret[r] # NoSecret /\ active[r])
      PROVE  \/ UNCHANGED Lifecycle!lifecycle
             \/ /\ Lifecycle!Move(r, s, b)
                /\ s \in Open => Lifecycle!Alone(r)
  <2>1. CASE IndexAllows(r, s)
    <3>1. status' = [status EXCEPT ![r] = s] /\ UNCHANGED <<secret, active>>
      BY <1>6, <2>1 DEF WriteStatus, SetStatus
    <3>2. b = Readable(r)'
      BY <1>6, <3>1 DEF Readable
    <3>3. s \in Open => Lifecycle!Alone(r)
      BY <2>1 DEF IndexAllows, Lifecycle!Alone, Lifecycle!InForce, Lifecycle!Granted,
                  Open, Live
    <3>4. Lifecycle!Move(r, s, b)
      <4>1. CASE b
        <5>1. Readable(r)' = TRUE
          BY <3>2, <4>1
        <5>2. Lifecycle!Move(r, s, TRUE)
          BY <3>1, <5>1, AccessAfter
        <5> QED BY <4>1, <5>2 DEF Lifecycle!Move
      <4>2. CASE ~b
        <5>1. Readable(r)' = FALSE
          BY <3>2, <4>2
        <5>2. Lifecycle!Move(r, s, FALSE)
          BY <3>1, <5>1, AccessAfter
        <5> QED BY <4>2, <5>2 DEF Lifecycle!Move
      <4> QED BY <4>1, <4>2
    <3> QED BY <3>3, <3>4
  <2>2. CASE ~IndexAllows(r, s)
    BY <1>6, <2>2, AccessSame DEF WriteStatus, Readable
  <2> QED BY <2>1, <2>2
<1>7. ASSUME NEW a \in Admins, AdminWork(a) PROVE [Lifecycle!Next]_Lifecycle!lifecycle
  <2>1. ReadStillHolds(a)
    BY DEF CurationInv
  <2>2. CASE Audit(a) \/ Notify(a)
    BY <2>2, AccessSame DEF Audit, WriteAudit, Notify, SendNotice, tables, Readable
  <2>3. SUFFICES ASSUME pc[a] # "idle", ~(Audit(a) \/ Notify(a))
                 PROVE  [Lifecycle!Next]_Lifecycle!lifecycle
    BY <1>7, <2>2 DEF AdminWork, ApproveUpsert, UpdateUpsert, RevokeCut, KeepRestore,
                      ApproveStatus, DenyStatus, RevokeStatus, KeepStatus, WriteStatus
  <2> PICK r \in Requests : r = req[a]
    BY <2>3
  <2>4. CASE ApproveUpsert(a) \/ UpdateUpsert(a)
    <3> PICK s \in Secrets : s = merged[a]
      BY <2>4 DEF ApproveUpsert, UpdateUpsert
    <3> QED BY <1>4, <2>4 DEF ApproveUpsert, UpdateUpsert
  <2>5. CASE RevokeCut(a) \/ KeepRestore(a)
    BY <1>5, <2>1, <2>5 DEF RevokeCut, KeepRestore, ReadStillHolds
  <2>6. CASE ApproveStatus(a)
    <3>1. /\ status[r] \in {"pendente", "cancelado"}
          /\ secret[r] # NoSecret /\ active[r]
      BY <2>1, <2>6 DEF ApproveStatus, WriteStatus, ReadStillHolds
    <3>2. UNCHANGED Lifecycle!lifecycle
            \/ (Lifecycle!Move(r, "aprovado", TRUE) /\ Lifecycle!Alone(r))
      BY <1>6, <2>6, <3>1 DEF ApproveStatus, Statuses, Open, Live
    <3> QED BY <3>1, <3>2 DEF Lifecycle!Next, Lifecycle!Grant
  <2>7. CASE DenyStatus(a)
    <3>1. status[r] \in {"pendente", "cancelado"}
      BY <2>1, <2>7 DEF DenyStatus, WriteStatus, ReadStillHolds
    <3>2. UNCHANGED Lifecycle!lifecycle \/ Lifecycle!Move(r, "negado", FALSE)
      BY <1>6, <2>7 DEF DenyStatus, Statuses, Open, Live
    <3> QED BY <3>1, <3>2 DEF Lifecycle!Next, Lifecycle!Refuse
  <2>8. CASE RevokeStatus(a)
    <3>1. status[r] \in Live /\ ~Readable(r)
      BY <2>1, <2>8 DEF RevokeStatus, WriteStatus, ReadStillHolds, Readable
    <3>2. UNCHANGED Lifecycle!lifecycle \/ Lifecycle!Move(r, "revogado", FALSE)
      BY <1>6, <2>8 DEF RevokeStatus, Statuses, Open, Live
    <3> QED BY <3>1, <3>2 DEF Lifecycle!Next, Lifecycle!Revoke, Lifecycle!Granted, Live
  <2>9. CASE KeepStatus(a)
    <3>1. status[r] = "revogacao_solicitada"
      BY <2>1, <2>9 DEF KeepStatus, WriteStatus, ReadStillHolds
    <3>2. CASE Readable(r)
      <4>1. secret[r] # NoSecret /\ active[r]
        BY <3>2 DEF Readable
      <4>2. UNCHANGED Lifecycle!lifecycle \/ Lifecycle!Move(r, "aprovado", TRUE)
        BY <1>6, <2>9, <4>1 DEF KeepStatus, Statuses, Open, Live
      <4>3. Lifecycle!Move(r, "aprovado", TRUE) => Lifecycle!Keep(r)
        BY <3>1, <3>2 DEF Lifecycle!Keep, Lifecycle!Move
      <4> QED BY <4>2, <4>3 DEF Lifecycle!Next
    <3>3. CASE ~Readable(r)
      <4>1. ~(secret[r] # NoSecret /\ active[r])
        BY <3>1, <3>3 DEF Readable, Live
      <4>2. UNCHANGED Lifecycle!lifecycle \/ Lifecycle!Move(r, "aprovado", FALSE)
        BY <1>6, <2>9, <4>1 DEF KeepStatus, Statuses, Open, Live
      <4>3. Lifecycle!Move(r, "aprovado", FALSE) => Lifecycle!Keep(r)
        <5>1. Readable(r) = FALSE
          BY <3>3 DEF Readable
        <5> QED BY <3>1, <5>1 DEF Lifecycle!Keep, Lifecycle!Move
      <4> QED BY <4>2, <4>3 DEF Lifecycle!Next
    <3> QED BY <3>2, <3>3
  <2> QED BY <1>7, <2>3, <2>4, <2>5, <2>6, <2>7, <2>8, <2>9 DEF AdminWork
<1>8. \/ UNCHANGED tables
      \/ \E u \in Callers : CreateInsert(u)
      \/ \E r \in Requests : Cancel(r) \/ RequestRevocation(r)
      \/ \E a \in Admins : AdminWork(a)
  BY DEF Next, vars, UserStep, CreateCheck, RevealRead, RevealAudit, RevealReturn,
         UserCrash, AdminCrash, AdminRead, ReadForApproval, ReadForDenial,
         ReadForRevoke, ReadForConfirm, ReadForKeep, ReadForUpdate, Enter
<1>9. UNCHANGED tables => UNCHANGED Lifecycle!lifecycle
  BY AccessSame DEF tables, Readable
<1> QED BY <1>1, <1>2, <1>3, <1>7, <1>8, <1>9

\* The handlers implement the lifecycle as long as no two curators' calls work
\* on one request: access is given by a grant only, cut before the request is
\* declared revoked, and a closed request stays closed but for a decision that
\* was under way when its user cancelled it.
THEOREM Implements == Spec /\ []OneAdminPerRequest => ImplementsLifecycle
<1>1. Init => Lifecycle!Init
  BY DEF Init, Lifecycle!Init, Readable, Live
<1>2. TypeOK /\ CurationInv /\ [Next]_vars => [Lifecycle!Next]_Lifecycle!lifecycle
  BY StatementRefines
<1> QED BY <1>1, <1>2, TypeCorrect, CurationInvariant, PTL
        DEF Spec, ImplementsLifecycle, Lifecycle!Spec
=============================================================================
