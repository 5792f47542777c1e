----------------------------- MODULE ModelAccess -----------------------------
(***************************************************************************)
(* Requests of access to an AI model and the credentials granted for them: *)
(* src/app/routers/model_access.py over the two tables of                  *)
(* src/docs/migrations/020_model_access_requests.sql.                      *)
(*                                                                         *)
(* A handler is a coroutine that awaits one autocommitted SQL statement    *)
(* after another, without a transaction and without a lock, so any other   *)
(* handler may run between two of its statements.  An action below is one  *)
(* statement with the Python that follows it up to the next await.  The    *)
(* answer a handler gives after its last statement, an early 400/404/409   *)
(* and a read that grants nothing change no state and are stuttering.      *)
(* Only the audit rows a property is about are kept: those of a revealed   *)
(* secret and those of a curator's decision.                               *)
(***************************************************************************)
EXTENDS Naturals, FiniteSets

CONSTANTS
    Requests,     \* identifiers (UUIDs) of access requests
    Apps,         \* <model, user, normalised application name> triples
    AppOf,        \* the application a request identifier will be used for
    Callers,      \* in-flight calls of the requesting users
    Admins,       \* in-flight calls of holders of admin.model_access.manage
    Secrets,      \* access secrets
    NoSecret,     \* no credentials row exists
    NoRequest,    \* the call is idle
    MaxCrashes,   \* bound: how many calls may die between two statements
    MaxReveals    \* bound: reveal-secret calls one caller slot serves

ASSUME AppOfAssumption == AppOf \in [Requests -> Apps]
ASSUME NullAssumption  == NoSecret \notin Secrets /\ NoRequest \notin Requests
ASSUME BoundAssumption == MaxCrashes \in Nat /\ MaxReveals \in Nat

VARIABLES
    status,      \* model_access_requests.status; "nenhum": row not inserted
    secret,      \* model_access_credentials.access_secret_encrypted
    active,      \* model_access_credentials.is_active
    pc,          \* next statement of an admin's call
    req,         \* request_id an admin's call works on
    merged,      \* the secret the admin's call will store
    upc,         \* next statement of a user's call
    ureq,        \* request a user's call works on
    revealRows,  \* MODEL_ACCESS_SECRET_REVEAL audit rows written by a slot
    disclosed,   \* secrets returned to the user by a slot
    lastAudit,   \* latest decision row of the request in audit_logs
    lastNotice,  \* latest decision the requesting user was notified of
    crashes      \* calls that died so far

tables == <<status, secret, active>>
admin  == <<pc, req, merged>>
user   == <<upc, ureq, revealRows, disclosed>>
trail  == <<lastAudit, lastNotice>>
vars   == <<tables, admin, user, trail, crashes>>

-----------------------------------------------------------------------------
(* Types *)

Live     == {"aprovado", "revogacao_solicitada"}  \* status that gives access
Open     == Live \cup {"pendente"}                \* predicate of the unique index
Statuses == Open \cup {"negado", "revogado", "cancelado"}
Verdicts == {"APPROVE", "DENY", "REVOKE", "REJECT_REVOKE"}

AdminSteps ==
    {"idle", "approve_upsert", "approve_status", "approve_audit", "approve_notify",
     "deny_status", "deny_audit", "deny_notify",
     "revoke_cut", "revoke_status", "revoke_audit", "revoke_notify",
     "keep_status", "keep_restore", "keep_audit", "keep_notify",
     "update_upsert"}
UserSteps == {"idle", "create_insert", "reveal_audit", "reveal_return"}

TypeOK ==
    /\ status \in [Requests -> Statuses \cup {"nenhum"}]
    /\ secret \in [Requests -> Secrets \cup {NoSecret}]
    /\ active \in [Requests -> BOOLEAN]
    /\ pc \in [Admins -> AdminSteps]
    /\ req \in [Admins -> Requests \cup {NoRequest}]
    /\ \A a \in Admins : pc[a] # "idle" => req[a] \in Requests
    /\ merged \in [Admins -> Secrets \cup {NoSecret}]
    /\ \A a \in Admins : pc[a] \in {"approve_upsert", "update_upsert"}
                            => merged[a] \in Secrets
    /\ upc \in [Callers -> UserSteps]
    /\ ureq \in [Callers -> Requests \cup {NoRequest}]
    /\ \A u \in Callers : upc[u] # "idle" => ureq[u] \in Requests
    /\ revealRows \in [Callers -> Nat]
    /\ disclosed \in [Callers -> Nat]
    /\ lastAudit \in [Requests -> Verdicts \cup {"none"}]
    /\ lastNotice \in [Requests -> Verdicts \cup {"none"}]
    /\ crashes \in Nat

Init ==
    /\ status = [r \in Requests |-> "nenhum"]
    /\ secret = [r \in Requests |-> NoSecret]
    /\ active = [r \in Requests |-> FALSE]
    /\ pc = [a \in Admins |-> "idle"]
    /\ req = [a \in Admins |-> NoRequest]
    /\ merged = [a \in Admins |-> NoSecret]
    /\ upc = [u \in Callers |-> "idle"]
    /\ ureq = [u \in Callers |-> NoRequest]
    /\ revealRows = [u \in Callers |-> 0]
    /\ disclosed = [u \in Callers |-> 0]
    /\ lastAudit = [r \in Requests |-> "none"]
    /\ lastNotice = [r \in Requests |-> "none"]
    /\ crashes = 0

-----------------------------------------------------------------------------
(* The tables *)

\* Mutation: the index forgets requests whose revocation was asked for.
IndexAllowsTwo(r, s) ==
    s \in Open =>
        \A q \in Requests \ {r} :
            AppOf[q] = AppOf[r] => status[q] \notin {"pendente", "aprovado"}

\* uq_model_access_requests_active_application_name: a row may hold status s
\* only if no other row of its application is in an open status.
IndexAllows(r, s) ==
    s \in Open =>
        \A q \in Requests \ {r} : AppOf[q] = AppOf[r] => status[q] \notin Open

\* UPDATE model_access_requests SET status = s WHERE id = r.
SetStatus(r, s) == status' = [status EXCEPT ![r] = s]

\* INSERT INTO model_access_credentials ... ON CONFLICT DO UPDATE, is_active TRUE.
UpsertCredentials(r, s) ==
    /\ secret' = [secret EXCEPT ![r] = s]
    /\ active' = [active EXCEPT ![r] = TRUE]

\* UPDATE model_access_credentials SET is_active = b WHERE request_id = r.
SetActive(r, b) ==
    /\ active' = [active EXCEPT ![r] = b /\ secret[r] # NoSecret]
    /\ UNCHANGED secret

\* What the requesting user may read: the guard of get_my_credentials and of
\* reveal_my_secret, over the row _get_request_row returns.
Readable(r) == status[r] \in Live /\ secret[r] # NoSecret /\ active[r]

-----------------------------------------------------------------------------
(* Calls of the requesting user *)

UserGoto(u, step, r) ==
    /\ upc' = [upc EXCEPT ![u] = step]
    /\ ureq' = [ureq EXCEPT ![u] = r]

\* create_request: _ensure_active_unique found no open request of the application.
CreateCheck(u) ==
    /\ upc[u] = "idle"
    /\ \E r \in Requests :
        /\ \A q \in Requests : AppOf[q] = AppOf[r] => status[q] \notin Open
        /\ status[r] = "nenhum"
        /\ \A v \in Callers : ureq[v] # r
        /\ UserGoto(u, "create_insert", r)
    /\ UNCHANGED <<tables, admin, revealRows, disclosed, trail, crashes>>

\* create_request: the INSERT, which fails when the index forbids the row.
CreateInsert(u) ==
    /\ upc[u] = "create_insert"
    /\ IF IndexAllows(ureq[u], "pendente")
       THEN SetStatus(ureq[u], "pendente")
       ELSE UNCHANGED status
    /\ UserGoto(u, "idle", NoRequest)
    /\ UNCHANGED <<secret, active, admin, revealRows, disclosed, trail, crashes>>

\* Mutation: an approved request can be cancelled too.
CancelGranted(r) ==
    /\ status[r] \in {"pendente", "aprovado"}
    /\ SetStatus(r, "cancelado")
    /\ UNCHANGED <<secret, active, admin, user, trail, crashes>>

\* cancel_my_request: one conditional UPDATE.
Cancel(r) ==
    /\ status[r] = "pendente"
    /\ SetStatus(r, "cancelado")
    /\ UNCHANGED <<secret, active, admin, user, trail, crashes>>

\* request_revocation: one conditional UPDATE.
RequestRevocation(r) ==
    /\ status[r] = "aprovado"
    /\ SetStatus(r, "revogacao_solicitada")
    /\ UNCHANGED <<secret, active, admin, user, trail, crashes>>

\* Mutation: the secret is returned without writing the audit row first.
RevealUnaudited(u) ==
    /\ upc[u] = "idle"
    /\ revealRows[u] < MaxReveals
    /\ \E r \in Requests : Readable(r) /\ UserGoto(u, "reveal_return", r)
    /\ UNCHANGED <<tables, admin, revealRows, disclosed, trail, crashes>>

\* reveal_my_secret: the row is read and its guard holds.
RevealRead(u) ==
    /\ upc[u] = "idle"
    /\ revealRows[u] < MaxReveals
    /\ \E r \in Requests : Readable(r) /\ UserGoto(u, "reveal_audit", r)
    /\ UNCHANGED <<tables, admin, revealRows, disclosed, trail, crashes>>

\* reveal_my_secret: log_audit(MODEL_ACCESS_SECRET_REVEAL).
RevealAudit(u) ==
    /\ upc[u] = "reveal_audit"
    /\ revealRows' = [revealRows EXCEPT ![u] = @ + 1]
    /\ UserGoto(u, "reveal_return", ureq[u])
    /\ UNCHANGED <<tables, admin, disclosed, trail, crashes>>

\* reveal_my_secret: the secret of the row read earlier goes to the user.
RevealReturn(u) ==
    /\ upc[u] = "reveal_return"
    /\ disclosed' = [disclosed EXCEPT ![u] = @ + 1]
    /\ UserGoto(u, "idle", NoRequest)
    /\ UNCHANGED <<tables, admin, revealRows, trail, crashes>>

-----------------------------------------------------------------------------
(* Calls of an administrator or model curator *)

Goto(a, step) ==
    /\ pc' = [pc EXCEPT ![a] = step]
    /\ UNCHANGED <<req, merged>>

\* The call is over: its frame is gone.
Done(a) ==
    /\ pc' = [pc EXCEPT ![a] = "idle"]
    /\ req' = [req EXCEPT ![a] = NoRequest]
    /\ merged' = [merged EXCEPT ![a] = NoSecret]

\* The call has read request r and goes on with `step`, to store secret s.
Enter(a, step, r, s) ==
    /\ pc[a] = "idle"
    /\ pc' = [pc EXCEPT ![a] = step]
    /\ req' = [req EXCEPT ![a] = r]
    /\ merged' = [merged EXCEPT ![a] = s]
    /\ UNCHANGED <<tables, user, trail, crashes>>

\* Mutation: a refused request can still be approved.
ReadForLateApproval(a) ==
    \E r \in Requests, s \in Secrets :
        /\ status[r] \in {"pendente", "negado"}
        /\ Enter(a, "approve_upsert", r, s)

\* admin_decide_request, action "aprovar" with complete credentials.
ReadForApproval(a) ==
    \E r \in Requests, s \in Secrets :
        /\ status[r] = "pendente"
        /\ Enter(a, "approve_upsert", r, s)

\* admin_decide_request, action "negar" with review notes.
ReadForDenial(a) ==
    \E r \in Requests :
        /\ status[r] = "pendente"
        /\ Enter(a, "deny_status", r, NoSecret)

\* admin_revoke_request.
ReadForRevoke(a) ==
    \E r \in Requests :
        /\ status[r] = "aprovado"
        /\ Enter(a, "revoke_cut", r, NoSecret)

\* admin_review_revocation, action "confirmar": the same writes as a revoke.
ReadForConfirm(a) ==
    \E r \in Requests :
        /\ status[r] = "revogacao_solicitada"
        /\ Enter(a, "revoke_cut", r, NoSecret)

\* admin_review_revocation, action "rejeitar" with review notes.
ReadForKeep(a) ==
    \E r \in Requests :
        /\ status[r] = "revogacao_solicitada"
        /\ Enter(a, "keep_status", r, NoSecret)

\* admin_update_credentials: s is the secret the body gives or, for a body without
\* one, that of the row just read, which is read even when the credentials are
\* inactive.  What another curator stores before the upsert, the upsert overwrites.
ReadForUpdate(a) ==
    \E r \in Requests, s \in Secrets :
        /\ status[r] \in Live
        /\ Enter(a, "update_upsert", r, s)

\* _upsert_credentials, called by an approval.
ApproveUpsert(a) ==
    /\ pc[a] = "approve_upsert"
    /\ UpsertCredentials(req[a], merged[a])
    /\ Goto(a, "approve_status")
    /\ UNCHANGED <<status, user, trail, crashes>>

\* _upsert_credentials, the only write of admin_update_credentials.
UpdateUpsert(a) ==
    /\ pc[a] = "update_upsert"
    /\ UpsertCredentials(req[a], merged[a])
    /\ Done(a)
    /\ UNCHANGED <<status, user, trail, crashes>>

\* Mutation: the credentials are left on.
RevokeWithoutCut(a) ==
    /\ pc[a] = "revoke_cut"
    /\ Goto(a, "revoke_status")
    /\ UNCHANGED <<tables, user, trail, crashes>>

\* Mutation: the call ends once the credentials are off.
RevokeOnlyCut(a) ==
    /\ pc[a] = "revoke_cut"
    /\ SetActive(req[a], FALSE)
    /\ Done(a)
    /\ UNCHANGED <<status, user, trail, crashes>>

\* admin_revoke_request and "confirmar": the credentials are switched off first.
RevokeCut(a) ==
    /\ pc[a] = "revoke_cut"
    /\ SetActive(req[a], FALSE)
    /\ Goto(a, "revoke_status")
    /\ UNCHANGED <<status, user, trail, crashes>>

\* "rejeitar": the credentials are switched on after the status.
KeepRestore(a) ==
    /\ pc[a] = "keep_restore"
    /\ SetActive(req[a], TRUE)
    /\ Goto(a, "keep_audit")
    /\ UNCHANGED <<status, user, trail, crashes>>

\* Mutation: the refusal of the index is swallowed and the decision goes on.
WriteStatusSwallowed(a, step, s, next) ==
    /\ pc[a] = step
    /\ IF IndexAllows(req[a], s) THEN SetStatus(req[a], s) ELSE UNCHANGED status
    /\ Goto(a, next)
    /\ UNCHANGED <<secret, active, user, trail, crashes>>

\* The UPDATE ... WHERE id = $1 of a decision: it looks at no status, and fails
\* (a 500 that ends the call) when the index forbids the new one.
WriteStatus(a, step, s, next) ==
    /\ pc[a] = step
    /\ IF IndexAllows(req[a], s)
       THEN SetStatus(req[a], s) /\ Goto(a, next)
       ELSE UNCHANGED status /\ Done(a)
    /\ UNCHANGED <<secret, active, user, trail, crashes>>

ApproveStatus(a) == WriteStatus(a, "approve_status", "aprovado", "approve_audit")
DenyStatus(a)    == WriteStatus(a, "deny_status", "negado", "deny_audit")
RevokeStatus(a)  == WriteStatus(a, "revoke_status", "revogado", "revoke_audit")
KeepStatus(a)    == WriteStatus(a, "keep_status", "aprovado", "keep_restore")

\* _log_audit with the decision.
WriteAudit(a, step, verdict, next) ==
    /\ pc[a] = step
    /\ lastAudit' = [lastAudit EXCEPT ![req[a]] = verdict]
    /\ Goto(a, next)
    /\ UNCHANGED <<tables, user, lastNotice, crashes>>

Audit(a) ==
    \/ WriteAudit(a, "approve_audit", "APPROVE", "approve_notify")
    \/ WriteAudit(a, "deny_audit", "DENY", "deny_notify")
    \/ WriteAudit(a, "revoke_audit", "REVOKE", "revoke_notify")
    \/ WriteAudit(a, "keep_audit", "REJECT_REVOKE", "keep_notify")

\* _notify_model_access_user; the call then answers.
SendNotice(a, step, verdict) ==
    /\ pc[a] = step
    /\ lastNotice' = [lastNotice EXCEPT ![req[a]] = verdict]
    /\ Done(a)
    /\ UNCHANGED <<tables, user, lastAudit, crashes>>

Notify(a) ==
    \/ SendNotice(a, "approve_notify", "APPROVE")
    \/ SendNotice(a, "deny_notify", "DENY")
    \/ SendNotice(a, "revoke_notify", "REVOKE")
    \/ SendNotice(a, "keep_notify", "REJECT_REVOKE")

-----------------------------------------------------------------------------
(* A call dies between two statements: the process stops, the database      *)
(* connection is lost or a statement raises.  What it committed stays.      *)

AdminCrash(a) ==
    /\ crashes < MaxCrashes
    /\ pc[a] # "idle"
    /\ Done(a)
    /\ crashes' = crashes + 1
    /\ UNCHANGED <<tables, user, trail>>

UserCrash(u) ==
    /\ crashes < MaxCrashes
    /\ upc[u] # "idle"
    /\ UserGoto(u, "idle", NoRequest)
    /\ crashes' = crashes + 1
    /\ UNCHANGED <<tables, admin, revealRows, disclosed, trail>>

-----------------------------------------------------------------------------

UserStep(u) ==
    \/ CreateCheck(u) \/ CreateInsert(u)
    \/ RevealRead(u) \/ RevealAudit(u) \/ RevealReturn(u)

AdminRead(a) ==
    \/ ReadForApproval(a) \/ ReadForDenial(a) \/ ReadForRevoke(a)
    \/ ReadForConfirm(a) \/ ReadForKeep(a) \/ ReadForUpdate(a)

AdminWork(a) ==
    \/ ApproveUpsert(a) \/ UpdateUpsert(a) \/ RevokeCut(a) \/ KeepRestore(a)
    \/ ApproveStatus(a) \/ DenyStatus(a) \/ RevokeStatus(a) \/ KeepStatus(a)
    \/ Audit(a) \/ Notify(a)

Next ==
    \/ \E u \in Callers : UserStep(u) \/ UserCrash(u)
    \/ \E r \in Requests : Cancel(r) \/ RequestRevocation(r)
    \/ \E a \in Admins : AdminRead(a) \/ AdminWork(a) \/ AdminCrash(a)

Spec == Init /\ [][Next]_vars

\* A coroutine whose statement has returned is resumed by the event loop.
FairSpec == Spec /\ \A a \in Admins : WF_vars(AdminWork(a))

-----------------------------------------------------------------------------
(* Properties *)

\* No two curators' calls are working on one request.  The code does nothing
\* to enforce it; the properties that need it say so.
OneAdminPerRequest ==
    \A a, b \in Admins : pc[a] # "idle" /\ pc[b] # "idle" /\ req[a] = req[b] => a = b

\* An application never has two open requests, whatever check-then-insert,
\* late approvals and rejected revocations interleave with a new request.
UniqueOpenRequest ==
    \A r, q \in Requests :
        status[r] \in Open /\ status[q] \in Open /\ AppOf[r] = AppOf[q] => r = q

\* A secret reaches the user only after its own audit row is committed, also
\* when calls die on the way.
DisclosureIsAudited == \A u \in Callers : disclosed[u] <= revealRows[u]

\* A request that says "revogado" has no active credentials: the writes of a
\* revocation fail safe.  Needs OneAdminPerRequest.
RevokedIsCut == \A r \in Requests : status[r] = "revogado" => ~active[r]

\* The latest decision the trail or a notice tells of is one the status has borne
\* out: a call that dies, or whose status the index refuses because the user
\* cancelled the request and asked again, may leave a decision untold but never one
\* told that was not made.  A row or notice lags a later decision whose call died.
\* Needs OneAdminPerRequest.
BorneOut(verdict, s) ==
    /\ verdict \in {"APPROVE", "REJECT_REVOKE"} => s \in Live \cup {"revogado"}
    /\ verdict = "DENY" => s = "negado"
    /\ verdict = "REVOKE" => s = "revogado"
TrailNeverAhead ==
    \A r \in Requests : BorneOut(lastAudit[r], status[r]) /\ BorneOut(lastNotice[r], status[r])

\* The verdicts that can have led to a status.
VerdictsOf(s) ==
    CASE s \in Live        -> {"APPROVE", "REJECT_REVOKE"}
      [] s = "negado"      -> {"DENY"}
      [] s = "revogado"    -> {"REVOKE"}
      [] OTHER             -> {"none"}

Quiet(r) == \A a \in Admins : req[a] # r

\* When no call works on a request, the trail and the user agree with its
\* status, a status that gives access has active credentials, and active
\* credentials without such a status belong to a cancelled request only: the
\* late approval of a request that was cancelled and asked again stores them
\* before the index refuses its status.  Needs OneAdminPerRequest, no crash.
SettledAgrees ==
    crashes = 0 =>
        \A r \in Requests : Quiet(r) =>
            /\ lastAudit[r] \in VerdictsOf(status[r])
            /\ lastNotice[r] = lastAudit[r]
            /\ status[r] \in Live => active[r]
            /\ active[r] => status[r] \in Live \cup {"cancelado"}

\* Access switched off while the status still gives it does not stay so: the
\* revocation completes or the access comes back, as long as no call dies.
HalfRevoked(r) == status[r] \in Live /\ ~active[r]
HalfRevokedResolves ==
    \A r \in Requests : HalfRevoked(r) ~> ~HalfRevoked(r) \/ crashes > 0

\* "Sua solicitação de revogação ... foi rejeitada e o acesso continua ativo":
\* once no call works on the request, a user whose latest notice says so does
\* have access.
KeptNoticeIsTrue ==
    crashes = 0 =>
        \A r \in Requests :
            Quiet(r) /\ lastNotice[r] = "REJECT_REVOKE" => Readable(r)

\* The handlers implement the lifecycle: a request is granted, cut, kept and
\* revoked in the order it promises, also when calls die on the way.  Needs
\* OneAdminPerRequest.
Lifecycle == INSTANCE AccessLifecycle
                 WITH phase <- status, access <- [r \in Requests |-> Readable(r)]
ImplementsLifecycle == Lifecycle!Spec
=============================================================================
