---------------------------- MODULE RolePermissions ----------------------------
(***************************************************************************)
(* The features each role may use: src/app/services/permission_service.py, *)
(* over the tables that migration 026 fills and 027 adds to.  Three        *)
(* queries decide what a role has: the one a request is held to, the list  *)
(* a user sees and the matrix an administrator edits.                      *)
(*                                                                         *)
(* An action is one SQL statement or transaction of a call, with the       *)
(* Python that follows it, or one statement of 027, which runs without a   *)
(* transaction while calls are served and again if it did not end.  The    *)
(* system starts with 026 in force and the role that 027 adds, which has   *)
(* no row yet.  Names, areas and menus of features are left out; so is     *)
(* app_features.is_active, which no code clears.                           *)
(***************************************************************************)
EXTENDS Naturals

CONSTANTS
    Roles, Admin, NewRole,   \* "admin" and "gestor_produto"
    Features, Old,           \* Old: those of migration 026; the others are 027's
    Global, OfAdmin,         \* GLOBAL_ and ADMIN_REQUIRED_PERMISSIONS
    Default,                 \* DEFAULT_ROLE_PERMISSIONS, which both migrations repeat
    Calls,                   \* of update_role_permissions and reset_role_defaults
    NoRole,
    MaxEdits, MaxFailures    \* bounds

Required(r) == IF r = Admin THEN Global \cup OfAdmin ELSE Global

ASSUME RoleAssumption    == Admin \in Roles /\ NewRole \in Roles \ {Admin} /\ NoRole \notin Roles
ASSUME FeatureAssumption == Old \subseteq Features /\ Global \cup OfAdmin \subseteq Old
ASSUME DefaultAssumption == Default \in [Roles -> SUBSET Features] /\ \A r \in Roles : Required(r) \subseteq Default[r]
ASSUME BoundAssumption   == MaxEdits \in Nat /\ MaxFailures \in Nat

VARIABLES
    stage,     \* the statement of 027 that comes next
    features,  \* app_features
    grant,     \* role_feature_permissions: is_enabled, or "none" where there is no row
    req,       \* what a call remembers between its statements
    edits, failures,
    granted,   \* history: 027's grants have been in force
    last,      \* history: what the last call to save a role's grants chose
    kept,      \* history: the features that choice still settles
    replay,    \* history: what the audit trail of a role, replayed, says it has
    muddled    \* history: roles whose edits overlapped one another or 027, or died

tables  == <<stage, features, grant, granted, last, kept>>
trail   == <<replay, muddled>>
vars    == <<tables, trail, req, edits, failures>>

Steps == {"idle", "before", "save", "after", "audit"}

Request == [step : Steps, role : Roles \cup {NoRole}, keys : SUBSET Features,
            before : SUBSET Features, added : SUBSET Features, removed : SUBSET Features]

Idle == [step |-> "idle", role |-> NoRole, keys |-> {}, before |-> {}, added |-> {}, removed |-> {}]

TypeOK ==
    /\ stage \in {"features", "grants", "record", "done"}
    /\ features \subseteq Features
    /\ grant \in [Roles -> [Features -> {"none", "on", "off"}]]
    /\ req \in [Calls -> Request]
    /\ edits \in Nat /\ failures \in Nat
    /\ granted \in BOOLEAN
    /\ last \in [Roles -> SUBSET Features] /\ kept \in [Roles -> SUBSET Features]
    /\ replay \in [Roles -> SUBSET Features] /\ muddled \subseteq Roles
    /\ \A r \in Roles, f \in Features \ features : grant[r][f] = "none"
    /\ \A c \in Calls : req[c].step # "idle" => req[c].role # NoRole

-----------------------------------------------------------------------------
(* What a role has *)

OnOff(yes) == IF yes THEN "on" ELSE "off"

\* user_has_permission.
Has(r, f) ==
    \/ f \in Required(r)
    \/ f \in features /\ grant[r][f] = "on"
    \/ (f \notin features \/ grant[r][f] = "none") /\ f \in Default[r]

\* Mutation: what a role has by default counts though it was taken away.
ListedDespite(r) ==
    {f \in features : grant[r][f] = "on" \/ f \in Required(r) \/ f \in Default[r]}

\* list_enabled_permissions_for_role, and get_permissions_for_role.
Listed(r) ==
    {f \in features : \/ grant[r][f] = "on"
                      \/ f \in Required(r)
                      \/ grant[r][f] = "none" /\ f \in Default[r]}

\* get_permissions_matrix.
Matrix(r) == {f \in features : grant[r][f] = "on" \/ f \in Required(r)}

-----------------------------------------------------------------------------

Init ==
    /\ stage = "features" /\ features = Old
    /\ grant = [r \in Roles |-> [f \in Features |->
                  IF r = NewRole \/ f \notin Old THEN "none" ELSE OnOff(f \in Default[r])]]
    /\ req = [c \in Calls |-> Idle]
    /\ edits = 0 /\ failures = 0
    /\ granted = FALSE
    /\ last = [r \in Roles |-> {}] /\ kept = [r \in Roles |-> {}]
    /\ replay = [r \in Roles |-> Old \cap Default[r]] /\ muddled = {}

At(c, step) == req[c].step = step
Answer(c)   == req' = [req EXCEPT ![c] = Idle]

\* c has read what its role had, and not yet told the trail what it has now.
Saving(c, r) == req[c].step \in {"save", "after", "audit"} /\ req[c].role = r

-----------------------------------------------------------------------------
(* Migration 027 *)

\* The trail says nothing of the migration: where no call is saving, it is read on
\* from what the role has now; elsewhere it is muddled.
Unaudited ==
    /\ muddled' = muddled \cup {r \in Roles : \E c \in Calls : Saving(c, r)}
    /\ replay' = [r \in Roles |-> Listed(r)']

\* INSERT INTO app_features ... ON CONFLICT DO UPDATE.
SeedFeatures ==
    /\ stage = "features" /\ stage' = "grants"
    /\ features' = Features
    /\ UNCHANGED <<grant, granted, last, kept, req, edits, failures>>
    /\ Unaudited

\* The rows 027 gives r: for the new role, of all it has by default.
SeededFor(r) == IF r = NewRole THEN Default[r] ELSE Features \ Old

\* INSERT INTO role_feature_permissions ... ON CONFLICT DO UPDATE.
SeedGrants ==
    /\ stage = "grants" /\ stage' = "record"
    /\ grant' = [r \in Roles |-> [f \in Features |->
                   IF f \in SeededFor(r) THEN OnOff(f \in Default[r]) ELSE grant[r][f]]]
    /\ granted' = TRUE
    /\ kept' = [r \in Roles |-> kept[r] \ SeededFor(r)]
    /\ UNCHANGED <<features, last, req, edits, failures>>
    /\ Unaudited

\* INSERT INTO _migrations.
Record ==
    /\ stage = "record" /\ stage' = "done"
    /\ UNCHANGED <<features, grant, granted, last, kept, trail, req, edits, failures>>

\* The run fails or dies before the file is recorded, and the next one starts it anew.
MigrationFails ==
    /\ stage \in {"grants", "record"} /\ failures < MaxFailures
    /\ stage' = "features" /\ failures' = failures + 1
    /\ UNCHANGED <<features, grant, granted, last, kept, trail, req, edits>>

-----------------------------------------------------------------------------
(* update_role_permissions, and reset_role_defaults, which calls it *)

\* _normalize_permissions and _ensure_features_exist; an unknown feature is answered 400.
Begin(c) ==
    /\ At(c, "idle") /\ edits < MaxEdits
    /\ \E r \in Roles, keys \in SUBSET Features :
        LET normalized == keys \cup Required(r) IN
        /\ normalized \subseteq features
        /\ req' = [req EXCEPT ![c] = [Idle EXCEPT !.step = "before", !.role = r, !.keys = normalized]]
    /\ edits' = edits + 1
    /\ UNCHANGED <<tables, trail, failures>>

\* before = list_enabled_permissions_for_role.
Before(c) ==
    /\ At(c, "before")
    /\ LET r == req[c].role IN
        /\ req' = [req EXCEPT ![c].step = "save", ![c].before = Listed(r)]
        /\ muddled' = IF \E d \in Calls : Saving(d, r) THEN muddled \cup {r} ELSE muddled
    /\ UNCHANGED <<tables, replay, edits, failures>>

\* Mutation: the transaction raises what was chosen and lowers nothing.
SaveRaises(c) ==
    /\ At(c, "save")
    /\ LET r == req[c].role IN
        /\ grant' = [grant EXCEPT ![r] = [f \in Features |->
                        CASE f \in req[c].keys                           -> "on"
                          [] f \in features \ req[c].keys /\ @[f] = "none" -> "off"
                          [] OTHER                                       -> @[f]]]
        /\ last' = [last EXCEPT ![r] = req[c].keys]
        /\ kept' = [kept EXCEPT ![r] = features]
    /\ req' = [req EXCEPT ![c].step = "after"]
    /\ UNCHANGED <<stage, features, granted, trail, edits, failures>>

\* The transaction: a row for every feature, and each row as chosen.
Save(c) ==
    /\ At(c, "save")
    /\ LET r == req[c].role IN
        /\ grant' = [grant EXCEPT ![r] = [f \in Features |->
                        IF f \in features THEN OnOff(f \in req[c].keys) ELSE "none"]]
        /\ last' = [last EXCEPT ![r] = req[c].keys]
        /\ kept' = [kept EXCEPT ![r] = features]
    /\ req' = [req EXCEPT ![c].step = "after"]
    /\ UNCHANGED <<stage, features, granted, trail, edits, failures>>

\* Mutation: added and removed are swapped.
AfterSwapped(c) ==
    /\ At(c, "after")
    /\ LET after == Listed(req[c].role) IN
        req' = [req EXCEPT ![c].step = "audit", ![c].removed = after \ req[c].before,
                           ![c].added = req[c].before \ after]
    /\ UNCHANGED <<tables, trail, edits, failures>>

\* after = list_enabled_permissions_for_role.
After(c) ==
    /\ At(c, "after")
    /\ LET after == Listed(req[c].role) IN
        req' = [req EXCEPT ![c].step = "audit", ![c].added = after \ req[c].before,
                           ![c].removed = req[c].before \ after]
    /\ UNCHANGED <<tables, trail, edits, failures>>

\* log_audit.
Audit(c) ==
    /\ At(c, "audit")
    /\ replay' = [replay EXCEPT ![req[c].role] = (@ \cup req[c].added) \ req[c].removed]
    /\ Answer(c)
    /\ UNCHANGED <<tables, muddled, edits, failures>>

\* A call dies between two statements.
Crash(c) ==
    /\ ~At(c, "idle") /\ failures < MaxFailures
    /\ Answer(c)
    /\ muddled' = IF req[c].step \in {"after", "audit"} THEN muddled \cup {req[c].role} ELSE muddled
    /\ failures' = failures + 1
    /\ UNCHANGED <<tables, replay, edits>>

EditStep(c) == Begin(c) \/ Before(c) \/ Save(c) \/ After(c) \/ Audit(c) \/ Crash(c)

Next ==
    \/ SeedFeatures \/ SeedGrants \/ Record \/ MigrationFails
    \/ \E c \in Calls : EditStep(c)

Spec == Init /\ [][Next]_vars

-----------------------------------------------------------------------------
(* Properties *)

\* What a request is held to is what the user is shown and, once 027's grants have been
\* in force, what an administrator sees: three queries, one answer.
DecidersAgree ==
    \A r \in Roles, f \in features :
        /\ Has(r, f) <=> f \in Listed(r)
        /\ granted => (Has(r, f) <=> f \in Matrix(r))

\* Whoever saved a role's grants last has them whole, never mixed with another's; what
\* came later, or 027 granted since, is as by default.
EnabledIsChosen ==
    \A r \in Roles, f \in features :
        f \in Listed(r) <=> IF f \in kept[r] THEN f \in last[r] ELSE f \in Default[r]

\* The audit trail of a role, replayed, gives what it has, unless edits overlapped.
TrailReplays ==
    \A r \in Roles \ muddled :
        (\A c \in Calls : ~Saving(c, r)) => replay[r] = Listed(r)
=============================================================================
