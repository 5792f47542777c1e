----------------------------- MODULE IdeaCuration -----------------------------
(***************************************************************************)
(* The ideas of the portal and their roadmap                               *)
(* (src/app/services/idea_service.py): the author's handlers, the          *)
(* curators' decisions and the versions ideas are planned for, over the    *)
(* tables of src/docs/migrations/027_ideas_roadmap_foundation.sql.         *)
(*                                                                         *)
(* An action is one SQL statement of a call, or one transaction, with the  *)
(* Python that follows it.  A row that does not exist is left unchanged by *)
(* UPDATE and DELETE, and the call goes on.  The topics of an idea, which  *)
(* no other handler reads, and the audit rows of versions are left out.    *)
(***************************************************************************)
EXTENDS Naturals

CONSTANTS
    Ideas, Versions, Texts, Calls,
    NoIdea, NoVersion, NoText,
    MaxCrashes   \* bound: calls that die between two statements

ASSUME NullAssumption  == NoIdea \notin Ideas /\ NoVersion \notin Versions /\ NoText \notin Texts
ASSUME BoundAssumption == MaxCrashes \in Nat

VARIABLES
    idea,      \* rows of ideas
    version,   \* rows of idea_versions: absent, dropped, or their is_active
    told,      \* decisions the author of each idea was notified of
    audited,   \* audit rows of each idea
    req,       \* what a call remembers between its statements
    crashes,
    reviewed,    \* history: texts of each idea an approval has read
    overlapped   \* history: ideas on which a call wrote over what it had not read

tables == <<idea, version, told, audited>>
vars   == <<tables, req, crashes, reviewed, overlapped>>

Moderation == {"aguardando_curadoria", "publicada", "rejeitada", "exclusao_solicitada", "excluida"}
Statuses   == Moderation \cup {"none", "erased"}

\* published stands for published_at, deleted for deleted_at and planned for
\* idea_status, each not NULL.
Row == [status : Statuses, text : Texts \cup {NoText}, published : BOOLEAN,
        deleted : BOOLEAN, planned : BOOLEAN, version : Versions \cup {NoVersion}]

Decisions == {"approve", "reject", "remove", "approve_deletion", "deny_deletion"}
Acts      == Decisions \cup {"request_deletion", "roadmap", "edit", "erase", "version", "none"}

Steps == {"idle", "write", "notify", "audit", "roadmap_version", "version_count",
          "version_update", "version_deactivate", "version_drop"}

\* status and text are those an approval read, or text the one an edit writes.
Request == [step : Steps, act : Acts, idea : Ideas \cup {NoIdea}, status : Statuses,
            text : Texts \cup {NoText}, version : Versions \cup {NoVersion}]

Idle == [step |-> "idle", act |-> "none", idea |-> NoIdea, status |-> "none",
         text |-> NoText, version |-> NoVersion]

TypeOK ==
    /\ idea \in [Ideas -> Row]
    /\ version \in [Versions -> {"absent", "active", "inactive", "dropped"}]
    /\ told \in [Ideas -> SUBSET Decisions]
    /\ audited \in [Ideas -> SUBSET Acts]
    /\ req \in [Calls -> Request]
    /\ crashes \in Nat
    /\ reviewed \in [Ideas -> SUBSET Texts]
    /\ overlapped \subseteq Ideas
    /\ \A i \in Ideas : idea[i].status = "none" <=> idea[i].text = NoText
    /\ \A c \in Calls : req[c].idea # NoIdea => idea[req[c].idea].status # "none"

Init ==
    /\ idea = [i \in Ideas |-> [status |-> "none", text |-> NoText, published |-> FALSE,
                                deleted |-> FALSE, planned |-> FALSE, version |-> NoVersion]]
    /\ version = [v \in Versions |-> "absent"]
    /\ told = [i \in Ideas |-> {}]
    /\ audited = [i \in Ideas |-> {}]
    /\ req = [c \in Calls |-> Idle]
    /\ crashes = 0
    /\ reviewed = [i \in Ideas |-> {}]
    /\ overlapped = {}

-----------------------------------------------------------------------------

Enter(c, r)   == req' = [req EXCEPT ![c] = r]
Goto(c, step) == req' = [req EXCEPT ![c].step = step]
Answer(c)     == req' = [req EXCEPT ![c] = Idle]

At(c, step)     == req[c].step = step
Doing(c, act)   == At(c, "write") /\ req[c].act = act
Exists(i)       == idea[i].status \in Moderation

\* What a call that has read idea i goes on with.
Reading(i, act) ==
    [Idle EXCEPT !.step = "write", !.act = act, !.idea = i, !.status = idea[i].status,
                 !.text = IF act = "approve" THEN idea[i].text ELSE NoText]

Planning(i, step, v) ==
    [Idle EXCEPT !.step = step, !.act = "roadmap", !.idea = i, !.version = v]

\* The write is done; its notification or audit row is still to come.
Proceed(c, step) ==
    Enter(c, [Idle EXCEPT !.step = step, !.act = req[c].act, !.idea = req[c].idea])

\* Mutation: the statement is an upsert.
WriteUpsert(c, row) ==
    /\ idea' = [idea EXCEPT ![req[c].idea] = row]
    /\ overlapped' = IF \/ idea[req[c].idea].status # req[c].status
                        \/ req[c].act = "approve" /\ idea[req[c].idea].text # req[c].text
                     THEN overlapped \cup {req[c].idea} ELSE overlapped

\* A statement of c writes row over the row of its idea, if that still exists.
Write(c, row) ==
    LET i == req[c].idea IN
    /\ idea' = [idea EXCEPT ![i] = IF Exists(i) THEN row ELSE @]
    /\ overlapped' = IF /\ Exists(i)
                        /\ \/ idea[i].status # req[c].status
                           \/ req[c].act = "approve" /\ idea[i].text # req[c].text
                     THEN overlapped \cup {i} ELSE overlapped

Seen == UNCHANGED <<tables, crashes, reviewed, overlapped>>

-----------------------------------------------------------------------------
(* The author *)

\* create_idea: one transaction.
Create(i) ==
    /\ idea[i].status = "none"
    /\ \E text \in Texts :
        idea' = [idea EXCEPT ![i].status = "aguardando_curadoria", ![i].text = text]
    /\ UNCHANGED <<version, told, audited, req, crashes, reviewed, overlapped>>

\* Mutation: the status is not looked at.
AuthorMayChangeAny(i) == Exists(i) /\ ~idea[i].deleted

\* _can_author_change.
AuthorMayChange(i) == idea[i].status = "aguardando_curadoria" /\ ~idea[i].deleted

EditRead(c) ==
    /\ At(c, "idle")
    /\ \E i \in Ideas, text \in Texts :
        AuthorMayChange(i) /\ Enter(c, [Reading(i, "edit") EXCEPT !.text = text])
    /\ Seen

\* update_idea: UPDATE ideas ... WHERE id = $3.
Edit(c) ==
    /\ Doing(c, "edit")
    /\ Write(c, [idea[req[c].idea] EXCEPT !.text = req[c].text])
    /\ Answer(c)
    /\ UNCHANGED <<version, told, audited, crashes, reviewed>>

EraseRead(c) ==
    /\ At(c, "idle")
    /\ \E i \in Ideas : AuthorMayChange(i) /\ Enter(c, Reading(i, "erase"))
    /\ Seen

\* delete_idea: DELETE FROM ideas WHERE id = $1.
Erase(c) ==
    /\ Doing(c, "erase")
    /\ Write(c, [idea[req[c].idea] EXCEPT !.status = "erased"])
    /\ Answer(c)
    /\ UNCHANGED <<version, told, audited, crashes, reviewed>>

RequestDeletionRead(c) ==
    /\ At(c, "idle")
    /\ \E i \in Ideas : /\ idea[i].status = "publicada" /\ ~idea[i].deleted
                        /\ Enter(c, Reading(i, "request_deletion"))
    /\ Seen

\* request_idea_deletion: UPDATE ideas ... WHERE id = $1.
RequestDeletion(c) ==
    /\ Doing(c, "request_deletion")
    /\ Write(c, [idea[req[c].idea] EXCEPT !.status = "exclusao_solicitada"])
    /\ Proceed(c, "audit")
    /\ UNCHANGED <<version, told, audited, crashes, reviewed>>

-----------------------------------------------------------------------------
(* The curators *)

\* Mutations: a denial needs no request, a rejection no check.
DecidableUnasked(act) ==
    IF act \in {"approve", "reject"} THEN Moderation \ {"excluida"} ELSE Moderation

DecidableReopen(act) ==
    IF act \in {"approve_deletion", "deny_deletion"} THEN {"exclusao_solicitada"} ELSE Moderation

\* The statuses a decision is taken on.
Decidable(act) ==
    CASE act \in {"approve", "reject"} -> Moderation \ {"excluida"}
      [] act = "remove"                -> Moderation
      [] OTHER                         -> {"exclusao_solicitada"}

\* approve_idea, reject_idea, remove_policy_violation, approve_deletion_request
\* and deny_deletion_request: the idea is read.
DecideRead(c) ==
    /\ At(c, "idle")
    /\ \E i \in Ideas, act \in Decisions :
        idea[i].status \in Decidable(act) /\ Enter(c, Reading(i, act))
    /\ Seen

\* The row each decision writes.
Decided(act, row) ==
    CASE act = "approve" ->
            [row EXCEPT !.status = "publicada", !.published = TRUE, !.deleted = FALSE]
      [] act = "reject"        -> [row EXCEPT !.status = "rejeitada"]
      [] act = "deny_deletion" -> [row EXCEPT !.status = "publicada"]
      [] OTHER                 -> [row EXCEPT !.status = "excluida", !.deleted = TRUE]

\* Mutation: the author is not told.
DecideUntold(c) ==
    /\ \E act \in Decisions : Doing(c, act)
    /\ Write(c, Decided(req[c].act, idea[req[c].idea]))
    /\ reviewed' = IF req[c].act = "approve"
                   THEN [reviewed EXCEPT ![req[c].idea] = @ \cup {req[c].text}] ELSE reviewed
    /\ Proceed(c, "audit")
    /\ UNCHANGED <<version, told, audited, crashes>>

\* UPDATE ideas ... WHERE id = $1.
Decide(c) ==
    /\ \E act \in Decisions : Doing(c, act)
    /\ Write(c, Decided(req[c].act, idea[req[c].idea]))
    /\ reviewed' = IF req[c].act = "approve"
                   THEN [reviewed EXCEPT ![req[c].idea] = @ \cup {req[c].text}] ELSE reviewed
    /\ Proceed(c, "notify")
    /\ UNCHANGED <<version, told, audited, crashes>>

\* _notify_idea_author.
Notify(c) ==
    /\ At(c, "notify")
    /\ told' = [told EXCEPT ![req[c].idea] = @ \cup {req[c].act}]
    /\ Proceed(c, "audit")
    /\ UNCHANGED <<idea, version, audited, crashes, reviewed, overlapped>>

\* log_audit.  The row of a roadmap update, which explains no status, is left out.
Audit(c) ==
    /\ At(c, "audit")
    /\ audited' = [audited EXCEPT ![req[c].idea] = @ \cup ({req[c].act} \ {"roadmap"})]
    /\ Answer(c)
    /\ UNCHANGED <<idea, version, told, crashes, reviewed, overlapped>>

-----------------------------------------------------------------------------
(* The roadmap *)

\* update_idea_roadmap: the idea is read; a status needs a version.
RoadmapRead(c) ==
    /\ At(c, "idle")
    /\ \E i \in Ideas :
        /\ idea[i].status = "publicada"
        /\ \/ Enter(c, Planning(i, "write", NoVersion))
           \/ \E v \in Versions : Enter(c, Planning(i, "roadmap_version", v))
    /\ Seen

\* update_idea_roadmap: SELECT id FROM idea_versions ... AND is_active.
RoadmapVersion(c) ==
    /\ At(c, "roadmap_version")
    /\ IF version[req[c].version] = "active" THEN Goto(c, "write") ELSE Answer(c)
    /\ Seen

\* update_idea_roadmap: UPDATE ideas ... WHERE id = $1; a version that is gone
\* violates the foreign key.
Roadmap(c) ==
    /\ Doing(c, "roadmap")
    /\ LET i == req[c].idea
           v == req[c].version
       IN IF Exists(i) /\ v # NoVersion /\ version[v] = "dropped"
          THEN Answer(c) /\ UNCHANGED idea
          ELSE /\ idea' = [idea EXCEPT ![i] = IF Exists(i)
                    THEN [@ EXCEPT !.planned = (v # NoVersion), !.version = v] ELSE @]
               /\ Proceed(c, "audit")
    /\ UNCHANGED <<version, told, audited, crashes, reviewed, overlapped>>

Listed(v) == version[v] \in {"active", "inactive"}

OnVersion(v, step) == [Idle EXCEPT !.step = step, !.act = "version", !.version = v]

OnlyVersion == UNCHANGED <<idea, told, audited, crashes, reviewed, overlapped>>

\* create_version.
CreateVersion(v) ==
    /\ version[v] = "absent"
    /\ \E on \in {"active", "inactive"} : version' = [version EXCEPT ![v] = on]
    /\ UNCHANGED req /\ OnlyVersion

\* update_version and delete_or_deactivate_version: the version is read.
VersionRead(c) ==
    /\ At(c, "idle")
    /\ \E v \in Versions, step \in {"version_update", "version_count"} :
        Listed(v) /\ Enter(c, OnVersion(v, step))
    /\ Seen

\* update_version: UPDATE idea_versions ... WHERE id = $1.
UpdateVersion(c) ==
    /\ At(c, "version_update")
    /\ \E on \in {"active", "inactive"} :
        version' = [version EXCEPT ![req[c].version] = IF Listed(req[c].version) THEN on ELSE @]
    /\ Answer(c) /\ OnlyVersion

\* delete_or_deactivate_version: SELECT COUNT(*) FROM ideas WHERE version_id = $1.
CountUsage(c) ==
    /\ At(c, "version_count")
    /\ LET used == \E i \in Ideas : Exists(i) /\ idea[i].version = req[c].version
       IN Goto(c, IF used THEN "version_deactivate" ELSE "version_drop")
    /\ Seen

DeactivateVersion(c) ==
    /\ At(c, "version_deactivate")
    /\ version' = [version EXCEPT ![req[c].version] =
                      IF Listed(req[c].version) THEN "inactive" ELSE @]
    /\ Answer(c) /\ OnlyVersion

\* Mutation: the CHECK is missing.
DropVersionUnchecked(c) ==
    /\ At(c, "version_drop")
    /\ LET v == req[c].version IN
        /\ version' = [version EXCEPT ![v] = "dropped"]
        /\ idea' = [i \in Ideas |-> IF idea[i].version = v
                        THEN [idea[i] EXCEPT !.version = NoVersion] ELSE idea[i]]
    /\ Answer(c)
    /\ UNCHANGED <<told, audited, crashes, reviewed, overlapped>>

\* delete_or_deactivate_version: DELETE FROM idea_versions.  ON DELETE SET NULL
\* unlinks the ideas planned for it, which chk_ideas_roadmap_version_required
\* forbids: then the statement fails.
DropVersion(c) ==
    /\ At(c, "version_drop")
    /\ LET v      == req[c].version
           linked == {i \in Ideas : Exists(i) /\ idea[i].version = v}
       IN IF \E i \in linked : idea[i].planned
          THEN UNCHANGED <<version, idea>>
          ELSE /\ version' = [version EXCEPT ![v] = "dropped"]
               /\ idea' = [i \in Ideas |-> IF i \in linked
                              THEN [idea[i] EXCEPT !.version = NoVersion] ELSE idea[i]]
    /\ Answer(c)
    /\ UNCHANGED <<told, audited, crashes, reviewed, overlapped>>

-----------------------------------------------------------------------------

\* A call dies between two statements.
Crash(c) ==
    /\ ~At(c, "idle") /\ crashes < MaxCrashes
    /\ Answer(c)
    /\ crashes' = crashes + 1
    /\ UNCHANGED <<tables, reviewed, overlapped>>

AuthorStep(c) ==
    \/ EditRead(c) \/ Edit(c) \/ EraseRead(c) \/ Erase(c)
    \/ RequestDeletionRead(c) \/ RequestDeletion(c)

CuratorStep(c) == DecideRead(c) \/ Decide(c) \/ Notify(c) \/ Audit(c)

RoadmapStep(c) ==
    \/ RoadmapRead(c) \/ RoadmapVersion(c) \/ Roadmap(c)
    \/ VersionRead(c) \/ UpdateVersion(c) \/ CountUsage(c)
    \/ DeactivateVersion(c) \/ DropVersion(c)

Next ==
    \/ \E i \in Ideas : Create(i)
    \/ \E v \in Versions : CreateVersion(v)
    \/ \E c \in Calls : AuthorStep(c) \/ CuratorStep(c) \/ RoadmapStep(c) \/ Crash(c)

Spec == Init /\ [][Next]_vars

-----------------------------------------------------------------------------
(* Properties *)

\* An idea that is public, or may be again, or is on the roadmap has its
\* publication date, by which the portal orders it: whatever decisions, requests
\* and roadmap updates overlap, it was approved at some time.
PublishedHasDate ==
    \A i \in Ideas :
        idea[i].status \in {"publicada", "exclusao_solicitada"} \/ idea[i].planned
            => idea[i].published

\* An idea has a roadmap status exactly when it has a version, and the version is
\* there, though versions are deleted while ideas are planned for them.
RoadmapIsWhole ==
    \A i \in Ideas : Exists(i) =>
        /\ idea[i].planned <=> idea[i].version # NoVersion
        /\ idea[i].version # NoVersion => Listed(idea[i].version)

\* The acts that can have led to a status.
ActsOf(status) ==
    CASE status = "publicada"           -> {"approve", "deny_deletion"}
      [] status = "rejeitada"           -> {"reject"}
      [] status = "exclusao_solicitada" -> {"request_deletion"}
      [] status = "excluida"            -> {"remove", "approve_deletion"}
      [] OTHER                          -> {}

\* The author of an idea hears of a decision before it is audited, and when no call
\* works on the idea and none has died the trail explains its status.
DecisionIsAudited ==
    \A i \in Ideas :
        /\ audited[i] \cap Decisions \subseteq told[i]
        /\ crashes = 0 /\ (\A c \in Calls : req[c].idea # i) /\ ActsOf(idea[i].status) # {}
            => audited[i] \cap ActsOf(idea[i].status) # {}

\* As long as no call has written over an idea it had not read: only an excluded
\* idea has a deletion date, so a published one is visible; what was published is
\* never erased, and its text is one an approval has read.
UndisturbedIsCoherent ==
    \A i \in Ideas \ overlapped :
        /\ Exists(i) => (idea[i].deleted <=> idea[i].status = "excluida")
        /\ idea[i].status = "erased" => ~idea[i].published
        /\ idea[i].published => idea[i].text \in reviewed[i]

\* "Ideia excluida nao pode ser publicada": nor rejected, nor anything else, as long
\* as no call writes over an idea it had not read.
ExcludedIsFinal ==
    [][\A i \in Ideas : idea[i].status = "excluida" /\ i \notin overlapped' =>
            idea'[i].status = "excluida"]_vars

\* Whatever overlaps, curation keeps its promise to the discussion of ideas.
Phase(i) ==
    CASE idea[i].status = "none"                           -> "none"
      [] idea[i].status = "erased"                         -> "gone"
      [] idea[i].status = "publicada" /\ ~idea[i].deleted  -> "public"
      [] OTHER                                             -> "hidden"

Life == INSTANCE IdeaLife WITH
    phase <- [i \in Ideas |-> Phase(i)], shown <- {i \in Ideas : idea[i].published}

ImplementsLife == Life!Spec
=============================================================================
