--------------------------- MODULE PromptCuration ----------------------------
(***************************************************************************)
(* The life of one community prompt: its author's handlers, the reports of *)
(* other users and the curators' decisions                                 *)
(* (src/app/routers/user_prompts.py), the administration of the library    *)
(* (src/app/routers/prompts.py), and the triggers and tables of            *)
(* src/docs/migrations/017_user_prompts.sql.  No statement touches two     *)
(* prompts, so one row stands for all of them.                             *)
(*                                                                         *)
(* An action is one SQL statement of a call with the Python that follows   *)
(* it; a handler of one statement is one action.  A statement on           *)
(* prompt_reports is two: its trigger counts what it can see, and writes   *)
(* the count when it holds the lock of the prompt's row.  The global       *)
(* notifications, which no handler reads, are left out.                    *)
(***************************************************************************)
EXTENDS Naturals, FiniteSets

CONSTANTS
    Users,       \* users who may write, own or report the prompt
    Retiring,    \* users an administrator may deactivate
    Calls,       \* in-flight calls
    Contents,    \* texts of the prompt
    Incomplete,  \* texts saved without a category
    NoUser, NoText,
    Threshold,   \* v_threshold of handle_prompt_report, 3 in the code
    MaxVersion,  \* bound: no approval starts at this version
    MaxCrashes   \* bound: calls that die between two statements

ASSUME NullAssumption      == NoUser \notin Users /\ NoText \notin Contents
ASSUME CompleteAssumption  == Incomplete \subseteq Contents
ASSUME UsersAssumption     == IsFiniteSet(Users) /\ Retiring \subseteq Users
ASSUME BoundAssumption     == Threshold \in Nat /\ MaxVersion \in Nat /\ MaxCrashes \in Nat

VARIABLES
    row,       \* the row of prompts
    versions,  \* rows of prompt_versions: number and content
    reports,   \* prompt_reports.status of each reporter
    active,    \* users with is_active
    approved,  \* texts a curator decided to publish, or an administrator wrote
    req,       \* what a call remembers between its statements
    crashes

vars == <<row, versions, reports, active, approved, req, crashes>>

Statuses == {"none", "rascunho", "privado", "aguardando", "publico", "em_revisao", "arquivado"}
ReportStatuses == {"none", "pendente", "analisado", "descartado"}

Drafts    == {"rascunho", "privado"}
Published == {"publico", "em_revisao"}
Queue     == {"aguardando", "em_revisao"}

Texts == Contents \cup {NoText}

Row == [status : Statuses, isPublic : BOOLEAN, isActive : BOOLEAN, content : Texts,
        version : Nat, reportCount : Nat, author : Users \cup {NoUser}]

Steps == {"idle", "edit_snapshot", "edit", "submit", "report", "report_commit", "snapshot",
          "publish", "deny", "discard", "discard_commit", "reassign", "decide_commit",
          "count_pending", "reopen"}

\* status and text are what the call will write; content and version what it read;
\* reporters the reports a statement locked, and count what its trigger counted.
Request == [step : Steps, user : Users \cup {NoUser}, status : Statuses \cup ReportStatuses,
            text : Texts, content : Texts, version : Nat, reporters : SUBSET Users, count : Nat]

Idle == [step |-> "idle", user |-> NoUser, status |-> "none", text |-> NoText,
         content |-> NoText, version |-> 0, reporters |-> {}, count |-> 0]

TypeOK ==
    /\ row \in Row
    /\ versions \subseteq [number : Nat, content : Contents]
    /\ reports \in [Users -> ReportStatuses]
    /\ active \subseteq Users
    /\ approved \subseteq Contents
    /\ req \in [Calls -> Request]
    /\ crashes \in Nat
    /\ row.status = "none" <=> row.content = NoText
    /\ \A c \in Calls : req[c].step # "idle" => row.status # "none"

Init ==
    /\ row = [status |-> "none", isPublic |-> FALSE, isActive |-> TRUE, content |-> NoText,
              version |-> 1, reportCount |-> 0, author |-> NoUser]
    /\ versions = {}
    /\ reports = [u \in Users |-> "none"]
    /\ active = Users
    /\ approved = {}
    /\ req = [c \in Calls |-> Idle]
    /\ crashes = 0

-----------------------------------------------------------------------------

Enter(c, r)   == req' = [req EXCEPT ![c] = r]
Goto(c, step) == req' = [req EXCEPT ![c].step = step]
Answer(c)     == req' = [req EXCEPT ![c] = Idle]
At(c, step)   == req[c].step = step

\* The users whose report is pending.
Pending == {u \in Users : reports[u] = "pendente"}

\* UNIQUE (prompt_id, version_number).
Numbers == {v.number : v \in versions}

\* A user whose session is accepted and who owns the prompt.
Owns(u) == u \in active /\ row.author = u

OnlyRow == UNCHANGED <<versions, reports, active, approved, req, crashes>>

\* create_my_prompt, or fork_prompt into a private prompt.
Create(u) ==
    /\ row.status = "none" /\ u \in active
    /\ \E text \in Contents, save \in Drafts :
        row' = [row EXCEPT !.status = save, !.content = text, !.author = u]
    /\ OnlyRow

\* Mutation: an edit leaves a published prompt where it is.
EditReadInPlace(c) ==
    /\ At(c, "idle") /\ row.status \notin {"none", "arquivado"}
    /\ \E text \in Contents, save \in Drafts, u \in Users :
        /\ Owns(u)
        /\ Enter(c, IF row.status \in Published
            THEN [Idle EXCEPT !.step = "edit_snapshot", !.text = text, !.content = row.content,
                              !.version = row.version, !.status = row.status]
            ELSE [Idle EXCEPT !.step = "edit", !.text = text,
                              !.status = IF row.status \in Drafts THEN save ELSE "aguardando"])
    /\ UNCHANGED <<row, versions, reports, active, approved, crashes>>

\* update_my_prompt: the prompt is read.  A published one goes back to the queue,
\* after a snapshot of what is published.
EditRead(c) ==
    /\ At(c, "idle") /\ row.status \notin {"none", "arquivado"}
    /\ \E text \in Contents, save \in Drafts, u \in Users :
        /\ Owns(u)
        /\ Enter(c, IF row.status \in Published
            THEN [Idle EXCEPT !.step = "edit_snapshot", !.text = text, !.content = row.content,
                              !.version = row.version, !.status = "aguardando"]
            ELSE [Idle EXCEPT !.step = "edit", !.text = text,
                              !.status = IF row.status \in Drafts THEN save ELSE "aguardando"])
    /\ UNCHANGED <<row, versions, reports, active, approved, crashes>>

\* Mutation: the snapshot takes the next number.
EditSnapshotAhead(c) ==
    /\ At(c, "edit_snapshot")
    /\ versions' = versions \cup {[number |-> req[c].version + 1, content |-> req[c].content]}
    /\ Enter(c, [Idle EXCEPT !.step = "edit", !.status = req[c].status, !.text = req[c].text])
    /\ UNCHANGED <<row, reports, active, approved, crashes>>

\* Mutation: the older snapshots go.
EditSnapshotPruned(c) ==
    /\ At(c, "edit_snapshot")
    /\ versions' = {v \in versions : v.number > req[c].version}
                     \cup {[number |-> req[c].version, content |-> req[c].content]}
    /\ Enter(c, [Idle EXCEPT !.step = "edit", !.status = req[c].status, !.text = req[c].text])
    /\ UNCHANGED <<row, reports, active, approved, crashes>>

\* update_my_prompt: INSERT INTO prompt_versions ... ON CONFLICT DO NOTHING.
EditSnapshot(c) ==
    /\ At(c, "edit_snapshot")
    /\ versions' = IF req[c].version \in Numbers THEN versions
                   ELSE versions \cup {[number |-> req[c].version, content |-> req[c].content]}
    /\ Enter(c, [Idle EXCEPT !.step = "edit", !.status = req[c].status, !.text = req[c].text])
    /\ UNCHANGED <<row, reports, active, approved, crashes>>

\* update_my_prompt: UPDATE prompts ... WHERE id = $1.
Edit(c) ==
    /\ At(c, "edit")
    /\ row' = [row EXCEPT !.status = req[c].status, !.content = req[c].text,
                          !.isPublic = FALSE]
    /\ Answer(c)
    /\ UNCHANGED <<versions, reports, active, approved, crashes>>

\* archive_my_prompt.
Archive(u) ==
    /\ Owns(u) /\ row.status # "arquivado"
    /\ row' = [row EXCEPT !.status = "arquivado", !.isPublic = FALSE, !.isActive = FALSE]
    /\ OnlyRow

\* make_prompt_private.
MakePrivate(u) ==
    /\ Owns(u) /\ row.status = "rascunho"
    /\ row' = [row EXCEPT !.status = "privado"]
    /\ OnlyRow

\* restore_my_prompt.
Restore(u) ==
    /\ Owns(u) /\ row.status = "arquivado"
    /\ row' = [row EXCEPT !.status = "privado", !.isActive = TRUE]
    /\ OnlyRow

\* withdraw_my_prompt.
Withdraw(u) ==
    /\ Owns(u) /\ row.status = "aguardando"
    /\ row' = [row EXCEPT !.status = "privado"]
    /\ OnlyRow

\* submit_my_prompt: the prompt is read.
SubmitRead(c) ==
    /\ At(c, "idle") /\ row.status = "privado" /\ row.content \notin Incomplete
    /\ \E u \in Users : Owns(u)
    /\ Enter(c, [Idle EXCEPT !.step = "submit"])
    /\ UNCHANGED <<row, versions, reports, active, approved, crashes>>

\* submit_my_prompt: UPDATE prompts ... WHERE id = $1.
Submit(c) ==
    /\ At(c, "submit")
    /\ row' = [row EXCEPT !.status = "aguardando"]
    /\ Answer(c)
    /\ UNCHANGED <<versions, reports, active, approved, crashes>>

-----------------------------------------------------------------------------

\* handle_prompt_report, writing the count it took.
Counted(count) ==
    [row EXCEPT !.reportCount = count,
                !.status = IF count >= Threshold /\ @ = "publico" THEN "em_revisao" ELSE @]

\* No other statement holds the report of u.
Unlocked(u) == \A d \in Calls : u \notin req[d].reporters

\* report_prompt: the prompt is read and the report inserted; one that exists
\* already ends the call with 409.
ReportInsert(c) ==
    /\ At(c, "report") /\ Unlocked(req[c].user)
    /\ IF reports[req[c].user] = "none"
       THEN Enter(c, [req[c] EXCEPT !.step = "report_commit", !.reporters = {req[c].user},
                                    !.count = Cardinality(Pending) + 1])
       ELSE Answer(c)
    /\ UNCHANGED <<row, versions, reports, active, approved, crashes>>

ReportRead(c) ==
    /\ At(c, "idle") /\ row.status \in Published
    /\ \E u \in active \ {row.author} : Enter(c, [Idle EXCEPT !.step = "report", !.user = u])
    /\ UNCHANGED <<row, versions, reports, active, approved, crashes>>

\* report_prompt: the trigger writes its count and the statement commits.
ReportCommit(c) ==
    /\ At(c, "report_commit")
    /\ reports' = [reports EXCEPT ![req[c].user] = "pendente"]
    /\ row' = Counted(req[c].count)
    /\ Answer(c)
    /\ UNCHANGED <<versions, active, approved, crashes>>

-----------------------------------------------------------------------------

\* curation_decide: a prompt in the queue is read.
DecideRead(c) ==
    /\ At(c, "idle") /\ row.status \in Queue
    /\ \/ Enter(c, [Idle EXCEPT !.step = "deny"])
       \/ /\ row.version < MaxVersion
          /\ Enter(c, [Idle EXCEPT !.step = "snapshot", !.content = row.content,
                                   !.version = row.version])
    /\ UNCHANGED <<row, versions, reports, active, approved, crashes>>

\* Mutation: ON CONFLICT DO NOTHING.
ApproveSnapshotLenient(c) ==
    /\ At(c, "snapshot")
    /\ LET next == req[c].version + 1 IN
        versions' = IF next \in Numbers THEN versions
                    ELSE versions \cup {[number |-> next, content |-> req[c].content]}
    /\ Goto(c, "publish")
    /\ UNCHANGED <<row, reports, active, approved, crashes>>

\* curation_decide: INSERT INTO prompt_versions; a number that is taken ends the
\* call with an error.
ApproveSnapshot(c) ==
    /\ At(c, "snapshot")
    /\ LET next == req[c].version + 1 IN
        IF next \in Numbers
        THEN Answer(c) /\ UNCHANGED versions
        ELSE /\ versions' = versions \cup {[number |-> next, content |-> req[c].content]}
             /\ Goto(c, "publish")
    /\ UNCHANGED <<row, reports, active, approved, crashes>>

\* curation_decide: UPDATE prompts ... WHERE id = $1.
Publish(c) ==
    /\ At(c, "publish")
    /\ row' = [row EXCEPT !.status = "publico", !.isPublic = TRUE, !.version = @ + 1]
    /\ approved' = approved \cup {req[c].content}
    /\ Answer(c)
    /\ UNCHANGED <<versions, reports, active, crashes>>

\* curation_decide, negar: UPDATE prompts ... WHERE id = $1.
Deny(c) ==
    /\ At(c, "deny")
    /\ row' = [row EXCEPT !.status = "privado", !.isPublic = FALSE]
    /\ Answer(c)
    /\ UNCHANGED <<versions, reports, active, approved, crashes>>

\* Mutation: is_public stays.
CurationArchivePublic ==
    /\ row.status \in Published \cup Queue
    /\ row' = [row EXCEPT !.status = "arquivado"]
    /\ OnlyRow

\* curation_archive.
CurationArchive ==
    /\ row.status \in Published \cup Queue
    /\ row' = [row EXCEPT !.status = "arquivado", !.isPublic = FALSE]
    /\ OnlyRow

\* curation_restore_public: the prompt returns to the gallery.
RestorePublic(c) ==
    /\ At(c, "idle") /\ row.status = "em_revisao"
    /\ row' = [row EXCEPT !.status = "publico", !.isPublic = TRUE, !.reportCount = 0]
    /\ Enter(c, [Idle EXCEPT !.step = "discard"])
    /\ UNCHANGED <<versions, reports, active, approved, crashes>>

\* Mutation: the pending reports are left alone.
DiscardNothing(c) ==
    /\ At(c, "discard")
    /\ Answer(c)
    /\ UNCHANGED <<row, versions, reports, active, approved, crashes>>

\* curation_restore_public: the statement on the pending reports.
Discard(c) ==
    /\ At(c, "discard") /\ \A u \in Pending : Unlocked(u)
    /\ IF Pending = {} THEN Answer(c)
       ELSE Enter(c, [Idle EXCEPT !.step = "discard_commit", !.reporters = Pending])
    /\ UNCHANGED <<row, versions, reports, active, approved, crashes>>

\* The trigger runs once per report; from the second on it counts with the row of
\* the prompt locked, so the last count is exact.
DiscardCommit(c) ==
    /\ At(c, "discard_commit")
    /\ LET gone  == req[c].reporters
           exact == Cardinality(Pending \ gone)
       IN /\ reports' = [u \in Users |-> IF u \in gone THEN "descartado" ELSE reports[u]]
          /\ row' = Counted(IF Cardinality(gone) > 1 THEN exact ELSE req[c].count)
    /\ Answer(c)
    /\ UNCHANGED <<versions, active, approved, crashes>>

\* curation_reassign: the new author is read, then written.
ReassignRead(c) ==
    /\ At(c, "idle") /\ row.status # "none"
    /\ \E u \in active : Enter(c, [Idle EXCEPT !.step = "reassign", !.user = u])
    /\ UNCHANGED <<row, versions, reports, active, approved, crashes>>

Reassign(c) ==
    /\ At(c, "reassign")
    /\ row' = [row EXCEPT !.author = req[c].user]
    /\ Answer(c)
    /\ UNCHANGED <<versions, reports, active, approved, crashes>>

\* Mutation: without AND status = 'pendente'.
DecideAnyReport(c) ==
    /\ At(c, "idle")
    /\ \E u \in Users, status \in {"analisado", "descartado"} :
        /\ reports[u] # "none" /\ Unlocked(u)
        /\ Enter(c, [Idle EXCEPT !.step = "decide_commit", !.status = status,
                                 !.reporters = {u}, !.count = Cardinality(Pending \ {u})])
    /\ UNCHANGED <<row, versions, reports, active, approved, crashes>>

\* curation_decide_report: the statement on one pending report.
DecideReport(c) ==
    /\ At(c, "idle")
    /\ \E u \in Pending, status \in {"analisado", "descartado"} :
        /\ Unlocked(u)
        /\ Enter(c, [Idle EXCEPT !.step = "decide_commit", !.status = status,
                                 !.reporters = {u}, !.count = Cardinality(Pending \ {u})])
    /\ UNCHANGED <<row, versions, reports, active, approved, crashes>>

DecideCommit(c) ==
    /\ At(c, "decide_commit")
    /\ reports' = [u \in Users |-> IF u \in req[c].reporters THEN req[c].status ELSE reports[u]]
    /\ row' = Counted(req[c].count)
    /\ IF req[c].status = "descartado" THEN Enter(c, [Idle EXCEPT !.step = "count_pending"])
       ELSE Answer(c)
    /\ UNCHANGED <<versions, active, approved, crashes>>

\* curation_decide_report: SELECT COUNT(*) of the pending reports.
CountPending(c) ==
    /\ At(c, "count_pending")
    /\ IF Pending = {} THEN Goto(c, "reopen") ELSE Answer(c)
    /\ UNCHANGED <<row, versions, reports, active, approved, crashes>>

\* curation_decide_report: UPDATE prompts ... AND publication_status = 'em_revisao'.
Reopen(c) ==
    /\ At(c, "reopen")
    /\ row' = IF row.status = "em_revisao"
              THEN [row EXCEPT !.status = "publico", !.isPublic = TRUE, !.reportCount = 0]
              ELSE row
    /\ Answer(c)
    /\ UNCHANGED <<versions, reports, active, approved, crashes>>

-----------------------------------------------------------------------------

\* prompts.py, update_prompt (and delete_prompt, which clears is_active): the
\* fields the administrator sends; the status follows is_public.
AdminUpdate ==
    /\ row.status # "none"
    /\ \E text \in Contents, on \in BOOLEAN, sent \in BOOLEAN, public \in BOOLEAN :
        /\ row' = [row EXCEPT
            !.content = text, !.isActive = on,
            !.isPublic = IF sent THEN public ELSE @,
            !.status = IF ~sent THEN @ ELSE IF public THEN "publico" ELSE "privado"]
        /\ approved' = IF text # row.content \/ (sent /\ public)
                       THEN approved \cup {text} ELSE approved
    /\ UNCHANGED <<versions, reports, active, req, crashes>>

\* users.py, update_user and delete_user, with the trigger handle_user_deactivation.
Deactivate(u) ==
    /\ u \in active \cap Retiring
    /\ active' = active \ {u}
    /\ row' = IF row.author = u /\ row.status \in Drafts
              THEN [row EXCEPT !.status = "arquivado", !.isActive = FALSE] ELSE row
    /\ UNCHANGED <<versions, reports, approved, req, crashes>>

Reactivate(u) ==
    /\ u \notin active
    /\ active' = active \cup {u}
    /\ UNCHANGED <<row, versions, reports, approved, req, crashes>>

\* A call dies between two statements; an open statement is rolled back.
Crash(c) ==
    /\ ~At(c, "idle") /\ crashes < MaxCrashes
    /\ Answer(c)
    /\ crashes' = crashes + 1
    /\ UNCHANGED <<row, versions, reports, active, approved>>

AuthorStep(c) == EditRead(c) \/ EditSnapshot(c) \/ Edit(c) \/ SubmitRead(c) \/ Submit(c)

ReporterStep(c) == ReportRead(c) \/ ReportInsert(c) \/ ReportCommit(c)

CuratorStep(c) ==
    \/ DecideRead(c) \/ ApproveSnapshot(c) \/ Publish(c) \/ Deny(c)
    \/ RestorePublic(c) \/ Discard(c) \/ DiscardCommit(c)
    \/ ReassignRead(c) \/ Reassign(c)
    \/ DecideReport(c) \/ DecideCommit(c) \/ CountPending(c) \/ Reopen(c)

UserStep(u) ==
    \/ Create(u) \/ Archive(u) \/ MakePrivate(u) \/ Restore(u) \/ Withdraw(u)
    \/ Deactivate(u) \/ Reactivate(u)

Next ==
    \/ \E c \in Calls : AuthorStep(c) \/ ReporterStep(c) \/ CuratorStep(c) \/ Crash(c)
    \/ \E u \in Users : UserStep(u)
    \/ CurationArchive
    \/ AdminUpdate

Spec == Init /\ [][Next]_vars

\* The steps at which a call rests on what it read of the reports.
ReportSteps == {"report_commit", "discard", "discard_commit", "decide_commit",
                "count_pending", "reopen"}

\* What the unguarded statements take for granted: no edit lands while a decision
\* is under way, a submission finds the prompt it read, and the calls that change
\* the reports take turns.
Orderly ==
    \A c \in Calls :
        /\ At(c, "snapshot") \/ At(c, "publish") => row'.content = row.content
        /\ At(c, "submit") /\ req'[c] # req[c] => row.status = "privado"
        /\ req[c].step \in ReportSteps => reports' = reports \/ req'[c] # req[c]

OrderlySpec == Init /\ [][Next /\ Orderly]_vars

-----------------------------------------------------------------------------
(* Properties *)

\* No call is between two statements.
Quiet == \A c \in Calls : At(c, "idle")

\* Every version an approval produced has its snapshot, whatever approvals and
\* edits race and whatever calls die: the unique number of prompt_versions makes
\* curation_decide's unguarded "version = version + 1" safe.
SnapshotPerVersion == \A v \in 2..row.version : v \in Numbers

\* As long as no call dies, a number above the version is taken only by an
\* approval about to publish it, so a prompt in the queue can be approved.
ApprovalIsFree ==
    crashes = 0 /\ row.version + 1 \in Numbers
        => \E c \in Calls : At(c, "publish") /\ req[c].version = row.version

\* Approvals, made of two statements, follow the ledger where each is one step.
Ledger == INSTANCE VersionLedger WITH
    version <- row.version, snapshots <- {v \in versions : v.number <= row.version}

ImplementsLedger == Ledger!Spec

\* A report a curator decided, or a restoration discarded, is never decided again,
\* though decisions, restorations and new reports race.
ReportStaysDecided ==
    [][\A u \in Users : reports[u] \in {"analisado", "descartado"} => reports'[u] = reports[u]]_vars

\* "Prompts publicos ou em revisao: snapshot + re-aprovacao obrigatoria": what is
\* published is a text a curator, or an administrator, decided on.
PublishedIsApproved == row.status \in Published => row.content \in approved

\* publication_status stands for is_public: they agree.
FlagFollowsStatus == row.isPublic <=> row.status \in Published

\* "contagem de denuncias ativas (atualizada por trigger)": report_count is the
\* number of pending reports whenever no call is under way and none has died.
\* Under OrderlySpec: triggers that overlap miscount.
CountIsActive == Quiet /\ crashes = 0 => row.reportCount = Cardinality(Pending)
=============================================================================
