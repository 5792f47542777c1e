------------------------ MODULE PromptCurationProofs -------------------------
(* What TLAPS proves of PromptCuration, for any users, calls and texts. *)
EXTENDS PromptCuration, FiniteSetTheorems, TLAPS

\* What a request holds at its step: the fields the step will write are set.
Sound(r) ==
    /\ r \in Request
    /\ r.step \in {"edit_snapshot", "edit"} =>
        r.text \in Contents /\ r.status \in Drafts \cup {"aguardando"}
    /\ r.step \in {"edit_snapshot", "snapshot", "publish"} => r.content \in Contents
    /\ r.step \in {"report", "report_commit", "reassign"} => r.user \in Users
    /\ r.step = "decide_commit" => r.status \in {"analisado", "descartado"}

\* A prompt that was never created belongs to nobody and has no reports.
Unwritten == row.status = "none" => row.author = NoUser /\ Pending = {}

TypeInv == TypeOK /\ (\A c \in Calls : Sound(req[c])) /\ Unwritten

-----------------------------------------------------------------------------

\* The count of the pending reports is a natural number.
LEMMA PendingCount ==
  \A S \in SUBSET Users : Cardinality(S) \in Nat
BY UsersAssumption, FS_Subset, FS_CardinalityType

\* Idle is a sound request.
LEMMA IdleSound == Sound(Idle)
BY DEF Sound, Idle, Request, Steps, Statuses, ReportStatuses, Texts

\* A call that goes on with a sound request leaves every request sound; if it was
\* idle, the prompt must exist.
LEMMA EnterSound ==
  ASSUME TypeInv, NEW c \in Calls, NEW r, Sound(r), Enter(c, r),
         row'.status # "none" \/ (row'.status = row.status /\ (r = Idle \/ ~At(c, "idle")))
  PROVE  /\ req' \in [Calls -> Request]
         /\ \A d \in Calls : Sound(req'[d])
         /\ \A d \in Calls : req'[d].step # "idle" => row'.status # "none"
<1>1. req' \in [Calls -> Request] /\ \A d \in Calls : Sound(req'[d])
  BY DEF TypeInv, TypeOK, Enter, Sound
<1>2. ASSUME NEW d \in Calls, req'[d].step # "idle" PROVE row'.status # "none"
  BY <1>2 DEF TypeInv, TypeOK, Enter, At, Idle
<1> QED
  BY <1>1, <1>2

\* A step that only moves a call on, without writing the row.
LEMMA OnlyCall ==
  ASSUME TypeInv, NEW c \in Calls, NEW r, Sound(r), Enter(c, r), UNCHANGED row,
         row.status # "none" \/ r = Idle \/ ~At(c, "idle"),
         versions' \subseteq [number : Nat, content : Contents],
         UNCHANGED <<reports, active, approved, crashes>>
  PROVE  TypeInv'
<1>1. row'.status = row.status
  OBVIOUS
<1> QED
  BY <1>1, EnterSound DEF TypeInv, TypeOK, Unwritten, Pending

\* A step that writes the row, and may end a call.
LEMMA RowWritten ==
  ASSUME TypeInv, row' \in Row, row'.status # "none", row'.content # NoText,
         reports' \in [Users -> ReportStatuses], active' \subseteq Users,
         approved' \subseteq Contents, crashes' \in Nat, UNCHANGED versions,
         \/ UNCHANGED req
         \/ \E c \in Calls : \E r : Sound(r) /\ Enter(c, r)
  PROVE  TypeInv'
<1>1. CASE UNCHANGED req
  BY <1>1 DEF TypeInv, TypeOK, Unwritten
<1>2. ASSUME NEW c \in Calls, NEW r, Sound(r), Enter(c, r) PROVE TypeInv'
  BY <1>2, EnterSound DEF TypeInv, TypeOK, Unwritten
<1> QED
  BY <1>1, <1>2

\* The row, while the prompt exists.
LEMMA RowExists ==
  ASSUME TypeInv, row.status # "none"
  PROVE  row \in Row /\ row.content \in Contents
BY DEF TypeInv, TypeOK, Row, Texts

LEMMA AuthorTypes ==
  ASSUME TypeInv, NEW c \in Calls, AuthorStep(c)
  PROVE  TypeInv'
<1> USE DEF At
<1>1. CASE EditRead(c)
  <2>1. PICK text \in Contents, save \in Drafts :
          Enter(c, IF row.status \in Published
            THEN [Idle EXCEPT !.step = "edit_snapshot", !.text = text, !.content = row.content,
                              !.version = row.version, !.status = "aguardando"]
            ELSE [Idle EXCEPT !.step = "edit", !.text = text,
                              !.status = IF row.status \in Drafts THEN save ELSE "aguardando"])
    BY <1>1 DEF EditRead
  <2>2. row.status # "none" /\ UNCHANGED <<row, versions, reports, active, approved, crashes>>
    BY <1>1 DEF EditRead
  <2>3. row \in Row /\ row.content \in Contents
    BY <2>2, RowExists
  <2>4. CASE row.status \in Published
    <3> DEFINE r == [Idle EXCEPT !.step = "edit_snapshot", !.text = text,
                       !.content = row.content, !.version = row.version,
                       !.status = "aguardando"]
    <3>1. Sound(r)
      BY <2>3 DEF Sound, Idle, Request, Steps, Statuses, ReportStatuses, Texts, Row
    <3>2. Enter(c, r)
      BY <2>1, <2>4
    <3> HIDE DEF r
    <3> QED
      BY <2>2, <3>1, <3>2, OnlyCall DEF TypeInv, TypeOK
  <2>5. CASE row.status \notin Published
    <3> DEFINE r == [Idle EXCEPT !.step = "edit", !.text = text,
                       !.status = IF row.status \in Drafts THEN save ELSE "aguardando"]
    <3>1. Sound(r)
      BY DEF Sound, Idle, Request, Steps, Statuses, ReportStatuses, Texts, Drafts
    <3>2. Enter(c, r)
      BY <2>1, <2>5
    <3> HIDE DEF r
    <3> QED
      BY <2>2, <3>1, <3>2, OnlyCall DEF TypeInv, TypeOK
  <2> QED
    BY <2>4, <2>5
<1>2. CASE EditSnapshot(c)
  <2> DEFINE r == [Idle EXCEPT !.step = "edit", !.status = req[c].status, !.text = req[c].text]
  <2>1. Sound(req[c])
    BY DEF TypeInv
  <2>2. Sound(r)
    BY <1>2, <2>1 DEF EditSnapshot, Sound, Idle, Request, Steps, Texts
  <2>3. Enter(c, r) /\ UNCHANGED <<row, reports, active, approved, crashes>>
    BY <1>2 DEF EditSnapshot
  <2>4. versions' \subseteq [number : Nat, content : Contents]
    BY <1>2, <2>1 DEF EditSnapshot, Sound, Request, TypeInv, TypeOK
  <2>5. ~At(c, "idle")
    BY <1>2 DEF EditSnapshot
  <2> HIDE DEF r
  <2> QED
    BY <2>2, <2>3, <2>4, <2>5, OnlyCall
<1>3. CASE Edit(c)
  <2>1. Sound(req[c]) /\ row.status # "none"
    BY <1>3 DEF TypeInv, TypeOK, Edit
  <2>2. Enter(c, Idle)
    BY <1>3 DEF Edit, Answer, Enter
  <2>3. row' \in Row /\ row'.status # "none" /\ row'.content # NoText
    BY <1>3, <2>1, RowExists, NullAssumption DEF Edit, Sound, Row, Texts, Drafts, Statuses
  <2> QED
    BY <1>3, <2>2, <2>3, IdleSound, RowWritten DEF Edit, TypeInv, TypeOK
<1>4. CASE SubmitRead(c)
  <2> DEFINE r == [Idle EXCEPT !.step = "submit"]
  <2>1. Sound(r)
    BY DEF Sound, Idle, Request, Steps, Statuses, ReportStatuses, Texts
  <2>2. /\ Enter(c, r) /\ row.status # "none"
        /\ UNCHANGED <<row, versions, reports, active, approved, crashes>>
    BY <1>4 DEF SubmitRead
  <2> HIDE DEF r
  <2> QED
    BY <2>1, <2>2, OnlyCall DEF TypeInv, TypeOK
<1>5. CASE Submit(c)
  <2>1. row.status # "none" /\ Enter(c, Idle)
    BY <1>5 DEF TypeInv, TypeOK, Submit, Answer, Enter
  <2>2. row' \in Row /\ row'.status # "none" /\ row'.content # NoText
    BY <1>5, <2>1, RowExists, NullAssumption DEF Submit, Row, Statuses
  <2> QED
    BY <1>5, <2>1, <2>2, IdleSound, RowWritten DEF Submit, TypeInv, TypeOK
<1> QED
  BY <1>1, <1>2, <1>3, <1>4, <1>5 DEF AuthorStep

\* The trigger's write keeps the prompt and its text.
LEMMA CountedRow ==
  ASSUME row \in Row, NEW n \in Nat
  PROVE  /\ Counted(n) \in Row
         /\ row.status # "none" => Counted(n).status # "none"
         /\ Counted(n).content = row.content
         /\ Counted(n).version = row.version
         /\ Counted(n).isPublic = row.isPublic
         /\ Counted(n).status \in Published <=> row.status \in Published
BY DEF Counted, Row, Statuses, Published

LEMMA ReporterTypes ==
  ASSUME TypeInv, NEW c \in Calls, ReporterStep(c)
  PROVE  TypeInv'
<1> USE DEF At
<1>1. CASE ReportRead(c)
  <2>1. PICK u \in active : Enter(c, [Idle EXCEPT !.step = "report", !.user = u])
    BY <1>1 DEF ReportRead
  <2> DEFINE r == [Idle EXCEPT !.step = "report", !.user = u]
  <2>2. Sound(r)
    BY DEF Sound, Idle, Request, Steps, Statuses, ReportStatuses, Texts, TypeInv, TypeOK
  <2>3. Enter(c, r)
    BY <2>1
  <2>4. row.status # "none" /\ UNCHANGED <<row, versions, reports, active, approved, crashes>>
    BY <1>1 DEF ReportRead, Published
  <2> HIDE DEF r
  <2> QED
    BY <2>2, <2>3, <2>4, OnlyCall DEF TypeInv, TypeOK
<1>2. CASE ReportInsert(c)
  <2>1. Sound(req[c]) /\ ~At(c, "idle")
    BY <1>2 DEF TypeInv, ReportInsert
  <2>2. UNCHANGED <<row, versions, reports, active, approved, crashes>>
    BY <1>2 DEF ReportInsert
  <2>3. CASE Answer(c)
    <3>1. Enter(c, Idle)
      BY <2>3 DEF Answer, Enter
    <3> QED
      BY <2>1, <2>2, <3>1, IdleSound, OnlyCall DEF TypeInv, TypeOK
  <2> DEFINE r == [req[c] EXCEPT !.step = "report_commit", !.reporters = {req[c].user},
                                 !.count = Cardinality(Pending) + 1]
  <2>4. CASE Enter(c, r)
    <3>1. Cardinality(Pending) \in Nat
      BY PendingCount DEF Pending
    <3>5. req[c].step = "report" /\ req[c].user \in Users /\ req[c] \in Request
      BY <1>2, <2>1 DEF ReportInsert, Sound
    <3>6. Cardinality(Pending) + 1 \in Nat
      BY <3>1
    <3>2. r \in Request /\ r.step = "report_commit" /\ r.user \in Users
      BY <3>5, <3>6 DEF Request, Steps
    <3>4. Sound(r)
      BY <3>2 DEF Sound
    <3>3. Enter(c, r)
      BY <2>4
    <3> HIDE DEF r
    <3> QED
      BY <2>1, <2>2, <3>4, <3>3, OnlyCall DEF TypeInv, TypeOK
  <2> QED
    BY <1>2, <2>3, <2>4 DEF ReportInsert
<1>3. CASE ReportCommit(c)
  <2>1. Sound(req[c]) /\ row.status # "none" /\ req[c].count \in Nat
    BY <1>3 DEF TypeInv, TypeOK, ReportCommit, Sound, Request
  <2>2. Enter(c, Idle)
    BY <1>3 DEF ReportCommit, Answer, Enter
  <2>3. row' = Counted(req[c].count) /\ row \in Row
    BY <1>3 DEF ReportCommit, TypeInv, TypeOK
  <2>4. row' \in Row /\ row'.status # "none" /\ row'.content # NoText
    BY <2>1, <2>3, CountedRow, RowExists, NullAssumption
  <2>5. reports' \in [Users -> ReportStatuses]
    BY <1>3 DEF ReportCommit, TypeInv, TypeOK, ReportStatuses
  <2> QED
    BY <1>3, <2>2, <2>4, <2>5, IdleSound, RowWritten DEF ReportCommit, TypeInv, TypeOK
<1> QED
  BY <1>1, <1>2, <1>3 DEF ReporterStep

\* A step of curation_decide.
LEMMA DecisionTypes ==
  ASSUME TypeInv, NEW c \in Calls,
         DecideRead(c) \/ ApproveSnapshot(c) \/ Publish(c) \/ Deny(c)
  PROVE  TypeInv'
<1> USE DEF At
<1>1. CASE DecideRead(c)
  <2> DEFINE d == [Idle EXCEPT !.step = "deny"]
             a == [Idle EXCEPT !.step = "snapshot", !.content = row.content,
                               !.version = row.version]
  <2>1. row.status # "none" /\ UNCHANGED <<row, versions, reports, active, approved, crashes>>
    BY <1>1 DEF DecideRead, Queue
  <2>2. Sound(d)
    BY DEF Sound, Idle, Request, Steps, Statuses, ReportStatuses, Texts
  <2>3. Sound(a)
    BY <2>1, RowExists DEF Sound, Idle, Request, Steps, Statuses, ReportStatuses, Texts, Row
  <2>4. Enter(c, d) \/ Enter(c, a)
    BY <1>1 DEF DecideRead
  <2> HIDE DEF d, a
  <2>5. CASE Enter(c, d)
    BY <2>1, <2>2, <2>5, OnlyCall DEF TypeInv, TypeOK
  <2>6. CASE Enter(c, a)
    BY <2>1, <2>3, <2>6, OnlyCall DEF TypeInv, TypeOK
  <2> QED
    BY <2>4, <2>5, <2>6
<1>2. CASE ApproveSnapshot(c)
  <2>1. Sound(req[c]) /\ ~At(c, "idle")
    BY <1>2 DEF TypeInv, ApproveSnapshot
  <2>2. UNCHANGED <<row, reports, active, approved, crashes>>
    BY <1>2 DEF ApproveSnapshot
  <2>3. CASE Answer(c) /\ UNCHANGED versions
    <3>1. Enter(c, Idle)
      BY <2>3 DEF Answer, Enter
    <3> QED
      BY <2>1, <2>2, <2>3, <3>1, IdleSound, OnlyCall DEF TypeInv, TypeOK
  <2> DEFINE r == [req[c] EXCEPT !.step = "publish"]
             new == [number |-> req[c].version + 1, content |-> req[c].content]
  <2>4. CASE versions' = versions \cup {new} /\ Goto(c, "publish")
    <3>1. Sound(r)
      BY <1>2, <2>1 DEF Sound, Request, Steps, ApproveSnapshot
    <3>2. Enter(c, r)
      BY <2>4 DEF Goto, Enter
    <3>3. new \in [number : Nat, content : Contents]
      BY <1>2, <2>1 DEF Sound, Request, ApproveSnapshot
    <3>4. versions' \subseteq [number : Nat, content : Contents]
      BY <2>4, <3>3 DEF TypeInv, TypeOK
    <3> HIDE DEF r
    <3> QED
      BY <2>1, <2>2, <3>1, <3>2, <3>4, OnlyCall
  <2> QED
    BY <1>2, <2>3, <2>4 DEF ApproveSnapshot
<1>3. CASE Publish(c)
  <2>1. Sound(req[c]) /\ row.status # "none" /\ Enter(c, Idle)
    BY <1>3 DEF TypeInv, TypeOK, Publish, Answer, Enter
  <2>2. row' \in Row /\ row'.status # "none" /\ row'.content # NoText
    <3>1. row' = [row EXCEPT !.status = "publico", !.isPublic = TRUE, !.version = @ + 1]
      BY <1>3 DEF Publish
    <3>2. row \in Row /\ row.content \in Contents
      BY <2>1, RowExists
    <3>3. row.version + 1 \in Nat
      BY <3>2 DEF Row
    <3> QED
      BY <3>1, <3>2, <3>3, NullAssumption DEF Row, Statuses
  <2>3. approved' \subseteq Contents
    BY <1>3, <2>1 DEF Publish, Sound, TypeInv, TypeOK
  <2> QED
    BY <1>3, <2>1, <2>2, <2>3, IdleSound, RowWritten DEF Publish, TypeInv, TypeOK
<1>4. CASE Deny(c)
  <2>1. row.status # "none" /\ Enter(c, Idle)
    BY <1>4 DEF TypeInv, TypeOK, Deny, Answer, Enter
  <2>2. row' \in Row /\ row'.status # "none" /\ row'.content # NoText
    BY <1>4, <2>1, RowExists, NullAssumption DEF Deny, Row, Statuses
  <2> QED
    BY <1>4, <2>1, <2>2, IdleSound, RowWritten DEF Deny, TypeInv, TypeOK
<1> QED
  BY <1>1, <1>2, <1>3, <1>4


\* A step of curation_restore_public, curation_reassign or curation_decide_report.
LEMMA ReviewTypes ==
  ASSUME TypeInv, NEW c \in Calls,
         \/ RestorePublic(c) \/ Discard(c) \/ DiscardCommit(c)
         \/ ReassignRead(c) \/ Reassign(c)
         \/ DecideReport(c) \/ DecideCommit(c) \/ CountPending(c) \/ Reopen(c)
  PROVE  TypeInv'
<1> USE DEF At
<1>1. CASE RestorePublic(c)
  <2> DEFINE r == [Idle EXCEPT !.step = "discard"]
  <2>1. Sound(r)
    BY DEF Sound, Idle, Request, Steps, Statuses, ReportStatuses, Texts
  <2>2. Enter(c, r) /\ row.status # "none"
    BY <1>1 DEF RestorePublic
  <2>3. row' \in Row /\ row'.status # "none" /\ row'.content # NoText
    BY <1>1, <2>2, RowExists, NullAssumption DEF RestorePublic, Row, Statuses
  <2> HIDE DEF r
  <2> QED
    BY <1>1, <2>1, <2>2, <2>3, RowWritten DEF RestorePublic, TypeInv, TypeOK
<1>2. CASE Discard(c)
  <2> DEFINE r == [Idle EXCEPT !.step = "discard_commit", !.reporters = Pending]
  <2>1. Sound(r)
    BY DEF Sound, Idle, Request, Steps, Statuses, ReportStatuses, Texts, Pending
  <2>2. Enter(c, r) \/ Enter(c, Idle)
    BY <1>2 DEF Discard, Answer, Enter
  <2>3. ~At(c, "idle") /\ UNCHANGED <<row, versions, reports, active, approved, crashes>>
    BY <1>2 DEF Discard
  <2> HIDE DEF r
  <2>4. CASE Enter(c, r)
    BY <2>1, <2>3, <2>4, OnlyCall DEF TypeInv, TypeOK
  <2>5. CASE Enter(c, Idle)
    BY <2>3, <2>5, IdleSound, OnlyCall DEF TypeInv, TypeOK
  <2> QED
    BY <2>2, <2>4, <2>5
<1>3. CASE DiscardCommit(c)
  <2>1. Sound(req[c]) /\ row.status # "none" /\ Enter(c, Idle) /\ row \in Row
    BY <1>3 DEF TypeInv, TypeOK, DiscardCommit, Answer, Enter
  <2>2. req[c].count \in Nat /\ Cardinality(Pending \ req[c].reporters) \in Nat
    BY <2>1, PendingCount DEF Pending, Sound, Request
  <2>3. PICK n \in Nat : row' = Counted(n)
    BY <1>3, <2>2 DEF DiscardCommit
  <2>4. row' \in Row /\ row'.status # "none" /\ row'.content # NoText
    BY <2>1, <2>3, CountedRow, RowExists, NullAssumption
  <2>5. reports' \in [Users -> ReportStatuses]
    BY <1>3 DEF DiscardCommit, TypeInv, TypeOK, ReportStatuses
  <2> QED
    BY <1>3, <2>1, <2>4, <2>5, IdleSound, RowWritten DEF DiscardCommit, TypeInv, TypeOK
<1>4. CASE ReassignRead(c)
  <2>1. PICK u \in active : Enter(c, [Idle EXCEPT !.step = "reassign", !.user = u])
    BY <1>4 DEF ReassignRead
  <2> DEFINE r == [Idle EXCEPT !.step = "reassign", !.user = u]
  <2>2. Sound(r)
    BY DEF Sound, Idle, Request, Steps, Statuses, ReportStatuses, Texts, TypeInv, TypeOK
  <2>3. Enter(c, r) /\ row.status # "none"
    BY <1>4, <2>1 DEF ReassignRead
  <2>4. UNCHANGED <<row, versions, reports, active, approved, crashes>>
    BY <1>4 DEF ReassignRead
  <2> HIDE DEF r
  <2> QED
    BY <2>2, <2>3, <2>4, OnlyCall DEF TypeInv, TypeOK
<1>5. CASE Reassign(c)
  <2>1. Sound(req[c]) /\ row.status # "none" /\ Enter(c, Idle)
    BY <1>5 DEF TypeInv, TypeOK, Reassign, Answer, Enter
  <2>2. row' \in Row /\ row'.status # "none" /\ row'.content # NoText
    BY <1>5, <2>1, RowExists, NullAssumption DEF Reassign, Row, Sound
  <2> QED
    BY <1>5, <2>1, <2>2, IdleSound, RowWritten DEF Reassign, TypeInv, TypeOK
<1>6. CASE DecideReport(c)
  <2>1. PICK u \in Pending, status \in {"analisado", "descartado"} :
          Enter(c, [Idle EXCEPT !.step = "decide_commit", !.status = status,
                                !.reporters = {u}, !.count = Cardinality(Pending \ {u})])
    BY <1>6 DEF DecideReport
  <2> DEFINE r == [Idle EXCEPT !.step = "decide_commit", !.status = status,
                               !.reporters = {u}, !.count = Cardinality(Pending \ {u})]
  <2>2. Cardinality(Pending \ {u}) \in Nat
    BY PendingCount DEF Pending
  <2>3. Sound(r)
    BY <2>2 DEF Sound, Idle, Request, Steps, Statuses, ReportStatuses, Texts, Pending
  <2>4. Enter(c, r) /\ UNCHANGED <<row, versions, reports, active, approved, crashes>>
    BY <1>6, <2>1 DEF DecideReport
  <2>5. row.status # "none"
    BY <2>1 DEF TypeInv, Unwritten
  <2> HIDE DEF r
  <2> QED
    BY <2>3, <2>4, <2>5, OnlyCall DEF TypeInv, TypeOK
<1>7. CASE DecideCommit(c)
  <2> DEFINE r == [Idle EXCEPT !.step = "count_pending"]
  <2>1. Sound(req[c]) /\ row.status # "none" /\ row \in Row /\ req[c].count \in Nat
    BY <1>7 DEF TypeInv, TypeOK, DecideCommit, Sound, Request
  <2>2. Sound(r)
    BY DEF Sound, Idle, Request, Steps, Statuses, ReportStatuses, Texts
  <2>3. Enter(c, r) \/ Enter(c, Idle)
    BY <1>7 DEF DecideCommit, Answer, Enter
  <2>4. row' = Counted(req[c].count)
    BY <1>7 DEF DecideCommit
  <2>5. row' \in Row /\ row'.status # "none" /\ row'.content # NoText
    BY <2>1, <2>4, CountedRow, RowExists, NullAssumption
  <2>6. reports' \in [Users -> ReportStatuses]
    BY <1>7, <2>1 DEF DecideCommit, TypeInv, TypeOK, ReportStatuses, Sound
  <2> HIDE DEF r
  <2> QED
    BY <1>7, <2>2, <2>3, <2>5, <2>6, IdleSound, RowWritten DEF DecideCommit, TypeInv, TypeOK
<1>8. CASE CountPending(c)
  <2> DEFINE r == [req[c] EXCEPT !.step = "reopen"]
  <2>1. Sound(req[c]) /\ ~At(c, "idle") /\ req[c] \in Request
    BY <1>8 DEF TypeInv, CountPending, Sound
  <2>2. Sound(r)
    BY <2>1 DEF Sound, Request, Steps
  <2>3. Enter(c, r) \/ Enter(c, Idle)
    BY <1>8 DEF CountPending, Goto, Answer, Enter
  <2>4. UNCHANGED <<row, versions, reports, active, approved, crashes>>
    BY <1>8 DEF CountPending
  <2> HIDE DEF r
  <2>5. CASE Enter(c, r)
    BY <2>1, <2>2, <2>4, <2>5, OnlyCall DEF TypeInv, TypeOK
  <2>6. CASE Enter(c, Idle)
    BY <2>1, <2>4, <2>6, IdleSound, OnlyCall DEF TypeInv, TypeOK
  <2> QED
    BY <2>3, <2>5, <2>6
<1>9. CASE Reopen(c)
  <2>1. row.status # "none" /\ Enter(c, Idle)
    BY <1>9 DEF TypeInv, TypeOK, Reopen, Answer, Enter
  <2>2. row \in Row /\ row.content \in Contents
    BY <2>1, RowExists
  <2>3. row' \in Row /\ row'.status # "none" /\ row'.content # NoText
    <3>1. CASE row.status = "em_revisao"
      BY <1>9, <2>2, <3>1, NullAssumption DEF Reopen, Row, Statuses
    <3>2. CASE row.status # "em_revisao"
      BY <1>9, <2>1, <2>2, <3>2, NullAssumption DEF Reopen
    <3> QED
      BY <3>1, <3>2
  <2> QED
    BY <1>9, <2>1, <2>3, IdleSound, RowWritten DEF Reopen, TypeInv, TypeOK
<1> QED
  BY <1>1, <1>2, <1>3, <1>4, <1>5, <1>6, <1>7, <1>8, <1>9

\* A handler of one statement, or the death of a call.
LEMMA OtherTypes ==
  ASSUME TypeInv,
         \/ \E u \in Users : UserStep(u)
         \/ CurationArchive
         \/ AdminUpdate
         \/ \E c \in Calls : Crash(c)
  PROVE  TypeInv'
<1> USE NullAssumption
<1>1. ASSUME NEW u \in Users, Create(u) PROVE TypeInv'
  <2>1. row' \in Row /\ row'.status # "none" /\ row'.content # NoText
    BY <1>1 DEF Create, TypeInv, TypeOK, Row, Drafts, Statuses, Texts
  <2> QED
    BY <1>1, <2>1, RowWritten DEF Create, OnlyRow, TypeInv, TypeOK
<1>2. ASSUME \/ CurationArchive
             \/ \E u \in Users : Archive(u) \/ MakePrivate(u) \/ Restore(u) \/ Withdraw(u)
      PROVE  TypeInv'
  <2>1. row.status # "none"
    BY <1>2 DEF Archive, MakePrivate, Restore, Withdraw, CurationArchive, Owns, Published,
                Queue, TypeInv, Unwritten
  <2>2. row \in Row /\ row.content \in Contents
    BY <2>1, RowExists
  <2>3. row' \in Row /\ row'.status # "none" /\ row'.content # NoText
    BY <1>2, <2>2 DEF Archive, MakePrivate, Restore, Withdraw, CurationArchive, Row, Statuses
  <2>4. OnlyRow
    BY <1>2 DEF Archive, MakePrivate, Restore, Withdraw, CurationArchive
  <2> QED
    BY <2>3, <2>4, RowWritten DEF OnlyRow, TypeInv, TypeOK
<1>3. CASE AdminUpdate
  <2>1. row.status # "none"
    BY <1>3 DEF AdminUpdate
  <2>2. row \in Row /\ row.content \in Contents
    BY <2>1, RowExists
  <2>3. PICK text \in Contents, on \in BOOLEAN, sent \in BOOLEAN, public \in BOOLEAN :
          /\ row' = [row EXCEPT
               !.content = text, !.isActive = on,
               !.isPublic = IF sent THEN public ELSE @,
               !.status = IF ~sent THEN @ ELSE IF public THEN "publico" ELSE "privado"]
          /\ approved' = IF text # row.content \/ (sent /\ public)
                         THEN approved \cup {text} ELSE approved
    BY <1>3 DEF AdminUpdate
  <2>4. row' \in Row /\ row'.status # "none" /\ row'.content # NoText
    <3>1. CASE ~sent
      BY <2>1, <2>2, <2>3, <3>1 DEF Row, Texts
    <3>2. CASE sent /\ public
      BY <2>2, <2>3, <3>2 DEF Row, Statuses, Texts
    <3>3. CASE sent /\ ~public
      BY <2>2, <2>3, <3>3 DEF Row, Statuses, Texts
    <3> QED
      BY <3>1, <3>2, <3>3
  <2>5. approved' \subseteq Contents
    BY <2>3 DEF TypeInv, TypeOK
  <2> QED
    BY <1>3, <2>4, <2>5, RowWritten DEF AdminUpdate, TypeInv, TypeOK
<1>4. ASSUME NEW u \in Users, Deactivate(u) PROVE TypeInv'
  <2>1. active' \subseteq Users
    BY <1>4 DEF Deactivate, TypeInv, TypeOK
  <2>2. UNCHANGED <<versions, reports, approved, req, crashes>>
    BY <1>4 DEF Deactivate
  <2>3. CASE row.author = u /\ row.status \in Drafts
    <3>1. row \in Row /\ row.content \in Contents
      BY <2>3, RowExists DEF Drafts
    <3>2. row' \in Row /\ row'.status # "none" /\ row'.content # NoText
      BY <1>4, <2>3, <3>1 DEF Deactivate, Row, Statuses
    <3> QED
      BY <2>1, <2>2, <3>2, RowWritten DEF TypeInv, TypeOK
  <2>4. CASE ~(row.author = u /\ row.status \in Drafts)
    BY <1>4, <2>1, <2>2, <2>4 DEF Deactivate, TypeInv, TypeOK, Unwritten, Pending
  <2> QED
    BY <2>3, <2>4
<1>5. ASSUME NEW u \in Users, Reactivate(u) PROVE TypeInv'
  BY <1>5 DEF Reactivate, TypeInv, TypeOK, Unwritten, Pending
<1>6. ASSUME NEW c \in Calls, Crash(c) PROVE TypeInv'
  <2>1. Enter(c, Idle) /\ UNCHANGED <<row, versions, reports, active, approved>> /\ ~At(c, "idle")
    BY <1>6 DEF Crash, Answer, Enter
  <2>2. crashes' \in Nat
    BY <1>6 DEF Crash, TypeInv, TypeOK
  <2> QED
    BY <2>1, <2>2, IdleSound, EnterSound DEF TypeInv, TypeOK, Unwritten, Pending
<1> QED
  BY <1>1, <1>2, <1>3, <1>4, <1>5, <1>6 DEF UserStep

\* Every step keeps the variables in their types, and every request holds what its
\* next statement writes.
LEMMA TypeInvariant == Spec => []TypeInv
<1>1. ASSUME Init PROVE TypeInv
  <2>1. row \in Row
    BY <1>1 DEF Init, Row, Statuses, Texts
  <2>2. req \in [Calls -> Request] /\ \A c \in Calls : Sound(req[c]) /\ req[c].step = "idle"
    BY <1>1, IdleSound DEF Init, Sound, Idle
  <2>3. Unwritten
    BY <1>1 DEF Init, Unwritten, Pending
  <2> QED
    BY <1>1, <2>1, <2>2, <2>3 DEF Init, TypeInv, TypeOK, ReportStatuses
<1>2. TypeInv /\ [Next]_vars => TypeInv'
  <2> SUFFICES ASSUME TypeInv, [Next]_vars PROVE TypeInv'
    OBVIOUS
  <2>1. CASE UNCHANGED vars
    BY <2>1 DEF vars, TypeInv, TypeOK, Unwritten, Pending
  <2> QED
    BY <2>1, AuthorTypes, ReporterTypes, DecisionTypes, ReviewTypes, OtherTypes
    DEF Next, CuratorStep
<1> QED
  BY <1>1, <1>2, PTL DEF Spec

\* Every reachable state of PromptCuration has its variables in their types.
THEOREM TypeCorrect == Spec => []TypeOK
<1>1. TypeInv => TypeOK
  BY DEF TypeInv
<1> QED
  BY <1>1, TypeInvariant, PTL


-----------------------------------------------------------------------------

\* What an approval about to publish holds: the snapshot of the next version.
NextSnapshot(c) == [number |-> row.version + 1, content |-> req[c].content]

\* The unique number of prompt_versions lets one approval at a time past its
\* INSERT, and that approval read the current version.
VersionInv ==
    /\ row.version >= 1
    /\ SnapshotPerVersion
    /\ \A x, y \in versions : x.number = y.number => x = y
    /\ \A x \in versions : x.number <= row.version + 1
    /\ \A c \in Calls : req[c].step \in {"edit_snapshot", "snapshot"} =>
        1 <= req[c].version /\ req[c].version <= row.version
    /\ \A c \in Calls : At(c, "publish") =>
        req[c].version = row.version /\ NextSnapshot(c) \in versions
    /\ \A c, d \in Calls : At(c, "publish") /\ At(d, "publish") => c = d
    /\ ApprovalIsFree

LEMMA NumbersGrow ==
  ASSUME NEW n, NEW text, versions' = versions \cup {[number |-> n, content |-> text]}
  PROVE  Numbers' = Numbers \cup {n}
<1> DEFINE new == [number |-> n, content |-> text]
<1>1. new.number = n
  OBVIOUS
<1>2. versions' = versions \cup {new}
  OBVIOUS
<1> HIDE DEF new
<1>3. ASSUME NEW k \in Numbers' PROVE k \in Numbers \cup {n}
  BY <1>1, <1>2 DEF Numbers
<1>4. ASSUME NEW k \in Numbers \cup {n} PROVE k \in Numbers'
  <2>1. CASE k \in Numbers
    BY <1>2, <2>1 DEF Numbers
  <2>2. CASE k = n
    BY <1>1, <1>2, <2>2 DEF Numbers
  <2> QED
    BY <1>4, <2>1, <2>2
<1> QED
  BY <1>3, <1>4

\* An approval past its INSERT has taken the next number.
LEMMA PublishingTakesNumber ==
  ASSUME VersionInv, NEW c \in Calls, At(c, "publish")
  PROVE  row.version + 1 \in Numbers
<1> DEFINE new == NextSnapshot(c)
<1>1. new.number = row.version + 1
  BY DEF NextSnapshot
<1>2. new \in versions
  BY DEF VersionInv
<1> HIDE DEF new
<1> QED
  BY <1>1, <1>2 DEF Numbers

\* A step that writes no snapshot and no version, and does not touch an approval
\* past its INSERT.
LEMMA Steady ==
  ASSUME TypeInv, VersionInv, row'.version = row.version,
         UNCHANGED <<versions, crashes>>,
         \/ UNCHANGED req
         \/ \E c \in Calls : \E r :
             /\ Enter(c, r) /\ ~At(c, "publish") /\ r.step # "publish"
             /\ r.step \in {"edit_snapshot", "snapshot"} => r.version = row.version
  PROVE  VersionInv'
<1>1. row.version \in Nat
  BY DEF TypeInv, TypeOK, Row
<1>2. CASE UNCHANGED req
  BY <1>1, <1>2 DEF VersionInv, SnapshotPerVersion, ApprovalIsFree, Numbers, NextSnapshot, At
<1>3. ASSUME NEW c \in Calls, NEW r, Enter(c, r), ~At(c, "publish"), r.step # "publish",
             r.step \in {"edit_snapshot", "snapshot"} => r.version = row.version
      PROVE  VersionInv'
  <2>1. \A d \in Calls : req'[d] = IF d = c THEN r ELSE req[d]
    BY <1>3 DEF Enter, TypeInv, TypeOK
  <2>2. \A d \in Calls : At(d, "publish")' <=> At(d, "publish")
    BY <1>3, <2>1 DEF At
  <2>3. \A d \in Calls : At(d, "publish") => req'[d] = req[d]
    BY <1>3, <2>1 DEF At
  <2>4. SnapshotPerVersion' /\ ApprovalIsFree'
    BY <2>2, <2>3 DEF VersionInv, SnapshotPerVersion, ApprovalIsFree, Numbers
  <2>5. \A d \in Calls : req'[d].step \in {"edit_snapshot", "snapshot"} =>
          1 <= req'[d].version /\ req'[d].version <= row.version
    BY <1>1, <1>3, <2>1 DEF VersionInv
  <2> QED
    BY <2>2, <2>3, <2>4, <2>5 DEF VersionInv, NextSnapshot
<1> QED
  BY <1>2, <1>3

\* The steps of a call that neither write a version nor ask for a number go on with
\* a request that does not publish, and that holds the current version and text.
LEMMA NextRequest ==
  ASSUME TypeInv, NEW c \in Calls,
         \/ EditRead(c) \/ Edit(c) \/ SubmitRead(c) \/ Submit(c)
         \/ ReporterStep(c)
         \/ DecideRead(c) \/ Deny(c)
         \/ RestorePublic(c) \/ Discard(c) \/ DiscardCommit(c)
         \/ ReassignRead(c) \/ Reassign(c)
         \/ DecideReport(c) \/ DecideCommit(c) \/ CountPending(c) \/ Reopen(c)
  PROVE  \E r : /\ Enter(c, r) /\ r.step # "publish"
                /\ r.step \in {"edit_snapshot", "snapshot"} =>
                     r.version = row.version /\ r.content = row.content
<1> DEFINE Fit(r) == /\ r.step # "publish"
                     /\ r.step \in {"edit_snapshot", "snapshot"} =>
                          r.version = row.version /\ r.content = row.content
<1>1. Fit(Idle)
  BY DEF Idle
<1>2. \A u : Fit([Idle EXCEPT !.step = "report", !.user = u])
             /\ Fit([Idle EXCEPT !.step = "reassign", !.user = u])
  BY DEF Idle
<1>3. CASE EditRead(c)
  <2>1. PICK text \in Contents, save \in Drafts :
          Enter(c, IF row.status \in Published
            THEN [Idle EXCEPT !.step = "edit_snapshot", !.text = text, !.content = row.content,
                              !.version = row.version, !.status = "aguardando"]
            ELSE [Idle EXCEPT !.step = "edit", !.text = text,
                              !.status = IF row.status \in Drafts THEN save ELSE "aguardando"])
    BY <1>3 DEF EditRead
  <2> DEFINE snap == [Idle EXCEPT !.step = "edit_snapshot", !.text = text,
                        !.content = row.content, !.version = row.version,
                        !.status = "aguardando"]
             edit == [Idle EXCEPT !.step = "edit", !.text = text,
                        !.status = IF row.status \in Drafts THEN save ELSE "aguardando"]
  <2>2. Fit(snap) /\ Fit(edit)
    BY DEF Idle
  <2>3. Enter(c, snap) \/ Enter(c, edit)
    BY <2>1
  <2> HIDE DEF snap, edit
  <2> QED
    BY <2>2, <2>3
<1>4. CASE Edit(c) \/ Submit(c) \/ ReportCommit(c) \/ Deny(c) \/ DiscardCommit(c)
           \/ Reassign(c) \/ Reopen(c)
  <2>1. Enter(c, Idle)
    BY <1>4 DEF Edit, Submit, ReportCommit, Deny, DiscardCommit, Reassign, Reopen, Answer, Enter
  <2> QED
    BY <1>1, <2>1
<1>5. CASE SubmitRead(c)
  BY <1>5 DEF SubmitRead, Idle
<1>6. CASE ReportRead(c)
  BY <1>2, <1>6 DEF ReportRead
<1>7. CASE ReportInsert(c)
  <2> DEFINE r == [req[c] EXCEPT !.step = "report_commit", !.reporters = {req[c].user},
                                 !.count = Cardinality(Pending) + 1]
  <2>1. req[c] \in Request
    BY DEF TypeInv, TypeOK
  <2>2. Fit(r)
    BY <2>1 DEF Request
  <2>3. Enter(c, r) \/ Enter(c, Idle)
    BY <1>7 DEF ReportInsert, Answer, Enter
  <2> QED
    BY <1>1, <2>2, <2>3
<1>8. CASE DecideRead(c)
  <2>1. Fit([Idle EXCEPT !.step = "deny"])
    BY DEF Idle
  <2>2. Fit([Idle EXCEPT !.step = "snapshot", !.content = row.content, !.version = row.version])
    BY DEF Idle
  <2>3. \/ Enter(c, [Idle EXCEPT !.step = "deny"])
        \/ Enter(c, [Idle EXCEPT !.step = "snapshot", !.content = row.content,
                                 !.version = row.version])
    BY <1>8 DEF DecideRead
  <2> QED
    BY <2>1, <2>2, <2>3
<1>9. CASE RestorePublic(c)
  BY <1>9 DEF RestorePublic, Idle
<1>10. CASE Discard(c)
  <2>1. Fit([Idle EXCEPT !.step = "discard_commit", !.reporters = Pending])
    BY DEF Idle
  <2>2. \/ Enter(c, [Idle EXCEPT !.step = "discard_commit", !.reporters = Pending])
        \/ Enter(c, Idle)
    BY <1>10 DEF Discard, Answer, Enter
  <2> QED
    BY <1>1, <2>1, <2>2
<1>11. CASE ReassignRead(c)
  BY <1>2, <1>11 DEF ReassignRead
<1>12. CASE DecideReport(c)
  <2>1. PICK u \in Pending, status \in {"analisado", "descartado"} :
          Enter(c, [Idle EXCEPT !.step = "decide_commit", !.status = status,
                                !.reporters = {u}, !.count = Cardinality(Pending \ {u})])
    BY <1>12 DEF DecideReport
  <2> DEFINE r == [Idle EXCEPT !.step = "decide_commit", !.status = status,
                               !.reporters = {u}, !.count = Cardinality(Pending \ {u})]
  <2>2. Fit(r)
    BY DEF Idle
  <2>3. Enter(c, r)
    BY <2>1
  <2> HIDE DEF r
  <2> QED
    BY <2>2, <2>3
<1>13. CASE DecideCommit(c)
  <2>1. Fit([Idle EXCEPT !.step = "count_pending"])
    BY DEF Idle
  <2>2. Enter(c, [Idle EXCEPT !.step = "count_pending"]) \/ Enter(c, Idle)
    BY <1>13 DEF DecideCommit, Answer, Enter
  <2> QED
    BY <1>1, <2>1, <2>2
<1>14. CASE CountPending(c)
  <2> DEFINE r == [req[c] EXCEPT !.step = "reopen"]
  <2>1. Fit(r)
    BY DEF TypeInv, TypeOK, Request
  <2>2. Enter(c, r) \/ Enter(c, Idle)
    BY <1>14 DEF CountPending, Goto, Answer, Enter
  <2> QED
    BY <1>1, <2>1, <2>2
<1> QED
  BY <1>3, <1>4, <1>5, <1>6, <1>7, <1>8, <1>9, <1>10, <1>11, <1>12, <1>13, <1>14
  DEF ReporterStep

\* Only an approval writes the version.
LEMMA VersionKept ==
  ASSUME TypeInv, NEW c \in Calls,
         \/ EditRead(c) \/ Edit(c) \/ SubmitRead(c) \/ Submit(c)
         \/ ReporterStep(c)
         \/ DecideRead(c) \/ Deny(c)
         \/ RestorePublic(c) \/ Discard(c) \/ DiscardCommit(c)
         \/ ReassignRead(c) \/ Reassign(c)
         \/ DecideReport(c) \/ DecideCommit(c) \/ CountPending(c) \/ Reopen(c)
  PROVE  row'.version = row.version
<1>1. row \in Row
  BY DEF TypeInv, TypeOK
<1>2. CASE UNCHANGED row
  BY <1>2
<1>3. \A n : Counted(n).version = row.version
  BY <1>1 DEF Counted, Row
<1>4. CASE ReportCommit(c) \/ DiscardCommit(c) \/ DecideCommit(c)
  BY <1>3, <1>4 DEF ReportCommit, DiscardCommit, DecideCommit
<1>5. CASE Edit(c) \/ Submit(c) \/ Deny(c) \/ RestorePublic(c) \/ Reassign(c) \/ Reopen(c)
  BY <1>1, <1>5 DEF Edit, Submit, Deny, RestorePublic, Reassign, Reopen, Row
<1> QED
  BY <1>2, <1>4, <1>5 DEF EditRead, SubmitRead, ReporterStep, ReportRead, ReportInsert,
    DecideRead, Discard, ReassignRead, DecideReport, CountPending

LEMMA VersionKeptAlone ==
  ASSUME TypeInv, (\E u \in Users : UserStep(u)) \/ CurationArchive \/ AdminUpdate
  PROVE  row'.version = row.version
<1>1. row \in Row
  BY DEF TypeInv, TypeOK
<1>2. ASSUME NEW u \in Users, UserStep(u) PROVE row'.version = row.version
  BY <1>1, <1>2 DEF UserStep, Create, Archive, MakePrivate, Restore, Withdraw, Deactivate,
    Reactivate, Row
<1>3. CASE CurationArchive \/ AdminUpdate
  BY <1>1, <1>3 DEF CurationArchive, AdminUpdate, Row
<1> QED
  BY <1>2, <1>3

LEMMA VersionStep ==
  ASSUME TypeInv, VersionInv, [Next]_vars
  PROVE  VersionInv'
<1>1. row.version \in Nat /\ crashes \in Nat /\ \A c \in Calls : req[c].version \in Nat
  BY DEF TypeInv, TypeOK, Row, Sound, Request
<1>3. ASSUME NEW c \in Calls, EditSnapshot(c) PROVE VersionInv'
  <2> DEFINE r == [Idle EXCEPT !.step = "edit", !.status = req[c].status, !.text = req[c].text]
  <2>1. r.step = "edit" /\ Enter(c, r) /\ ~At(c, "publish") /\ UNCHANGED <<row, crashes>>
    BY <1>3 DEF EditSnapshot, Idle, At
  <2>2. 1 <= req[c].version /\ req[c].version <= row.version
    BY <1>3 DEF EditSnapshot, At, VersionInv
  <2> HIDE DEF r
  <2>3. CASE UNCHANGED versions
    BY <2>1, <2>3, Steady
  <2>4. CASE req[c].version \notin Numbers
    <3> DEFINE new == [number |-> req[c].version, content |-> req[c].content]
    <3>1. versions' = versions \cup {new} /\ \A x \in versions : x.number # new.number
      BY <1>3, <2>4 DEF EditSnapshot, Numbers
    <3>2. \A d \in Calls : req'[d] = IF d = c THEN r ELSE req[d]
      BY <2>1 DEF Enter, TypeInv, TypeOK
    <3>3. \A d \in Calls : At(d, "publish")' => At(d, "publish") /\ req'[d] = req[d]
      BY <2>1, <3>2 DEF At
    <3>4. \A d \in Calls : At(d, "publish") => At(d, "publish")' /\ req'[d] = req[d]
      BY <2>1, <3>2 DEF At
    <3>5. Numbers' = Numbers \cup {req[c].version}
      BY <3>1, NumbersGrow
    <3>6. SnapshotPerVersion'
      BY <2>1, <3>5 DEF VersionInv, SnapshotPerVersion
    <3>7. req[c].version # row.version + 1
      BY <1>1, <2>2
    <3>8. ApprovalIsFree'
      BY <2>1, <3>4, <3>5, <3>7 DEF VersionInv, ApprovalIsFree
    <3>9. \A x, y \in versions' : x.number = y.number => x = y
      BY <3>1 DEF VersionInv
    <3>10. \A x \in versions' : x.number <= row.version + 1
      BY <1>1, <2>2, <3>1 DEF VersionInv
    <3>11. \A d \in Calls : req'[d].step \in {"edit_snapshot", "snapshot"} =>
            1 <= req'[d].version /\ req'[d].version <= row.version
      BY <2>1, <3>2 DEF VersionInv
    <3> QED
      BY <2>1, <3>1, <3>3, <3>6, <3>8, <3>9, <3>10, <3>11 DEF VersionInv, NextSnapshot
  <2> QED
    BY <1>3, <2>3, <2>4 DEF EditSnapshot
<1>4. ASSUME NEW c \in Calls, ApproveSnapshot(c) PROVE VersionInv'
  <2>1. At(c, "snapshot") /\ 1 <= req[c].version /\ req[c].version <= row.version
        /\ UNCHANGED <<row, crashes>>
    BY <1>4 DEF ApproveSnapshot, At, VersionInv
  <2>2. CASE req[c].version + 1 \in Numbers
    <3>1. Enter(c, Idle) /\ UNCHANGED versions
      BY <1>4, <2>2 DEF ApproveSnapshot, Answer, Enter
    <3> QED
      BY <2>1, <3>1, Steady DEF At, Idle
  <2>3. CASE req[c].version + 1 \notin Numbers
    <3>1. req[c].version = row.version
      <4>1. CASE req[c].version < row.version
        <5>1. req[c].version + 1 \in 2..row.version
          BY <1>1, <2>1, <4>1
        <5> QED
          BY <2>3, <5>1 DEF VersionInv, SnapshotPerVersion
      <4> QED
        BY <1>1, <2>1, <4>1
    <3> DEFINE new == [number |-> row.version + 1, content |-> req[c].content]
               r == [req[c] EXCEPT !.step = "publish"]
    <3>2. versions' = versions \cup {new} /\ Enter(c, r)
      BY <1>4, <2>3, <3>1 DEF ApproveSnapshot, Goto, Enter
    <3>3. \A d \in Calls : req'[d] = IF d = c THEN r ELSE req[d]
      BY <3>2 DEF Enter, TypeInv, TypeOK
    <3>4. \A d \in Calls : ~At(d, "publish")
      BY <2>3, <3>1, PublishingTakesNumber
    <3>5. r.step = "publish" /\ r.version = row.version /\ r.content = req[c].content
      BY <3>1 DEF TypeInv, TypeOK, Request
    <3> HIDE DEF r
    <3>6. \A d \in Calls : At(d, "publish")' <=> d = c
      BY <3>3, <3>4, <3>5 DEF At
    <3>7. Numbers' = Numbers \cup {row.version + 1}
      BY <3>2, NumbersGrow
    <3>8. SnapshotPerVersion' /\ ApprovalIsFree'
      BY <2>1, <3>3, <3>5, <3>6, <3>7 DEF VersionInv, SnapshotPerVersion, ApprovalIsFree
    <3>9. \A x, y \in versions' : x.number = y.number => x = y
      BY <2>3, <3>1, <3>2 DEF VersionInv, Numbers
    <3>10. \A x \in versions' : x.number <= row.version + 1
      BY <1>1, <3>2 DEF VersionInv
    <3>11. \A d \in Calls : req'[d].step \in {"edit_snapshot", "snapshot"} =>
            1 <= req'[d].version /\ req'[d].version <= row.version
      BY <3>3, <3>5 DEF VersionInv
    <3>12. NextSnapshot(c)' \in versions'
      BY <2>1, <3>2, <3>3, <3>5 DEF NextSnapshot
    <3> QED
      BY <2>1, <3>3, <3>5, <3>6, <3>8, <3>9, <3>10, <3>11, <3>12 DEF VersionInv
  <2> QED
    BY <2>2, <2>3
<1>5. ASSUME NEW c \in Calls, Publish(c) PROVE VersionInv'
  <2>1. At(c, "publish") /\ Enter(c, Idle) /\ UNCHANGED <<versions, crashes>>
    BY <1>5 DEF Publish, Answer, Enter
  <2>2. row'.version = row.version + 1
    BY <1>5 DEF Publish, TypeInv, TypeOK, Row
  <2>3. \A d \in Calls : req'[d] = IF d = c THEN Idle ELSE req[d]
    BY <2>1 DEF Enter, TypeInv, TypeOK
  <2>4. \A d \in Calls : ~At(d, "publish")'
    BY <2>1, <2>3 DEF At, Idle, VersionInv
  <2>5. row.version + 1 \in Numbers
    BY <2>1, PublishingTakesNumber
  <2>6. SnapshotPerVersion'
    <3> SUFFICES ASSUME NEW v \in 2..(row.version + 1) PROVE v \in Numbers
      BY <2>1, <2>2 DEF SnapshotPerVersion, Numbers
    <3>1. v = row.version + 1 \/ v \in 2..row.version
      BY <1>1
    <3> QED
      BY <2>5, <3>1 DEF VersionInv, SnapshotPerVersion
  <2>7. row.version + 2 \notin Numbers
    BY <1>1 DEF VersionInv, Numbers
  <2>8. ApprovalIsFree'
    BY <1>1, <2>1, <2>2, <2>7 DEF ApprovalIsFree, Numbers
  <2>9. \A d \in Calls : req'[d].step \in {"edit_snapshot", "snapshot"} =>
          1 <= req'[d].version /\ req'[d].version <= row'.version
    BY <1>1, <2>2, <2>3 DEF VersionInv, Idle
  <2>10. row'.version >= 1 /\ \A x \in versions' : x.number <= row'.version + 1
    <3>1. \A x \in versions : x.number \in Nat
      BY DEF TypeInv, TypeOK
    <3> QED
      BY <1>1, <2>1, <2>2, <3>1 DEF VersionInv
  <2> QED
    BY <2>1, <2>4, <2>6, <2>8, <2>9, <2>10 DEF VersionInv
<1>6. ASSUME NEW c \in Calls, Crash(c) PROVE VersionInv'
  <2>1. Enter(c, Idle) /\ UNCHANGED <<versions, row>> /\ crashes' = crashes + 1
    BY <1>6 DEF Crash, Answer, Enter
  <2>2. \A d \in Calls : req'[d] = IF d = c THEN Idle ELSE req[d]
    BY <2>1 DEF Enter, TypeInv, TypeOK
  <2>3. \A d \in Calls : At(d, "publish")' => At(d, "publish") /\ req'[d] = req[d]
    BY <2>2 DEF At, Idle
  <2>4. ApprovalIsFree'
    BY <1>1, <2>1 DEF ApprovalIsFree
  <2>5. SnapshotPerVersion'
    BY <2>1 DEF VersionInv, SnapshotPerVersion, Numbers
  <2>6. \A d \in Calls : req'[d].step \in {"edit_snapshot", "snapshot"} =>
          1 <= req'[d].version /\ req'[d].version <= row.version
    BY <2>2 DEF VersionInv, Idle
  <2> QED
    BY <2>1, <2>3, <2>4, <2>5, <2>6 DEF VersionInv, NextSnapshot
<1>7. CASE UNCHANGED vars
  BY <1>7, Steady DEF vars
<1>8. ASSUME NEW c \in Calls,
             \/ EditRead(c) \/ Edit(c) \/ SubmitRead(c) \/ Submit(c)
             \/ ReporterStep(c)
             \/ DecideRead(c) \/ Deny(c)
             \/ RestorePublic(c) \/ Discard(c) \/ DiscardCommit(c)
             \/ ReassignRead(c) \/ Reassign(c)
             \/ DecideReport(c) \/ DecideCommit(c) \/ CountPending(c) \/ Reopen(c)
      PROVE  VersionInv'
  <2>1. UNCHANGED <<versions, crashes>> /\ ~At(c, "publish")
    BY <1>8 DEF EditRead, Edit, SubmitRead, Submit, ReporterStep, ReportRead, ReportInsert,
      ReportCommit, DecideRead, Deny, RestorePublic, Discard, DiscardCommit, ReassignRead,
      Reassign, DecideReport, DecideCommit, CountPending, Reopen, At
  <2>2. row'.version = row.version
    BY <1>8, VersionKept
  <2>3. \E r : /\ Enter(c, r) /\ r.step # "publish"
               /\ r.step \in {"edit_snapshot", "snapshot"} => r.version = row.version
    BY <1>8, NextRequest
  <2> QED
    BY <2>1, <2>2, <2>3, Steady
<1>9. CASE (\E u \in Users : UserStep(u)) \/ CurationArchive \/ AdminUpdate
  <2>1. UNCHANGED <<versions, crashes, req>>
    BY <1>9 DEF UserStep, Create, Archive, MakePrivate, Restore, Withdraw, Deactivate,
      Reactivate, CurationArchive, AdminUpdate, OnlyRow
  <2>2. row'.version = row.version
    BY <1>9, VersionKeptAlone
  <2> QED
    BY <2>1, <2>2, Steady
<1> QED
  BY <1>3, <1>4, <1>5, <1>6, <1>7, <1>8, <1>9 DEF Next, AuthorStep, CuratorStep

\* Versions and snapshots stay together in every reachable state.
LEMMA VersionInvariant == Spec => []VersionInv
<1>1. Init => VersionInv
  BY DEF Init, VersionInv, SnapshotPerVersion, ApprovalIsFree, Numbers, At, Idle
<1> QED
  BY <1>1, VersionStep, TypeInvariant, PTL DEF Spec

\* Every version an approval produced has its snapshot.
THEOREM SnapshotsComplete == Spec => []SnapshotPerVersion
<1>1. VersionInv => SnapshotPerVersion
  BY DEF VersionInv
<1> QED
  BY <1>1, VersionInvariant, PTL

\* As long as no call dies, the next number is free or an approval is publishing it.
THEOREM ApprovalsFree == Spec => []ApprovalIsFree
<1>1. VersionInv => ApprovalIsFree
  BY DEF VersionInv
<1> QED
  BY <1>1, VersionInvariant, PTL

\* The snapshots up to the version, as the ledger sees them.
Snapshots == {v \in versions : v.number <= row.version}

\* A step that writes neither version nor snapshot is a stutter of the ledger.
LEMMA LedgerSteady ==
  ASSUME UNCHANGED versions, row'.version = row.version
  PROVE  UNCHANGED <<row.version, Snapshots>>
BY DEF Snapshots

\* A late snapshot of a version that has none is a backfill.
LEMMA LedgerBackfill ==
  ASSUME TypeInv, VersionInv, NEW c \in Calls, EditSnapshot(c)
  PROVE  \/ \E text \in Contents : Ledger!Backfill(text)
         \/ UNCHANGED <<row.version, Snapshots>>
<1>1. row' = row /\ At(c, "edit_snapshot")
  BY DEF EditSnapshot
<1>2. req[c].version \in 1..row.version /\ req[c].content \in Contents
  BY <1>1 DEF TypeInv, TypeOK, Row, Sound, Request, VersionInv, At
<1>3. CASE UNCHANGED versions
  BY <1>1, <1>3, LedgerSteady
<1>4. CASE req[c].version \notin Numbers
  <2> DEFINE new == [number |-> req[c].version, content |-> req[c].content]
  <2>1. versions' = versions \cup {new} /\ new.number = req[c].version
    BY <1>4 DEF EditSnapshot
  <2>2. new.number <= row.version
    BY <1>2, <2>1 DEF TypeInv, TypeOK, Row
  <2>3. \A s \in Snapshots : s.number # req[c].version
    BY <1>4 DEF Snapshots, Numbers
  <2> SUFFICES Snapshots' = Snapshots \cup {new}
    BY <1>1, <1>2, <2>3 DEF Ledger!Backfill, Snapshots
  <2> HIDE DEF new
  <2> QED
    BY <1>1, <2>1, <2>2 DEF Snapshots
<1> QED
  BY <1>3, <1>4 DEF EditSnapshot

\* The snapshot of an approval stays out of the ledger until the version moves.
LEMMA LedgerHidden ==
  ASSUME TypeInv, VersionInv, NEW c \in Calls, ApproveSnapshot(c)
  PROVE  UNCHANGED <<row.version, Snapshots>>
<1>1. row' = row /\ At(c, "snapshot")
  BY DEF ApproveSnapshot
<1>2. req[c].version \in 1..row.version /\ row.version \in Nat
  BY <1>1 DEF TypeInv, TypeOK, Row, Sound, Request, VersionInv, At
<1>3. CASE req[c].version + 1 \in Numbers
  BY <1>1, <1>3, LedgerSteady DEF ApproveSnapshot
<1>4. CASE req[c].version + 1 \notin Numbers
  <2> DEFINE new == [number |-> req[c].version + 1, content |-> req[c].content]
  <2>1. versions' = versions \cup {new} /\ new.number = req[c].version + 1
    BY <1>4 DEF ApproveSnapshot
  <2>2. req[c].version + 1 \notin 2..row.version
    BY <1>4 DEF VersionInv, SnapshotPerVersion
  <2>3. ~(new.number <= row.version)
    BY <1>2, <2>1, <2>2
  <2> HIDE DEF new
  <2> QED
    BY <1>1, <2>1, <2>3 DEF Snapshots
<1> QED
  BY <1>3, <1>4

\* The UPDATE of an approval is the whole approval: it brings in the one snapshot
\* that carries the next number.
LEMMA LedgerApproval ==
  ASSUME TypeInv, VersionInv, NEW c \in Calls, Publish(c)
  PROVE  \E text \in Contents : Ledger!Approve(text)
<1> DEFINE new == NextSnapshot(c)
<1>1. At(c, "publish") /\ versions' = versions /\ row'.version = row.version + 1
  BY DEF Publish, TypeInv, TypeOK, Row
<1>2. row.version \in Nat /\ req[c].content \in Contents
  BY <1>1 DEF TypeInv, TypeOK, Row, Sound, At
<1>3. new \in versions
  BY <1>1 DEF VersionInv
<1>4. new.number = row.version + 1 /\ new = [number |-> row.version + 1, content |-> req[c].content]
  BY DEF NextSnapshot
<1>5. \A x \in versions : x.number \in Nat /\ (x.number = row.version + 1 => x = new)
  BY <1>3, <1>4 DEF VersionInv, TypeInv, TypeOK
<1> HIDE DEF new
<1>6. Snapshots' = Snapshots \cup {new}
  BY <1>1, <1>2, <1>3, <1>4, <1>5 DEF Snapshots
<1> QED
  BY <1>1, <1>2, <1>4, <1>6 DEF Ledger!Approve, Snapshots

LEMMA LedgerStep ==
  ASSUME TypeInv, VersionInv, [Next]_vars
  PROVE  \/ Ledger!Next
         \/ UNCHANGED <<row.version, Snapshots>>
<1>1. ASSUME NEW c \in Calls, EditSnapshot(c) \/ ApproveSnapshot(c) \/ Publish(c)
      PROVE  Ledger!Next \/ UNCHANGED <<row.version, Snapshots>>
  BY <1>1, LedgerBackfill, LedgerHidden, LedgerApproval DEF Ledger!Next
<1>2. ASSUME NEW c \in Calls, Crash(c) PROVE UNCHANGED <<row.version, Snapshots>>
  BY <1>2, LedgerSteady DEF Crash
<1>3. CASE UNCHANGED vars
  BY <1>3, LedgerSteady DEF vars
<1>4. ASSUME NEW c \in Calls,
             \/ EditRead(c) \/ Edit(c) \/ SubmitRead(c) \/ Submit(c)
             \/ ReporterStep(c)
             \/ DecideRead(c) \/ Deny(c)
             \/ RestorePublic(c) \/ Discard(c) \/ DiscardCommit(c)
             \/ ReassignRead(c) \/ Reassign(c)
             \/ DecideReport(c) \/ DecideCommit(c) \/ CountPending(c) \/ Reopen(c)
      PROVE  UNCHANGED <<row.version, Snapshots>>
  <2>1. UNCHANGED versions
    BY <1>4 DEF EditRead, Edit, SubmitRead, Submit, ReporterStep, ReportRead, ReportInsert,
      ReportCommit, DecideRead, Deny, RestorePublic, Discard, DiscardCommit, ReassignRead,
      Reassign, DecideReport, DecideCommit, CountPending, Reopen
  <2> QED
    BY <1>4, <2>1, VersionKept, LedgerSteady
<1>5. CASE (\E u \in Users : UserStep(u)) \/ CurationArchive \/ AdminUpdate
  <2>1. UNCHANGED versions
    BY <1>5 DEF UserStep, Create, Archive, MakePrivate, Restore, Withdraw, Deactivate,
      Reactivate, CurationArchive, AdminUpdate, OnlyRow
  <2> QED
    BY <1>5, <2>1, VersionKeptAlone, LedgerSteady
<1> QED
  BY <1>1, <1>2, <1>3, <1>4, <1>5 DEF Next, AuthorStep, CuratorStep

\* Approvals made of two statements, racing each other and the author's edits and
\* dying anywhere, implement the ledger, where each approval is one step.
THEOREM ImplementsTheLedger == Spec => ImplementsLedger
<1>1. Init => Ledger!Init
  <2> SUFFICES ASSUME Init PROVE Ledger!Init
    OBVIOUS
  <2> QED
    BY DEF Init, Ledger!Init
<1>2. TypeInv /\ VersionInv /\ [Next]_vars =>
        [Ledger!Next]_<<row.version, {v \in versions : v.number <= row.version}>>
  BY LedgerStep DEF Snapshots
<1> QED
  BY <1>1, <1>2, TypeInvariant, VersionInvariant, PTL DEF Spec, ImplementsLedger, Ledger!Spec


-----------------------------------------------------------------------------

\* What a decision under way has read is still the text of the prompt.
ReviewInv ==
    /\ PublishedIsApproved
    /\ FlagFollowsStatus
    /\ \A c \in Calls : req[c].step \in {"snapshot", "publish"} => req[c].content = row.content

\* A step that publishes nothing: what it leaves published was published, with the
\* same text and the same flag.
Withholds ==
    /\ row'.status \in Published => row.status \in Published /\ row'.content = row.content
    /\ row'.isPublic <=> row'.status \in Published
    /\ approved' = approved

LEMMA WithholdsStep ==
  ASSUME TypeInv, ReviewInv, Orderly, Withholds,
         \/ UNCHANGED req
         \/ \E c \in Calls : \E r :
             /\ Enter(c, r)
             /\ r.step = "publish" => At(c, "snapshot") /\ r.content = req[c].content
             /\ r.step = "snapshot" => r.content = row.content /\ row' = row
  PROVE  ReviewInv'
<1>1. PublishedIsApproved' /\ FlagFollowsStatus'
  BY DEF ReviewInv, Withholds, PublishedIsApproved, FlagFollowsStatus
<1>2. \A c \in Calls : req[c].step \in {"snapshot", "publish"} =>
        req[c].content = row'.content
  BY DEF ReviewInv, Orderly, At
<1>3. CASE UNCHANGED req
  BY <1>1, <1>2, <1>3 DEF ReviewInv
<1>4. ASSUME NEW c \in Calls, NEW r, Enter(c, r),
             r.step = "publish" => At(c, "snapshot") /\ r.content = req[c].content,
             r.step = "snapshot" => r.content = row.content /\ row' = row
      PROVE  ReviewInv'
  <2>1. \A d \in Calls : req'[d] = IF d = c THEN r ELSE req[d]
    BY <1>4 DEF Enter, TypeInv, TypeOK
  <2>2. ASSUME NEW d \in Calls, req'[d].step \in {"snapshot", "publish"}
        PROVE  req'[d].content = row'.content
    <3>1. CASE d # c
      BY <1>2, <2>1, <2>2, <3>1
    <3>2. CASE d = c /\ r.step = "publish"
      BY <1>2, <1>4, <2>1, <3>2 DEF At
    <3>3. CASE d = c /\ r.step = "snapshot"
      BY <1>4, <2>1, <3>3
    <3> QED
      BY <2>1, <2>2, <3>1, <3>2, <3>3
  <2> QED
    BY <1>1, <2>2 DEF ReviewInv
<1> QED
  BY <1>3, <1>4

\* The calls that do not approve publish nothing new.
LEMMA CallWithholds ==
  ASSUME TypeInv, ReviewInv, Orderly, NEW c \in Calls,
         \/ EditRead(c) \/ Edit(c) \/ SubmitRead(c) \/ Submit(c)
         \/ ReporterStep(c)
         \/ DecideRead(c) \/ Deny(c)
         \/ RestorePublic(c) \/ Discard(c) \/ DiscardCommit(c)
         \/ ReassignRead(c) \/ Reassign(c)
         \/ DecideReport(c) \/ DecideCommit(c) \/ CountPending(c) \/ Reopen(c)
  PROVE  Withholds
<1>1. row \in Row /\ (row.isPublic <=> row.status \in Published)
  BY DEF TypeInv, TypeOK, ReviewInv, FlagFollowsStatus
<1>2. CASE UNCHANGED <<row, approved>>
  BY <1>1, <1>2 DEF Withholds
<1>3. ASSUME NEW n, row' = Counted(n), UNCHANGED approved PROVE Withholds
  <2>1. /\ row'.content = row.content /\ row'.isPublic = row.isPublic
        /\ row'.status \in Published <=> row.status \in Published
    BY <1>1, <1>3 DEF Counted, Row, Published
  <2> QED
    BY <1>1, <1>3, <2>1 DEF Withholds
<1>4. CASE ReportCommit(c) \/ DiscardCommit(c) \/ DecideCommit(c)
  BY <1>3, <1>4 DEF ReportCommit, DiscardCommit, DecideCommit
<1>5. CASE Edit(c)
  <2>1. req[c].status \in Drafts \cup {"aguardando"}
    BY <1>5 DEF Edit, At, TypeInv, Sound
  <2>2. row'.status = req[c].status /\ row'.isPublic = FALSE /\ approved' = approved
    BY <1>1, <1>5 DEF Edit, Row
  <2> QED
    BY <2>1, <2>2 DEF Withholds, Drafts, Published
<1>6. CASE Submit(c)
  <2>1. req'[c] # req[c]
    BY <1>6 DEF Submit, At, Answer, Idle, TypeInv, TypeOK
  <2>2. row.status = "privado"
    BY <1>6, <2>1 DEF Orderly, Submit
  <2>3. row'.status = "aguardando" /\ row'.isPublic = row.isPublic /\ approved' = approved
    BY <1>1, <1>6 DEF Submit, Row
  <2> QED
    BY <1>1, <2>2, <2>3 DEF Withholds, Published
<1>7. CASE Deny(c)
  <2>1. row'.status = "privado" /\ row'.isPublic = FALSE /\ approved' = approved
    BY <1>1, <1>7 DEF Deny, Row
  <2> QED
    BY <2>1 DEF Withholds, Published
<1>8. ASSUME row.status = "em_revisao", UNCHANGED approved,
             row' = [row EXCEPT !.status = "publico", !.isPublic = TRUE, !.reportCount = 0]
      PROVE  Withholds
  <2>1. row'.status = "publico" /\ row'.isPublic = TRUE /\ row'.content = row.content
    BY <1>1, <1>8 DEF Row
  <2> QED
    BY <1>8, <2>1 DEF Withholds, Published
<1>9. CASE RestorePublic(c)
  BY <1>8, <1>9 DEF RestorePublic
<1>10. CASE Reopen(c)
  BY <1>2, <1>8, <1>10 DEF Reopen
<1>11. CASE Reassign(c)
  <2>1. /\ row'.status = row.status /\ row'.isPublic = row.isPublic
        /\ row'.content = row.content /\ approved' = approved
    BY <1>1, <1>11 DEF Reassign, Row
  <2> QED
    BY <1>1, <2>1 DEF Withholds
<1> QED
  BY <1>2, <1>4, <1>5, <1>6, <1>7, <1>9, <1>10, <1>11 DEF EditRead, SubmitRead,
    ReporterStep, ReportRead, ReportInsert, DecideRead, Discard, ReassignRead, DecideReport,
    CountPending

\* A handler of one statement of the author, of a curator or on the author's account
\* publishes nothing.
LEMMA UserWithholds ==
  ASSUME TypeInv, ReviewInv, (\E u \in Users : UserStep(u)) \/ CurationArchive
  PROVE  Withholds
<1>1. row \in Row /\ (row.isPublic <=> row.status \in Published)
  BY DEF TypeInv, TypeOK, ReviewInv, FlagFollowsStatus
<1>2. approved' = approved
  BY DEF UserStep, Create, Archive, MakePrivate, Restore, Withdraw, Deactivate, Reactivate,
    CurationArchive, OnlyRow
<1>3. ASSUME NEW u \in Users, Create(u) \/ MakePrivate(u) \/ Restore(u) \/ Withdraw(u)
      PROVE  Withholds
  <2>1. row'.isPublic = row.isPublic /\ row.status \notin Published
        /\ row'.status \notin Published
    BY <1>1, <1>3 DEF Create, MakePrivate, Restore, Withdraw, Row, Published, Drafts
  <2> QED
    BY <1>1, <1>2, <2>1 DEF Withholds
<1>4. ASSUME NEW u \in Users, Archive(u) \/ CurationArchive PROVE Withholds
  <2>1. row'.isPublic = FALSE /\ row'.status = "arquivado"
    BY <1>1, <1>4 DEF Archive, CurationArchive, Row
  <2> QED
    BY <1>2, <2>1 DEF Withholds, Published
<1>5. CASE CurationArchive
  <2>1. row'.isPublic = FALSE /\ row'.status = "arquivado"
    BY <1>1, <1>5 DEF CurationArchive, Row
  <2> QED
    BY <1>2, <2>1 DEF Withholds, Published
<1>6. CASE UNCHANGED row
  BY <1>1, <1>2, <1>6 DEF Withholds
<1>7. ASSUME NEW u \in Users, Deactivate(u) PROVE Withholds
  <2>1. CASE row.author = u /\ row.status \in Drafts
    <3>1. row'.isPublic = row.isPublic /\ row'.status = "arquivado"
      BY <1>1, <1>7, <2>1 DEF Deactivate, Row
    <3> QED
      BY <1>1, <1>2, <2>1, <3>1 DEF Withholds, Published, Drafts
  <2>2. CASE ~(row.author = u /\ row.status \in Drafts)
    BY <1>6, <1>7, <2>2 DEF Deactivate
  <2> QED
    BY <2>1, <2>2
<1> QED
  BY <1>3, <1>4, <1>5, <1>6, <1>7 DEF UserStep, Reactivate

\* Of these steps only the reading of a decision goes on to a snapshot.
LEMMA SnapshotFollows ==
  ASSUME TypeInv, NEW c \in Calls, NEW r, Enter(c, r), r.step = "snapshot",
         \/ EditRead(c) \/ Edit(c) \/ SubmitRead(c) \/ Submit(c)
         \/ ReporterStep(c)
         \/ DecideRead(c) \/ Deny(c)
         \/ RestorePublic(c) \/ Discard(c) \/ DiscardCommit(c)
         \/ ReassignRead(c) \/ Reassign(c)
         \/ DecideReport(c) \/ DecideCommit(c) \/ CountPending(c) \/ Reopen(c)
  PROVE  row' = row
<1>1. req'[c] = r
  BY DEF Enter, TypeInv, TypeOK
<1>2. CASE Edit(c) \/ Submit(c) \/ ReportCommit(c) \/ Deny(c) \/ DiscardCommit(c)
           \/ Reassign(c) \/ Reopen(c)
  <2>1. Enter(c, Idle)
    BY <1>2 DEF Edit, Submit, ReportCommit, Deny, DiscardCommit, Reassign, Reopen, Answer, Enter
  <2>2. req'[c] = Idle
    BY <2>1 DEF Enter, TypeInv, TypeOK
  <2> QED
    BY <1>1, <2>2 DEF Idle
<1>3. CASE RestorePublic(c) \/ DecideCommit(c)
  <2>1. req'[c].step \in {"discard", "count_pending", "idle"}
    BY <1>3 DEF RestorePublic, DecideCommit, Answer, Enter, Idle, TypeInv, TypeOK
  <2> QED
    BY <1>1, <2>1
<1> QED
  BY <1>2, <1>3 DEF EditRead, SubmitRead, ReporterStep, ReportRead, ReportInsert, DecideRead,
    Discard, ReassignRead, DecideReport, CountPending

LEMMA ReviewStep ==
  ASSUME TypeInv, ReviewInv, [Next /\ Orderly]_vars
  PROVE  ReviewInv'
<1>1. CASE UNCHANGED vars
  BY <1>1 DEF vars, ReviewInv, PublishedIsApproved, FlagFollowsStatus
<1> SUFFICES ASSUME Next, Orderly PROVE ReviewInv'
  BY <1>1
<1>2. row \in Row /\ (row.isPublic <=> row.status \in Published)
  BY DEF TypeInv, TypeOK, ReviewInv, FlagFollowsStatus
<1>3. ASSUME NEW c \in Calls, Publish(c) PROVE ReviewInv'
  <2>1. /\ Enter(c, Idle) /\ req[c].step = "publish"
        /\ row' = [row EXCEPT !.status = "publico", !.isPublic = TRUE, !.version = @ + 1]
        /\ approved' = approved \cup {req[c].content}
    BY <1>3 DEF Publish, Answer, Enter, At
  <2>2. row'.content = row.content /\ row'.status = "publico" /\ row'.isPublic = TRUE
    BY <1>2, <2>1 DEF Row
  <2>3. PublishedIsApproved' /\ FlagFollowsStatus'
    BY <2>1, <2>2 DEF ReviewInv, PublishedIsApproved, FlagFollowsStatus, Published
  <2>4. \A d \in Calls : req'[d] = IF d = c THEN Idle ELSE req[d]
    BY <2>1 DEF Enter, TypeInv, TypeOK
  <2> QED
    BY <2>2, <2>3, <2>4 DEF ReviewInv, Idle
<1>4. ASSUME NEW c \in Calls, ApproveSnapshot(c) PROVE ReviewInv'
  <2>1. Withholds /\ At(c, "snapshot")
    BY <1>2, <1>4 DEF ApproveSnapshot, Withholds
  <2> DEFINE r == [req[c] EXCEPT !.step = "publish"]
  <2>2. r.step = "publish" /\ r.content = req[c].content
    BY DEF TypeInv, TypeOK, Request
  <2>3. Enter(c, r) \/ Enter(c, Idle)
    BY <1>4 DEF ApproveSnapshot, Goto, Answer, Enter
  <2> HIDE DEF r
  <2>4. CASE Enter(c, r)
    BY <2>1, <2>2, <2>4, WithholdsStep
  <2>5. CASE Enter(c, Idle)
    BY <2>1, <2>5, WithholdsStep DEF Idle
  <2> QED
    BY <2>3, <2>4, <2>5
<1>5. CASE AdminUpdate
  <2>1. PICK text \in Contents, on \in BOOLEAN, sent \in BOOLEAN, public \in BOOLEAN :
          /\ row' = [row EXCEPT
               !.content = text, !.isActive = on,
               !.isPublic = IF sent THEN public ELSE @,
               !.status = IF ~sent THEN @ ELSE IF public THEN "publico" ELSE "privado"]
          /\ approved' = IF text # row.content \/ (sent /\ public)
                         THEN approved \cup {text} ELSE approved
    BY <1>5 DEF AdminUpdate
  <2>2. row'.content = text
    BY <1>2, <2>1 DEF Row
  <2>3. PublishedIsApproved' /\ FlagFollowsStatus'
    <3>1. CASE ~sent
      <4>1. row'.status = row.status /\ row'.isPublic = row.isPublic
        BY <1>2, <2>1, <3>1 DEF Row
      <4>2. FlagFollowsStatus'
        BY <1>2, <4>1 DEF FlagFollowsStatus
      <4>3. PublishedIsApproved'
        BY <2>1, <2>2, <4>1 DEF ReviewInv, PublishedIsApproved
      <4> QED
        BY <4>2, <4>3
    <3>2. CASE sent /\ public
      <4>1. row'.status = "publico" /\ row'.isPublic = TRUE
        BY <1>2, <2>1, <3>2 DEF Row
      <4> QED
        BY <2>1, <2>2, <3>2, <4>1 DEF PublishedIsApproved, FlagFollowsStatus, Published
    <3>3. CASE sent /\ ~public
      <4>1. row'.status = "privado" /\ row'.isPublic = FALSE
        BY <1>2, <2>1, <3>3 DEF Row
      <4> QED
        BY <4>1 DEF PublishedIsApproved, FlagFollowsStatus, Published
    <3> QED
      BY <3>1, <3>2, <3>3
  <2>4. UNCHANGED req
    BY <1>5 DEF AdminUpdate
  <2> QED
    BY <2>3, <2>4 DEF ReviewInv, Orderly, At
<1>6. ASSUME NEW c \in Calls,
             \/ EditRead(c) \/ Edit(c) \/ SubmitRead(c) \/ Submit(c)
             \/ ReporterStep(c)
             \/ DecideRead(c) \/ Deny(c)
             \/ RestorePublic(c) \/ Discard(c) \/ DiscardCommit(c)
             \/ ReassignRead(c) \/ Reassign(c)
             \/ DecideReport(c) \/ DecideCommit(c) \/ CountPending(c) \/ Reopen(c)
      PROVE  ReviewInv'
  <2>1. Withholds
    BY <1>6, CallWithholds
  <2>2. PICK r : /\ Enter(c, r) /\ r.step # "publish"
                 /\ r.step \in {"edit_snapshot", "snapshot"} =>
                      r.version = row.version /\ r.content = row.content
    BY <1>6, NextRequest
  <2>3. r.step = "snapshot" => row' = row
    BY <1>6, <2>2, SnapshotFollows
  <2> QED
    BY <2>1, <2>2, <2>3, WithholdsStep
<1>7. ASSUME NEW c \in Calls, EditSnapshot(c) \/ Crash(c) PROVE ReviewInv'
  <2>1. Withholds
    BY <1>2, <1>7 DEF EditSnapshot, Crash, Withholds
  <2> DEFINE r == [Idle EXCEPT !.step = "edit", !.status = req[c].status, !.text = req[c].text]
  <2>2. r.step = "edit" /\ Idle.step = "idle"
    BY DEF Idle
  <2>3. Enter(c, r) \/ Enter(c, Idle)
    BY <1>7 DEF EditSnapshot, Crash, Answer, Enter
  <2> HIDE DEF r
  <2> QED
    BY <2>1, <2>2, <2>3, WithholdsStep
<1>8. CASE (\E u \in Users : UserStep(u)) \/ CurationArchive
  <2>1. Withholds
    BY <1>8, UserWithholds
  <2>2. UNCHANGED req
    BY <1>8 DEF UserStep, Create, Archive, MakePrivate, Restore, Withdraw, Deactivate,
      Reactivate, CurationArchive, OnlyRow
  <2> QED
    BY <2>1, <2>2, WithholdsStep
<1> QED
  BY <1>3, <1>4, <1>5, <1>6, <1>7, <1>8 DEF Next, AuthorStep, CuratorStep

\* Under the orderly use of the handlers, what is published is a text somebody
\* decided to publish, and is_public agrees with the status.
LEMMA ReviewInvariant == OrderlySpec => []ReviewInv
<1>1. Init => ReviewInv
  BY DEF Init, ReviewInv, PublishedIsApproved, FlagFollowsStatus, Published, Idle
<1>2. OrderlySpec => Spec
  <2>1. [Next /\ Orderly]_vars => [Next]_vars
    OBVIOUS
  <2> QED
    BY <2>1, PTL DEF OrderlySpec, Spec
<1> QED
  BY <1>1, <1>2, ReviewStep, TypeInvariant, PTL DEF OrderlySpec

\* The gallery shows only approved texts when no edit overtakes a decision.
THEOREM ReviewedText == OrderlySpec => []PublishedIsApproved
<1>1. ReviewInv => PublishedIsApproved
  BY DEF ReviewInv
<1> QED
  BY <1>1, ReviewInvariant, PTL

\* is_public agrees with publication_status when a submission finds the prompt it read.
THEOREM FlagAgrees == OrderlySpec => []FlagFollowsStatus
<1>1. ReviewInv => FlagFollowsStatus
  BY DEF ReviewInv
<1> QED
  BY <1>1, ReviewInvariant, PTL

-----------------------------------------------------------------------------

\* The steps of a call inside a statement on prompt_reports.
Holding == {"report_commit", "discard_commit", "decide_commit"}

\* A report is locked by one statement at most, and is as that statement found it.
Locks ==
    /\ \A c \in Calls : req[c].step \notin Holding => req[c].reporters = {}
    /\ \A c \in Calls : At(c, "report_commit") =>
        req[c].reporters = {req[c].user} /\ reports[req[c].user] = "none"
    /\ \A c \in Calls : req[c].step \in {"discard_commit", "decide_commit"} =>
        req[c].reporters \subseteq Pending /\ req[c].reporters # {}
    /\ \A c, d \in Calls : \A u \in req[c].reporters \cap req[d].reporters : c = d

\* A step of a call that is in no statement on the reports before or after.
LEMMA LocksKept ==
  ASSUME TypeInv, Locks, UNCHANGED reports,
         \/ UNCHANGED req
         \/ \E c \in Calls : \E r : Enter(c, r) /\ r.step \notin Holding /\ r.reporters = {}
  PROVE  Locks'
<1>1. Pending' = Pending
  BY DEF Pending
<1>2. CASE UNCHANGED req
  BY <1>1, <1>2 DEF Locks, At
<1>3. ASSUME NEW c \in Calls, NEW r, Enter(c, r), r.step \notin Holding, r.reporters = {}
      PROVE  Locks'
  <2>1. \A d \in Calls : req'[d] = IF d = c THEN r ELSE req[d]
    BY <1>3 DEF Enter, TypeInv, TypeOK
  <2> QED
    BY <1>1, <1>3, <2>1 DEF Locks, At, Holding
<1> QED
  BY <1>2, <1>3

\* A statement locks reports no other statement has locked.
LEMMA LocksTaken ==
  ASSUME TypeInv, Locks, UNCHANGED reports, NEW c \in Calls, NEW r, Enter(c, r),
         r.step \in Holding, \A u \in r.reporters : Unlocked(u),
         r.step = "report_commit" => r.reporters = {r.user} /\ reports[r.user] = "none",
         r.step # "report_commit" => r.reporters \subseteq Pending /\ r.reporters # {}
  PROVE  Locks'
<1>1. Pending' = Pending
  BY DEF Pending
<1>2. \A d \in Calls : req'[d] = IF d = c THEN r ELSE req[d]
  BY DEF Enter, TypeInv, TypeOK
<1>3. \A d \in Calls : \A u \in r.reporters : u \notin req[d].reporters
  BY DEF Unlocked
<1>4. \A d, e \in Calls : \A u \in req'[d].reporters \cap req'[e].reporters : d = e
  BY <1>2, <1>3 DEF Locks
<1>5. \A d \in Calls : /\ req'[d].step \notin Holding => req'[d].reporters = {}
                       /\ req'[d].step = "report_commit" =>
                            /\ req'[d].reporters = {req'[d].user}
                            /\ reports'[req'[d].user] = "none"
                       /\ req'[d].step \in {"discard_commit", "decide_commit"} =>
                            req'[d].reporters \subseteq Pending' /\ req'[d].reporters # {}
  BY <1>1, <1>2 DEF Locks, At, Holding
<1> QED
  BY <1>4, <1>5 DEF Locks, At

\* A statement commits the reports it locked and no others.
LEMMA LocksReleased ==
  ASSUME TypeInv, Locks, NEW c \in Calls, NEW r, Enter(c, r), r.step \notin Holding,
         r.reporters = {}, \A u \in Users \ req[c].reporters : reports'[u] = reports[u]
  PROVE  Locks'
<1>1. \A d \in Calls : req'[d] = IF d = c THEN r ELSE req[d]
  BY DEF Enter, TypeInv, TypeOK
<1>2. \A d \in Calls : req[d].reporters \subseteq Users
  BY DEF TypeInv, TypeOK, Request
<1>3. ASSUME NEW d \in Calls, d # c PROVE \A u \in req[d].reporters : reports'[u] = reports[u]
  BY <1>2, <1>3 DEF Locks
<1>4. \A d, e \in Calls : \A u \in req'[d].reporters \cap req'[e].reporters : d = e
  BY <1>1 DEF Locks
<1>5. ASSUME NEW d \in Calls
      PROVE  /\ req'[d].step \notin Holding => req'[d].reporters = {}
             /\ req'[d].step = "report_commit" =>
                  req'[d].reporters = {req'[d].user} /\ reports'[req'[d].user] = "none"
             /\ req'[d].step \in {"discard_commit", "decide_commit"} =>
                  req'[d].reporters \subseteq Pending' /\ req'[d].reporters # {}
  <2>1. CASE d = c
    BY <1>1, <2>1 DEF Holding
  <2>2. CASE d # c
    BY <1>1, <1>2, <1>3, <2>2 DEF Locks, At, Pending
  <2> QED
    BY <2>1, <2>2
<1> QED
  BY <1>4, <1>5 DEF Locks, At

\* The calls that have nothing to do with the reports go on without a lock, and
\* leave the reports and their count alone.
LEMMA NoLock ==
  ASSUME TypeInv, Locks, NEW c \in Calls,
         \/ AuthorStep(c) \/ ReportRead(c)
         \/ DecideRead(c) \/ ApproveSnapshot(c) \/ Publish(c) \/ Deny(c)
         \/ ReassignRead(c) \/ Reassign(c)
  PROVE  /\ UNCHANGED <<reports, crashes>> /\ row'.reportCount = row.reportCount
         /\ req[c].step \notin ReportSteps
         /\ \E r : Enter(c, r) /\ r.step \notin ReportSteps /\ r.reporters = {}
<1> DEFINE Free(r) == r.step \notin ReportSteps /\ r.reporters = {}
<1>1. row \in Row /\ req[c] \in Request
  BY DEF TypeInv, TypeOK
<1>2. UNCHANGED <<reports, crashes>> /\ req[c].step \notin ReportSteps
  BY DEF AuthorStep, EditRead, EditSnapshot, Edit, SubmitRead, Submit, ReportRead, DecideRead,
    ApproveSnapshot, Publish, Deny, ReassignRead, Reassign, At, ReportSteps
<1>3. row'.reportCount = row.reportCount
  BY <1>1 DEF AuthorStep, EditRead, EditSnapshot, Edit, SubmitRead, Submit, ReportRead,
    DecideRead, ApproveSnapshot, Publish, Deny, ReassignRead, Reassign, Row
<1>4. CASE EditRead(c)
  <2>1. PICK text \in Contents, save \in Drafts :
          Enter(c, IF row.status \in Published
            THEN [Idle EXCEPT !.step = "edit_snapshot", !.text = text, !.content = row.content,
                              !.version = row.version, !.status = "aguardando"]
            ELSE [Idle EXCEPT !.step = "edit", !.text = text,
                              !.status = IF row.status \in Drafts THEN save ELSE "aguardando"])
    BY <1>4 DEF EditRead
  <2> DEFINE snap == [Idle EXCEPT !.step = "edit_snapshot", !.text = text,
                        !.content = row.content, !.version = row.version,
                        !.status = "aguardando"]
             edit == [Idle EXCEPT !.step = "edit", !.text = text,
                        !.status = IF row.status \in Drafts THEN save ELSE "aguardando"]
  <2>2. Free(snap) /\ Free(edit)
    BY DEF Idle, ReportSteps
  <2>3. Enter(c, snap) \/ Enter(c, edit)
    BY <2>1
  <2> HIDE DEF snap, edit
  <2> QED
    BY <1>2, <1>3, <2>2, <2>3
<1>5. CASE EditSnapshot(c)
  <2> DEFINE r == [Idle EXCEPT !.step = "edit", !.status = req[c].status, !.text = req[c].text]
  <2>1. Free(r) /\ Enter(c, r)
    BY <1>5 DEF EditSnapshot, Idle, ReportSteps
  <2> HIDE DEF r
  <2> QED
    BY <1>2, <1>3, <2>1
<1>6. CASE Edit(c) \/ Submit(c) \/ Publish(c) \/ Deny(c) \/ Reassign(c)
  <2>1. Free(Idle) /\ Enter(c, Idle)
    BY <1>6 DEF Edit, Submit, Publish, Deny, Reassign, Answer, Enter, Idle, ReportSteps
  <2> QED
    BY <1>2, <1>3, <2>1
<1>7. CASE SubmitRead(c) \/ DecideRead(c)
  <2>1. /\ Free([Idle EXCEPT !.step = "submit"]) /\ Free([Idle EXCEPT !.step = "deny"])
        /\ Free([Idle EXCEPT !.step = "snapshot", !.content = row.content,
                             !.version = row.version])
    BY DEF Idle, ReportSteps
  <2>2. \/ Enter(c, [Idle EXCEPT !.step = "submit"])
        \/ Enter(c, [Idle EXCEPT !.step = "deny"])
        \/ Enter(c, [Idle EXCEPT !.step = "snapshot", !.content = row.content,
                                 !.version = row.version])
    BY <1>7 DEF SubmitRead, DecideRead
  <2> QED
    BY <1>2, <1>3, <2>1, <2>2
<1>8. CASE ReportRead(c) \/ ReassignRead(c)
  <2>1. PICK u : \/ Enter(c, [Idle EXCEPT !.step = "report", !.user = u])
                 \/ Enter(c, [Idle EXCEPT !.step = "reassign", !.user = u])
    BY <1>8 DEF ReportRead, ReassignRead
  <2>2. /\ Free([Idle EXCEPT !.step = "report", !.user = u])
        /\ Free([Idle EXCEPT !.step = "reassign", !.user = u])
    BY DEF Idle, ReportSteps
  <2> QED
    BY <1>2, <1>3, <2>1, <2>2
<1>9. CASE ApproveSnapshot(c)
  <2> DEFINE r == [req[c] EXCEPT !.step = "publish"]
  <2>1. req[c].reporters = {}
    BY <1>9 DEF ApproveSnapshot, Locks, At, Holding
  <2>2. Free(r) /\ Free(Idle)
    BY <1>1, <2>1 DEF Request, Idle, ReportSteps
  <2>3. Enter(c, r) \/ Enter(c, Idle)
    BY <1>9 DEF ApproveSnapshot, Goto, Answer, Enter
  <2> HIDE DEF r
  <2> QED
    BY <1>2, <1>3, <2>2, <2>3
<1> QED
  BY <1>4, <1>5, <1>6, <1>7, <1>8, <1>9 DEF AuthorStep

\* So do the handlers of one statement.
LEMMA NoLockAlone ==
  ASSUME TypeInv, (\E u \in Users : UserStep(u)) \/ CurationArchive \/ AdminUpdate
  PROVE  UNCHANGED <<reports, req, crashes>> /\ row'.reportCount = row.reportCount
<1>1. row \in Row
  BY DEF TypeInv, TypeOK
<1>2. ASSUME NEW u \in Users, UserStep(u)
      PROVE  UNCHANGED <<reports, req, crashes>> /\ row'.reportCount = row.reportCount
  BY <1>1, <1>2 DEF UserStep, Create, Archive, MakePrivate, Restore, Withdraw, Deactivate,
    Reactivate, OnlyRow, Row
<1>3. CASE CurationArchive \/ AdminUpdate
  BY <1>1, <1>3 DEF CurationArchive, AdminUpdate, OnlyRow, Row
<1> QED
  BY <1>2, <1>3

\* What the calls on the reports go on with, and what they leave alone.
LEMMA ReportRequests ==
  ASSUME TypeInv, Locks, NEW c \in Calls
  PROVE  /\ RestorePublic(c) =>
              \E r : /\ Enter(c, r) /\ r.step = "discard" /\ r.reporters = {}
                     /\ At(c, "idle") /\ UNCHANGED <<reports, crashes>>
                     /\ row'.reportCount = 0
         /\ CountPending(c) =>
              \E r : /\ Enter(c, r) /\ r.step \in {"idle", "reopen"} /\ r.reporters = {}
                     /\ r.step = "reopen" => Pending = {}
                     /\ At(c, "count_pending") /\ UNCHANGED <<row, reports, crashes>>
         /\ Reopen(c) =>
              /\ Enter(c, Idle) /\ At(c, "reopen") /\ UNCHANGED <<reports, crashes>>
              /\ row'.reportCount \in {row.reportCount, 0}
<1>1. row \in Row /\ req[c] \in Request
  BY DEF TypeInv, TypeOK
<1>2. ASSUME RestorePublic(c)
      PROVE  \E r : /\ Enter(c, r) /\ r.step = "discard" /\ r.reporters = {}
                    /\ At(c, "idle") /\ UNCHANGED <<reports, crashes>>
                    /\ row'.reportCount = 0
  <2> DEFINE r == [Idle EXCEPT !.step = "discard"]
  <2>1. Enter(c, r) /\ r.step = "discard" /\ r.reporters = {}
    BY <1>2 DEF RestorePublic, Idle
  <2>2. At(c, "idle") /\ UNCHANGED <<reports, crashes>> /\ row'.reportCount = 0
    BY <1>1, <1>2 DEF RestorePublic, Row
  <2> QED
    BY <2>1, <2>2
<1>3. ASSUME CountPending(c)
      PROVE  \E r : /\ Enter(c, r) /\ r.step \in {"idle", "reopen"} /\ r.reporters = {}
                    /\ r.step = "reopen" => Pending = {}
                    /\ At(c, "count_pending") /\ UNCHANGED <<row, reports, crashes>>
  <2> DEFINE r == [req[c] EXCEPT !.step = "reopen"]
  <2>1. At(c, "count_pending") /\ UNCHANGED <<row, reports, crashes>>
    BY <1>3 DEF CountPending
  <2>2. r.step = "reopen" /\ r.reporters = {} /\ Idle.step = "idle" /\ Idle.reporters = {}
    BY <1>1, <2>1 DEF Request, Idle, Locks, At, Holding
  <2>3. (Enter(c, r) /\ Pending = {}) \/ Enter(c, Idle)
    BY <1>3 DEF CountPending, Goto, Answer, Enter
  <2> HIDE DEF r
  <2> QED
    BY <2>1, <2>2, <2>3
<1>4. ASSUME Reopen(c)
      PROVE  /\ Enter(c, Idle) /\ At(c, "reopen") /\ UNCHANGED <<reports, crashes>>
             /\ row'.reportCount \in {row.reportCount, 0}
  BY <1>1, <1>4 DEF Reopen, Answer, Enter, Row
<1> QED
  BY <1>2, <1>3, <1>4

\* The statements that lock reports, and what they counted.
LEMMA ReportLocks ==
  ASSUME TypeInv, Locks, NEW c \in Calls
  PROVE  /\ ReportInsert(c) =>
              \E r : /\ Enter(c, r) /\ UNCHANGED <<row, reports, crashes>>
                     /\ At(c, "report") /\ \A u \in r.reporters : Unlocked(u)
                     /\ \/ r = Idle
                        \/ /\ r.step = "report_commit" /\ r.reporters = {r.user}
                           /\ reports[r.user] = "none" /\ r.count = Cardinality(Pending) + 1
         /\ Discard(c) =>
              \E r : /\ Enter(c, r) /\ UNCHANGED <<row, reports, crashes>>
                     /\ At(c, "discard") /\ \A u \in r.reporters : Unlocked(u)
                     /\ \/ r = Idle /\ Pending = {}
                        \/ /\ r.step = "discard_commit" /\ r.reporters = Pending
                           /\ Pending # {} /\ r.count = 0
         /\ DecideReport(c) =>
              \E r : /\ Enter(c, r) /\ UNCHANGED <<row, reports, crashes>>
                     /\ At(c, "idle") /\ \A u \in r.reporters : Unlocked(u)
                     /\ r.step = "decide_commit" /\ r.reporters # {}
                     /\ r.reporters \subseteq Pending
                     /\ r.count = Cardinality(Pending \ r.reporters)
<1>1. ASSUME ReportInsert(c)
      PROVE  \E r : /\ Enter(c, r) /\ UNCHANGED <<row, reports, crashes>>
                    /\ At(c, "report") /\ \A u \in r.reporters : Unlocked(u)
                    /\ \/ r = Idle
                       \/ /\ r.step = "report_commit" /\ r.reporters = {r.user}
                          /\ reports[r.user] = "none" /\ r.count = Cardinality(Pending) + 1
  <2> DEFINE r == [req[c] EXCEPT !.step = "report_commit", !.reporters = {req[c].user},
                                 !.count = Cardinality(Pending) + 1]
  <2>1. /\ UNCHANGED <<row, reports, crashes>> /\ At(c, "report") /\ Unlocked(req[c].user)
        /\ Idle.reporters = {}
    BY <1>1 DEF ReportInsert, Idle
  <2>2. /\ r.step = "report_commit" /\ r.reporters = {r.user} /\ r.user = req[c].user
        /\ r.count = Cardinality(Pending) + 1
    BY DEF TypeInv, TypeOK, Request
  <2>3. (Enter(c, r) /\ reports[req[c].user] = "none") \/ Enter(c, Idle)
    BY <1>1 DEF ReportInsert, Answer, Enter
  <2> HIDE DEF r
  <2> QED
    BY <2>1, <2>2, <2>3
<1>2. ASSUME Discard(c)
      PROVE  \E r : /\ Enter(c, r) /\ UNCHANGED <<row, reports, crashes>>
                    /\ At(c, "discard") /\ \A u \in r.reporters : Unlocked(u)
                    /\ \/ r = Idle /\ Pending = {}
                       \/ /\ r.step = "discard_commit" /\ r.reporters = Pending
                          /\ Pending # {} /\ r.count = 0
  <2> DEFINE r == [Idle EXCEPT !.step = "discard_commit", !.reporters = Pending]
  <2>1. /\ UNCHANGED <<row, reports, crashes>> /\ At(c, "discard")
        /\ \A u \in Pending : Unlocked(u)
    BY <1>2 DEF Discard
  <2>2. /\ r.step = "discard_commit" /\ r.reporters = Pending /\ r.count = 0
        /\ Idle.reporters = {}
    BY DEF Idle
  <2>3. (Enter(c, r) /\ Pending # {}) \/ (Enter(c, Idle) /\ Pending = {})
    BY <1>2 DEF Discard, Answer, Enter
  <2> HIDE DEF r
  <2> QED
    BY <2>1, <2>2, <2>3
<1>3. ASSUME DecideReport(c)
      PROVE  \E r : /\ Enter(c, r) /\ UNCHANGED <<row, reports, crashes>>
                    /\ At(c, "idle") /\ \A u \in r.reporters : Unlocked(u)
                    /\ r.step = "decide_commit" /\ r.reporters # {}
                    /\ r.reporters \subseteq Pending
                    /\ r.count = Cardinality(Pending \ r.reporters)
  <2>1. PICK u \in Pending, status \in {"analisado", "descartado"} :
          /\ Unlocked(u)
          /\ Enter(c, [Idle EXCEPT !.step = "decide_commit", !.status = status,
                                   !.reporters = {u}, !.count = Cardinality(Pending \ {u})])
    BY <1>3 DEF DecideReport
  <2> DEFINE r == [Idle EXCEPT !.step = "decide_commit", !.status = status,
                               !.reporters = {u}, !.count = Cardinality(Pending \ {u})]
  <2>2. /\ r.step = "decide_commit" /\ r.reporters = {u}
        /\ r.count = Cardinality(Pending \ {u})
    BY DEF Idle
  <2>3. Enter(c, r) /\ UNCHANGED <<row, reports, crashes>> /\ At(c, "idle")
    BY <1>3, <2>1 DEF DecideReport
  <2> HIDE DEF r
  <2> QED
    BY <2>1, <2>2, <2>3
<1> QED
  BY <1>1, <1>2, <1>3

\* The statements that commit: the reports they locked get their new status, the
\* row the count of those that stay pending.
LEMMA ReportCommits ==
  ASSUME TypeInv, Locks, NEW c \in Calls,
         ReportCommit(c) \/ DiscardCommit(c) \/ DecideCommit(c)
  PROVE  /\ UNCHANGED crashes
         /\ \A u \in Users \ req[c].reporters : reports'[u] = reports[u]
         /\ \A u \in req[c].reporters : reports'[u] # reports[u]
         /\ \E r : Enter(c, r) /\ r.step \in {"idle", "count_pending"} /\ r.reporters = {}
         /\ ReportCommit(c) => /\ At(c, "report_commit") /\ row'.reportCount = req[c].count
                               /\ Pending' = Pending \cup req[c].reporters
         /\ DecideCommit(c) => /\ At(c, "decide_commit") /\ row'.reportCount = req[c].count
                               /\ Pending' = Pending \ req[c].reporters
         /\ DiscardCommit(c) =>
              /\ At(c, "discard_commit") /\ Pending' = Pending \ req[c].reporters
              /\ row'.reportCount \in {req[c].count, Cardinality(Pending \ req[c].reporters)}
<1>1. row \in Row /\ Sound(req[c]) /\ reports \in [Users -> ReportStatuses]
  BY DEF TypeInv, TypeOK
<1>2. \A n : Counted(n).reportCount = n
  BY <1>1 DEF Counted, Row
<1>3. req[c].reporters \subseteq Users
  BY <1>1 DEF Sound, Request
<1>4. Idle.step = "idle" /\ Idle.reporters = {}
  BY DEF Idle
<1>5. CASE ReportCommit(c)
  <2>1. /\ At(c, "report_commit") /\ reports' = [reports EXCEPT ![req[c].user] = "pendente"]
        /\ row'.reportCount = req[c].count /\ Enter(c, Idle) /\ UNCHANGED crashes
    BY <1>2, <1>5 DEF ReportCommit, Answer, Enter
  <2>2. req[c].reporters = {req[c].user} /\ reports[req[c].user] = "none"
    BY <2>1 DEF Locks
  <2>3. Pending' = Pending \cup req[c].reporters
    BY <1>1, <1>3, <2>1, <2>2 DEF Pending
  <2>4. /\ \A u \in Users \ req[c].reporters : reports'[u] = reports[u]
        /\ \A u \in req[c].reporters : reports'[u] # reports[u]
    BY <1>1, <1>3, <2>1, <2>2
  <2> QED
    BY <1>4, <2>1, <2>3, <2>4 DEF At, DecideCommit, DiscardCommit
<1>6. CASE DecideCommit(c)
  <2>1. /\ At(c, "decide_commit")
        /\ reports' = [u \in Users |-> IF u \in req[c].reporters THEN req[c].status
                                       ELSE reports[u]]
        /\ row'.reportCount = req[c].count /\ UNCHANGED crashes
    BY <1>2, <1>6 DEF DecideCommit
  <2>2. req[c].reporters \subseteq Pending /\ req[c].status \in {"analisado", "descartado"}
    BY <1>1, <2>1 DEF Locks, At, Sound
  <2>3. Pending' = Pending \ req[c].reporters
    BY <2>1, <2>2 DEF Pending
  <2>4. /\ \A u \in Users \ req[c].reporters : reports'[u] = reports[u]
        /\ \A u \in req[c].reporters : reports'[u] # reports[u]
    BY <1>3, <2>1, <2>2 DEF Pending
  <2> DEFINE r == [Idle EXCEPT !.step = "count_pending"]
  <2>5. r.step = "count_pending" /\ r.reporters = {}
    BY DEF Idle
  <2>6. Enter(c, r) \/ Enter(c, Idle)
    BY <1>6 DEF DecideCommit, Answer, Enter
  <2> HIDE DEF r
  <2> QED
    BY <1>4, <2>1, <2>3, <2>4, <2>5, <2>6 DEF At, ReportCommit, DiscardCommit
<1>7. CASE DiscardCommit(c)
  <2>1. /\ At(c, "discard_commit") /\ Enter(c, Idle) /\ UNCHANGED crashes
        /\ reports' = [u \in Users |-> IF u \in req[c].reporters THEN "descartado"
                                       ELSE reports[u]]
        /\ row'.reportCount \in {req[c].count, Cardinality(Pending \ req[c].reporters)}
    BY <1>2, <1>7 DEF DiscardCommit, Answer, Enter
  <2>2. req[c].reporters \subseteq Pending
    BY <2>1 DEF Locks, At
  <2>3. Pending' = Pending \ req[c].reporters
    BY <2>1, <2>2 DEF Pending
  <2>4. /\ \A u \in Users \ req[c].reporters : reports'[u] = reports[u]
        /\ \A u \in req[c].reporters : reports'[u] # reports[u]
    BY <1>3, <2>1, <2>2 DEF Pending
  <2> QED
    BY <1>4, <2>1, <2>3, <2>4 DEF At, ReportCommit, DecideCommit
<1> QED
  BY <1>5, <1>6, <1>7

LEMMA LocksStep ==
  ASSUME TypeInv, Locks, [Next]_vars
  PROVE  Locks'
<1>1. CASE UNCHANGED vars
  BY <1>1, LocksKept DEF vars
<1>2. CASE (\E u \in Users : UserStep(u)) \/ CurationArchive \/ AdminUpdate
  BY <1>2, NoLockAlone, LocksKept
<1>3. ASSUME NEW c \in Calls,
             \/ AuthorStep(c) \/ ReportRead(c)
             \/ DecideRead(c) \/ ApproveSnapshot(c) \/ Publish(c) \/ Deny(c)
             \/ ReassignRead(c) \/ Reassign(c)
      PROVE  Locks'
  <2>1. UNCHANGED reports /\ \E r : Enter(c, r) /\ r.step \notin Holding /\ r.reporters = {}
    BY <1>3, NoLock DEF ReportSteps, Holding
  <2> QED
    BY <2>1, LocksKept
<1>4. Idle.step \notin Holding /\ Idle.reporters = {}
  BY DEF Idle, Holding
<1>5. ASSUME NEW c \in Calls, RestorePublic(c) \/ CountPending(c) \/ Reopen(c) PROVE Locks'
  <2>1. UNCHANGED reports /\ \E r : Enter(c, r) /\ r.step \notin Holding /\ r.reporters = {}
    BY <1>4, <1>5, ReportRequests DEF Holding
  <2> QED
    BY <2>1, LocksKept
<1>6. ASSUME NEW c \in Calls, ReportInsert(c) \/ Discard(c) \/ DecideReport(c) PROVE Locks'
  <2>1. PICK r : /\ Enter(c, r) /\ UNCHANGED reports
                 /\ \A u \in r.reporters : Unlocked(u)
                 /\ \/ r = Idle
                    \/ /\ r.step = "report_commit" /\ r.reporters = {r.user}
                       /\ reports[r.user] = "none"
                    \/ /\ r.step \in {"discard_commit", "decide_commit"}
                       /\ r.reporters \subseteq Pending /\ r.reporters # {}
    <3>1. CASE ReportInsert(c)
      BY <3>1, ReportLocks
    <3>2. CASE Discard(c)
      BY <3>2, ReportLocks
    <3>3. CASE DecideReport(c)
      BY <3>3, ReportLocks
    <3> QED
      BY <1>6, <3>1, <3>2, <3>3
  <2>2. CASE r = Idle
    BY <1>4, <2>1, <2>2, LocksKept
  <2>3. CASE r # Idle
    BY <2>1, <2>3, LocksTaken DEF Holding
  <2> QED
    BY <2>2, <2>3
<1>7. ASSUME NEW c \in Calls, ReportCommit(c) \/ DiscardCommit(c) \/ DecideCommit(c)
      PROVE  Locks'
  <2>1. /\ \A u \in Users \ req[c].reporters : reports'[u] = reports[u]
        /\ \E r : Enter(c, r) /\ r.step \notin Holding /\ r.reporters = {}
    BY <1>7, ReportCommits DEF Holding
  <2> QED
    BY <2>1, LocksReleased
<1>8. ASSUME NEW c \in Calls, Crash(c) PROVE Locks'
  BY <1>4, <1>8, LocksKept DEF Crash, Answer, Enter
<1> QED
  BY <1>1, <1>2, <1>3, <1>5, <1>6, <1>7, <1>8 DEF Next, ReporterStep, CuratorStep

LEMMA LocksInvariant == Spec => []Locks
<1>1. Init => Locks
  BY DEF Init, Locks, Idle, At, Holding
<1> QED
  BY <1>1, LocksStep, TypeInvariant, PTL DEF Spec

\* A decided report stays decided: the statements that write reports lock them first,
\* and lock only what is pending or absent.
THEOREM DecidedOnce == Spec => ReportStaysDecided
<1>1. TypeInv /\ Locks /\ [Next]_vars
      => [\A u \in Users : reports[u] \in {"analisado", "descartado"}
                             => reports'[u] = reports[u]]_vars
  <2> SUFFICES ASSUME TypeInv, Locks, Next, NEW u \in Users,
                      reports[u] \in {"analisado", "descartado"}
               PROVE  reports'[u] = reports[u]
    OBVIOUS
  <2>1. ASSUME NEW c \in Calls, ReportCommit(c) \/ DiscardCommit(c) \/ DecideCommit(c)
        PROVE  reports'[u] = reports[u]
    <3>1. u \notin req[c].reporters
      BY <2>1 DEF ReportCommit, DiscardCommit, DecideCommit, Locks, At, Pending
    <3> QED
      BY <2>1, <3>1, ReportCommits
  <2>2. \/ UNCHANGED reports
        \/ \E c \in Calls : ReportCommit(c) \/ DiscardCommit(c) \/ DecideCommit(c)
    BY DEF Next, AuthorStep, EditRead, EditSnapshot, Edit, SubmitRead, Submit, ReporterStep,
      ReportRead, ReportInsert, CuratorStep, DecideRead, ApproveSnapshot, Publish, Deny,
      RestorePublic, Discard, ReassignRead, Reassign, DecideReport, CountPending, Reopen,
      Crash, UserStep, Create, Archive, MakePrivate, Restore, Withdraw, Deactivate,
      Reactivate, OnlyRow, CurationArchive, AdminUpdate
  <2> QED
    BY <2>1, <2>2
<1> QED
  BY <1>1, TypeInvariant, LocksInvariant, PTL DEF Spec, ReportStaysDecided

-----------------------------------------------------------------------------

\* The calls between a restoration and the end of its statement on the reports.
Restoring(c) == req[c].step \in {"discard", "discard_commit"}

\* What the statements under way counted is still what they should write, and the
\* row has the count of the pending reports unless a restoration just cleared it.
Counts ==
    /\ \A c \in Calls : Restoring(c) => row.reportCount = 0
    /\ (\A c \in Calls : ~Restoring(c)) => row.reportCount = Cardinality(Pending)
    /\ \A c \in Calls : At(c, "report_commit") => req[c].count = Cardinality(Pending) + 1
    /\ \A c \in Calls : At(c, "decide_commit") =>
        req[c].count = Cardinality(Pending \ req[c].reporters)
    /\ \A c \in Calls : At(c, "discard_commit") =>
        req[c].reporters = Pending /\ req[c].count = 0
    /\ \A c \in Calls : At(c, "reopen") => Pending = {}

CountInv == crashes = 0 => Counts

\* What a call that goes on, without a change of the reports, has counted.
Foreseen(r) ==
    /\ r.step = "report_commit" => r.count = Cardinality(Pending) + 1
    /\ r.step = "decide_commit" => r.count = Cardinality(Pending \ r.reporters)
    /\ r.step = "discard_commit" => r.reporters = Pending /\ r.count = 0
    /\ r.step = "reopen" => Pending = {}

\* A step that writes no report, by a call that is not restoring or goes on doing so.
LEMMA CountsKept ==
  ASSUME TypeInv, Counts, UNCHANGED reports, row'.reportCount = row.reportCount,
         \/ UNCHANGED req
         \/ \E c \in Calls : \E r :
             /\ Enter(c, r) /\ Foreseen(r)
             /\ r.step \in {"discard", "discard_commit"} => Restoring(c)
             /\ Restoring(c) => r.step \in {"discard", "discard_commit"} \/ Pending = {}
  PROVE  Counts'
<1>1. Pending' = Pending
  BY DEF Pending
<1>2. CASE UNCHANGED req
  BY <1>1, <1>2 DEF Counts, Restoring, At
<1>3. ASSUME NEW c \in Calls, NEW r, Enter(c, r), Foreseen(r),
             r.step \in {"discard", "discard_commit"} => Restoring(c),
             Restoring(c) => r.step \in {"discard", "discard_commit"} \/ Pending = {}
      PROVE  Counts'
  <2>1. \A d \in Calls : req'[d] = IF d = c THEN r ELSE req[d]
    BY <1>3 DEF Enter, TypeInv, TypeOK
  <2>2. \A d \in Calls : Restoring(d)' => Restoring(d)
    BY <1>3, <2>1 DEF Restoring
  <2>3. (\A d \in Calls : ~Restoring(d)') => row.reportCount = Cardinality(Pending)
    <3>1. CASE Restoring(c) /\ Pending = {}
      BY <3>1, FS_EmptySet DEF Counts
    <3>2. CASE ~(Restoring(c) /\ Pending = {})
      BY <1>3, <2>1, <3>2 DEF Counts, Restoring
    <3> QED
      BY <3>1, <3>2
  <2>4. \A d \in Calls :
          /\ At(d, "report_commit")' => req'[d].count = Cardinality(Pending) + 1
          /\ At(d, "decide_commit")' => req'[d].count = Cardinality(Pending \ req'[d].reporters)
          /\ At(d, "discard_commit")' => req'[d].reporters = Pending /\ req'[d].count = 0
          /\ At(d, "reopen")' => Pending = {}
    BY <1>3, <2>1 DEF Counts, Foreseen, At
  <2> QED
    BY <1>1, <2>2, <2>3, <2>4 DEF Counts
<1> QED
  BY <1>2, <1>3

\* A step that writes reports: the calls on the reports take turns, so no other
\* call has counted anything.
LEMMA CountsCommitted ==
  ASSUME TypeInv, Locks, Counts, Orderly, NEW c \in Calls,
         ReportCommit(c) \/ DiscardCommit(c) \/ DecideCommit(c)
  PROVE  Counts'
<1>1. PICK r : Enter(c, r) /\ r.step \in {"idle", "count_pending"}
  BY ReportCommits
<1>2. \A d \in Calls : req'[d] = IF d = c THEN r ELSE req[d]
  BY <1>1 DEF Enter, TypeInv, TypeOK
<1>3. req[c].reporters # {} /\ req[c].reporters \subseteq Users
  BY DEF ReportCommit, DiscardCommit, DecideCommit, Locks, At, TypeInv, TypeOK, Request
<1>4. reports' # reports
  <2> PICK u \in req[c].reporters : TRUE
    BY <1>3
  <2>1. reports'[u] # reports[u]
    BY ReportCommits
  <2> QED
    BY <2>1
<1>5. ASSUME NEW d \in Calls, d # c PROVE req[d].step \notin ReportSteps
  BY <1>2, <1>4, <1>5 DEF Orderly
<1>6. \A d \in Calls : req'[d].step \notin {"report_commit", "discard", "discard_commit",
                                            "decide_commit", "reopen"}
  BY <1>1, <1>2, <1>5 DEF ReportSteps
<1>7. row'.reportCount = Cardinality(Pending')
  <2>1. Pending \subseteq Users /\ IsFiniteSet(Pending)
    BY UsersAssumption, FS_Subset DEF Pending
  <2>2. CASE ReportCommit(c)
    <3>1. /\ At(c, "report_commit") /\ row'.reportCount = req[c].count
          /\ Pending' = Pending \cup req[c].reporters
      BY <2>2, ReportCommits
    <3>2. /\ req[c].reporters = {req[c].user} /\ req[c].user \notin Pending
          /\ req[c].count = Cardinality(Pending) + 1
      BY <3>1 DEF Locks, Counts, Pending
    <3>3. Cardinality(Pending \cup {req[c].user}) = Cardinality(Pending) + 1
      BY <2>1, <3>2, FS_AddElement
    <3> QED
      BY <3>1, <3>2, <3>3
  <2>3. CASE DecideCommit(c)
    BY <2>3, ReportCommits DEF Counts
  <2>4. CASE DiscardCommit(c)
    <3>1. /\ At(c, "discard_commit") /\ Pending' = Pending \ req[c].reporters
          /\ row'.reportCount \in {req[c].count, Cardinality(Pending \ req[c].reporters)}
      BY <2>4, ReportCommits
    <3>2. req[c].count = 0 /\ Pending \ req[c].reporters = {}
      BY <3>1 DEF Counts
    <3> QED
      BY <3>1, <3>2, FS_EmptySet
  <2> QED
    BY <2>2, <2>3, <2>4
<1> QED
  BY <1>6, <1>7 DEF Counts, Restoring, At

LEMMA CountStep ==
  ASSUME TypeInv, Locks, CountInv, [Next /\ Orderly]_vars
  PROVE  CountInv'
<1>1. CASE UNCHANGED vars
  BY <1>1 DEF vars, CountInv, Counts, Restoring, At, Pending
<1> SUFFICES ASSUME Next, Orderly PROVE CountInv'
  BY <1>1
<1>2. Foreseen(Idle) /\ Idle.step = "idle"
  BY DEF Foreseen, Idle
<1>3. ASSUME (\E u \in Users : UserStep(u)) \/ CurationArchive \/ AdminUpdate PROVE CountInv'
  BY <1>3, NoLockAlone, CountsKept DEF CountInv
<1>4. ASSUME NEW c \in Calls,
             \/ AuthorStep(c) \/ ReportRead(c)
             \/ DecideRead(c) \/ ApproveSnapshot(c) \/ Publish(c) \/ Deny(c)
             \/ ReassignRead(c) \/ Reassign(c)
      PROVE  CountInv'
  <2>1. /\ UNCHANGED <<reports, crashes>> /\ row'.reportCount = row.reportCount
        /\ req[c].step \notin ReportSteps
    BY <1>4, NoLock
  <2>2. PICK r : Enter(c, r) /\ r.step \notin ReportSteps
    BY <1>4, NoLock
  <2>3. Foreseen(r) /\ r.step \notin {"discard", "discard_commit"} /\ ~Restoring(c)
    BY <2>1, <2>2 DEF Foreseen, ReportSteps, Restoring
  <2> QED
    BY <2>1, <2>2, <2>3, CountsKept DEF CountInv
<1>5. ASSUME NEW c \in Calls, RestorePublic(c) PROVE CountInv'
  <2>1. PICK r : /\ Enter(c, r) /\ r.step = "discard" /\ r.reporters = {} /\ At(c, "idle")
                 /\ UNCHANGED <<reports, crashes>> /\ row'.reportCount = 0
    BY <1>5, ReportRequests
  <2>2. \A d \in Calls : req'[d] = IF d = c THEN r ELSE req[d]
    BY <2>1 DEF Enter, TypeInv, TypeOK
  <2>3. Pending' = Pending
    BY <2>1 DEF Pending
  <2>4. Restoring(c)'
    BY <2>1, <2>2 DEF Restoring
  <2>5. Counts => Counts'
    BY <2>1, <2>2, <2>3, <2>4 DEF Counts, At
  <2> QED
    BY <2>1, <2>5 DEF CountInv
<1>6. ASSUME NEW c \in Calls, CountPending(c) PROVE CountInv'
  <2>1. PICK r : /\ Enter(c, r) /\ r.step \in {"idle", "reopen"}
                 /\ r.step = "reopen" => Pending = {}
                 /\ At(c, "count_pending") /\ UNCHANGED <<row, reports, crashes>>
    BY <1>6, ReportRequests
  <2>2. Foreseen(r) /\ r.step \notin {"discard", "discard_commit"} /\ ~Restoring(c)
    BY <2>1 DEF Foreseen, Restoring, At
  <2> QED
    BY <2>1, <2>2, CountsKept DEF CountInv
<1>7. ASSUME NEW c \in Calls, Reopen(c) PROVE CountInv'
  <2>1. /\ Enter(c, Idle) /\ At(c, "reopen") /\ UNCHANGED <<reports, crashes>>
        /\ row'.reportCount \in {row.reportCount, 0}
    BY <1>7, ReportRequests
  <2>2. CASE row'.reportCount = row.reportCount
    BY <1>2, <2>1, <2>2, CountsKept DEF CountInv, Restoring, At
  <2>3. CASE row'.reportCount = 0
    <3>1. Pending' = Pending
      BY <2>1 DEF Pending
    <3>2. Counts => Pending = {} /\ Cardinality(Pending) = 0
      BY <2>1, FS_EmptySet DEF Counts
    <3>3. \A d \in Calls : req'[d] = IF d = c THEN Idle ELSE req[d]
      BY <2>1 DEF Enter, TypeInv, TypeOK
    <3>4. Counts => Counts'
      BY <1>2, <2>3, <3>1, <3>2, <3>3 DEF Counts, At, Restoring
    <3> QED
      BY <2>1, <3>4 DEF CountInv
  <2> QED
    BY <2>1, <2>2, <2>3
<1>8. ASSUME NEW c \in Calls, ReportInsert(c) \/ Discard(c) \/ DecideReport(c) PROVE CountInv'
  <2>1. PICK r : /\ Enter(c, r) /\ UNCHANGED <<row, reports, crashes>> /\ Foreseen(r)
                 /\ r.step \in {"discard", "discard_commit"} => Restoring(c)
                 /\ Restoring(c) => r.step \in {"discard", "discard_commit"} \/ Pending = {}
    <3>1. CASE ReportInsert(c)
      BY <1>2, <3>1, ReportLocks DEF Foreseen, Restoring, At
    <3>2. CASE Discard(c)
      BY <1>2, <3>2, ReportLocks DEF Foreseen, Restoring, At
    <3>3. CASE DecideReport(c)
      BY <3>3, ReportLocks DEF Foreseen, Restoring, At
    <3> QED
      BY <1>8, <3>1, <3>2, <3>3
  <2> QED
    BY <2>1, CountsKept DEF CountInv
<1>9. ASSUME NEW c \in Calls, ReportCommit(c) \/ DiscardCommit(c) \/ DecideCommit(c)
      PROVE  CountInv'
  BY <1>9, ReportCommits, CountsCommitted DEF CountInv
<1>10. ASSUME NEW c \in Calls, Crash(c) PROVE CountInv'
  <2>1. crashes \in Nat /\ crashes' = crashes + 1
    BY <1>10 DEF Crash, TypeInv, TypeOK
  <2> QED
    BY <2>1 DEF CountInv
<1> QED
  BY <1>3, <1>4, <1>5, <1>6, <1>7, <1>8, <1>9, <1>10 DEF Next, ReporterStep, CuratorStep

\* report_count is the number of pending reports whenever no call is under way and
\* none has died, for any numbers of users and calls, as long as the calls that
\* change the reports take turns.
THEOREM CountAgrees == OrderlySpec => []CountIsActive
<1>1. Init => CountInv
  <2>1. Init => Pending = {} /\ row.reportCount = 0
    BY DEF Init, Pending
  <2>2. Init => \A c \in Calls : req[c].step = "idle"
    BY DEF Init, Idle
  <2> QED
    BY <2>1, <2>2, FS_EmptySet DEF CountInv, Counts, Restoring, At
<1>2. OrderlySpec => Spec
  <2>1. [Next /\ Orderly]_vars => [Next]_vars
    OBVIOUS
  <2> QED
    BY <2>1, PTL DEF OrderlySpec, Spec
<1>3. CountInv => CountIsActive
  BY DEF CountInv, Counts, CountIsActive, Quiet, Restoring, At
<1> QED
  BY <1>1, <1>2, <1>3, CountStep, TypeInvariant, LocksInvariant, PTL DEF OrderlySpec
=============================================================================
