------------------------- MODULE IdeaCurationProofs --------------------------
(* What TLAPS proves of IdeaCuration, for any ideas, versions, texts and calls. *)
EXTENDS IdeaCuration, TLAPS

\* A row that curation and the roadmap keep whole, over the versions vers.
RowOK(row, vers) ==
    /\ row \in Row
    /\ row.status = "none" <=> row.text = NoText
    /\ row.status = "none" =>
        ~row.published /\ ~row.deleted /\ ~row.planned /\ row.version = NoVersion
    /\ row.status = "aguardando_curadoria" => ~row.published
    /\ row.status \in {"publicada", "exclusao_solicitada"} \/ row.planned => row.published
    /\ row.status \in Moderation => (row.planned <=> row.version # NoVersion)
    /\ row.status \in Moderation /\ row.version # NoVersion =>
        vers[row.version] \in {"active", "inactive"}

\* What a request says by itself.
Sound(r) ==
    /\ r \in Request
    /\ r.step \in {"write", "notify", "audit", "roadmap_version"} => r.idea \in Ideas
    /\ r.step \in {"version_count", "version_update", "version_deactivate", "version_drop"} =>
        r.idea = NoIdea
    /\ r.step \notin {"idle", "write", "notify", "audit"} => r.version \in Versions
    /\ r.step = "roadmap_version" => r.act = "roadmap"
    /\ r.step = "notify" => r.act \in Decisions
    /\ r.step = "audit" => r.act \in Decisions \cup {"request_deletion", "roadmap"}
    /\ r.step = "write" =>
        /\ r.act \in Decisions => r.status \in Decidable(r.act)
        /\ r.act \in {"edit", "erase"} => r.status = "aguardando_curadoria"
        /\ r.act = "request_deletion" => r.status = "publicada"
        /\ r.act \in {"edit", "approve"} => r.text \in Texts

\* What a request has seen of the tables, and stays true of them.
Fits(r, rows, vers) ==
    /\ r.idea # NoIdea => rows[r.idea].status # "none"
    /\ r.step \in {"write", "roadmap_version"}
       /\ r.act \in {"approve_deletion", "deny_deletion", "request_deletion", "roadmap"} =>
        rows[r.idea].published
    /\ r.step = "write" /\ r.act = "roadmap" /\ r.version # NoVersion =>
        vers[r.version] # "absent"

Inv ==
    /\ TypeOK
    /\ \A i \in Ideas : RowOK(idea[i], version)
    /\ \A c \in Calls : Sound(req[c]) /\ Fits(req[c], idea, version)

\* The tables only ever move so.
Grows ==
    /\ \A i \in Ideas : /\ idea[i].status # "none" => idea'[i].status # "none"
                        /\ idea[i].published => idea'[i].published
    /\ \A v \in Versions : version[v] # "absent" => version'[v] # "absent"

-----------------------------------------------------------------------------

LEMMA IdleSound == Sound(Idle) /\ \A rows, vers : Fits(Idle, rows, vers)
BY NullAssumption DEF Sound, Fits, Idle, Request, Steps, Acts, Statuses

\* A call that goes on with a sound request that fits leaves all calls so.
LEMMA CallGoesOn ==
  ASSUME Inv, Grows, NEW c \in Calls, NEW r, Enter(c, r), Sound(r), Fits(r, idea', version')
  PROVE  /\ req' \in [Calls -> Request]
         /\ \A d \in Calls : Sound(req'[d]) /\ Fits(req'[d], idea', version')
         /\ \A d \in Calls : req'[d].idea # NoIdea => idea'[req'[d].idea].status # "none"
<1>1. req \in [Calls -> Request] /\ \A d \in Calls : req[d] \in Request
  BY DEF Inv, TypeOK
<1>2. \A d \in Calls : req'[d] = IF d = c THEN r ELSE req[d]
  BY <1>1 DEF Enter
<1>3. req' \in [Calls -> Request]
  BY <1>1 DEF Enter, Sound
<1>4. ASSUME NEW d \in Calls, d # c PROVE Sound(req[d]) /\ Fits(req[d], idea', version')
  <2>1. Sound(req[d]) /\ Fits(req[d], idea, version) /\ req[d] \in Request
    BY <1>1 DEF Inv
  <2>2. req[d].idea \in Ideas \cup {NoIdea} /\ req[d].version \in Versions \cup {NoVersion}
    BY <2>1 DEF Request
  <2>3. req[d].step \in {"write", "roadmap_version"} => req[d].idea \in Ideas
    BY <2>1 DEF Sound
  <2> QED
    BY <2>1, <2>2, <2>3 DEF Fits, Grows
<1>5. \A d \in Calls : Sound(req'[d]) /\ Fits(req'[d], idea', version')
  BY <1>2, <1>4
<1> QED
  BY <1>3, <1>5 DEF Fits

LEMMA CallsStay ==
  ASSUME Inv, Grows, UNCHANGED req
  PROVE  /\ req' \in [Calls -> Request]
         /\ \A d \in Calls : Sound(req'[d]) /\ Fits(req'[d], idea', version')
         /\ \A d \in Calls : req'[d].idea # NoIdea => idea'[req'[d].idea].status # "none"
<1>1. ASSUME NEW d \in Calls PROVE Sound(req[d]) /\ Fits(req[d], idea', version')
  <2>1. Sound(req[d]) /\ Fits(req[d], idea, version) /\ req[d] \in Request
    BY DEF Inv, TypeOK
  <2>2. req[d].idea \in Ideas \cup {NoIdea} /\ req[d].version \in Versions \cup {NoVersion}
    BY <2>1 DEF Request
  <2>3. req[d].step \in {"write", "roadmap_version"} => req[d].idea \in Ideas
    BY <2>1 DEF Sound
  <2> QED
    BY <2>1, <2>2, <2>3 DEF Fits, Grows
<1> QED
  BY <1>1 DEF Inv, TypeOK, Fits

\* A step that leaves the rows of ideas and versions alone.
LEMMA OnlyCall ==
  ASSUME Inv, UNCHANGED <<idea, version, crashes, reviewed, overlapped>>,
         told' \in [Ideas -> SUBSET Decisions], audited' \in [Ideas -> SUBSET Acts],
         NEW c \in Calls, NEW r, Enter(c, r), Sound(r), Fits(r, idea, version)
  PROVE  Inv'
<1>1. Grows
  BY DEF Grows
<1>2. Fits(r, idea', version')
  OBVIOUS
<1> QED
  BY <1>1, <1>2, CallGoesOn DEF Inv, TypeOK, RowOK

-----------------------------------------------------------------------------
(* The reads *)

LEMMA ReadingSound ==
  ASSUME Inv, NEW i \in Ideas, idea[i].status # "none", NEW act \in Acts,
         act \in Decisions => idea[i].status \in Decidable(act),
         act = "erase" => idea[i].status = "aguardando_curadoria",
         act = "request_deletion" => idea[i].status = "publicada",
         act \notin {"edit", "roadmap"}
  PROVE  Sound(Reading(i, act)) /\ Fits(Reading(i, act), idea, version)
<1> DEFINE r == Reading(i, act)
<1>1. idea[i] \in Row /\ RowOK(idea[i], version) /\ idea[i].text \in Texts
  BY DEF Inv, TypeOK, Row
<1>2. /\ r.step = "write" /\ r.act = act /\ r.idea = i /\ r.status = idea[i].status
      /\ r.version = NoVersion /\ r.text = IF act = "approve" THEN idea[i].text ELSE NoText
  BY DEF Reading, Idle
<1>3. r \in Request
  BY <1>1 DEF Reading, Idle, Request, Steps, Row
<1> HIDE DEF r
<1>4. Sound(r)
  BY <1>1, <1>2, <1>3 DEF Sound
<1>5. act \in {"approve_deletion", "deny_deletion", "request_deletion"} => idea[i].published
  BY <1>1 DEF RowOK, Decidable, Decisions
<1>6. Fits(r, idea, version)
  BY <1>2, <1>5 DEF Fits
<1> QED
  BY <1>4, <1>6 DEF r

LEMMA ReadSteps ==
  ASSUME Inv, NEW c \in Calls,
         \/ EditRead(c) \/ EraseRead(c) \/ RequestDeletionRead(c) \/ DecideRead(c)
         \/ RoadmapRead(c) \/ RoadmapVersion(c) \/ VersionRead(c) \/ CountUsage(c)
  PROVE  Inv'
<1>1. UNCHANGED <<idea, version, told, audited, crashes, reviewed, overlapped>>
  BY DEF EditRead, EraseRead, RequestDeletionRead, DecideRead, RoadmapRead, RoadmapVersion,
    VersionRead, CountUsage, Seen, tables
<1>2. told' \in [Ideas -> SUBSET Decisions] /\ audited' \in [Ideas -> SUBSET Acts]
  BY <1>1 DEF Inv, TypeOK
<1> SUFFICES \E r : Enter(c, r) /\ Sound(r) /\ Fits(r, idea, version)
  BY <1>1, <1>2, OnlyCall
<1>3. req[c] \in Request /\ Sound(req[c]) /\ Fits(req[c], idea, version)
  BY DEF Inv, TypeOK
<1>4. CASE EditRead(c)
  <2>1. PICK i \in Ideas, text \in Texts :
          AuthorMayChange(i) /\ Enter(c, [Reading(i, "edit") EXCEPT !.text = text])
    BY <1>4 DEF EditRead
  <2> DEFINE r == [Reading(i, "edit") EXCEPT !.text = text]
  <2>2. r.step = "write" /\ r.act = "edit" /\ r.idea = i /\ r.text = text
        /\ r.status = "aguardando_curadoria" /\ r \in Request
    BY <2>1 DEF AuthorMayChange, Reading, Idle, Request, Steps, Acts, Statuses, Moderation
  <2>3. idea[i].status # "none"
    BY <2>1 DEF AuthorMayChange
  <2> HIDE DEF r
  <2>4. Sound(r) /\ Fits(r, idea, version)
    BY <2>2, <2>3 DEF Sound, Fits, Decisions
  <2> QED
    BY <2>1, <2>4 DEF r
<1>5. CASE EraseRead(c)
  <2>1. PICK i \in Ideas : AuthorMayChange(i) /\ Enter(c, Reading(i, "erase"))
    BY <1>5 DEF EraseRead
  <2> QED
    BY <2>1, ReadingSound DEF AuthorMayChange, Acts, Decisions
<1>6. CASE RequestDeletionRead(c)
  <2>1. PICK i \in Ideas :
          idea[i].status = "publicada" /\ Enter(c, Reading(i, "request_deletion"))
    BY <1>6 DEF RequestDeletionRead
  <2> QED
    BY <2>1, ReadingSound DEF Acts, Decisions
<1>7. CASE DecideRead(c)
  <2>1. PICK i \in Ideas, act \in Decisions :
          idea[i].status \in Decidable(act) /\ Enter(c, Reading(i, act))
    BY <1>7 DEF DecideRead
  <2> QED
    BY <2>1, ReadingSound DEF Decidable, Moderation, Acts, Decisions
<1>8. CASE RoadmapRead(c)
  <2>1. PICK i \in Ideas : /\ idea[i].status = "publicada"
                           /\ \/ Enter(c, Planning(i, "write", NoVersion))
                              \/ \E v \in Versions : Enter(c, Planning(i, "roadmap_version", v))
    BY <1>8 DEF RoadmapRead
  <2>2. idea[i].published
    BY <2>1 DEF Inv, RowOK
  <2>3. ASSUME NEW v \in Versions \cup {NoVersion}, NEW step \in {"write", "roadmap_version"},
               v = NoVersion <=> step = "write"
        PROVE  Sound(Planning(i, step, v)) /\ Fits(Planning(i, step, v), idea, version)
    <3> DEFINE r == Planning(i, step, v)
    <3>1. r.step = step /\ r.act = "roadmap" /\ r.idea = i /\ r.version = v /\ r \in Request
      BY DEF Planning, Idle, Request, Steps, Acts, Statuses
    <3> HIDE DEF r
    <3>2. Sound(r) /\ Fits(r, idea, version)
      BY <2>1, <2>2, <2>3, <3>1 DEF Sound, Fits, Decisions
    <3> QED
      BY <3>2 DEF r
  <2> QED
    BY <2>1, <2>3, NullAssumption
<1>9. CASE RoadmapVersion(c)
  <2>1. At(c, "roadmap_version")
    BY <1>9 DEF RoadmapVersion
  <2> DEFINE r == [req[c] EXCEPT !.step = "write"]
  <2>2. r \in Request /\ r.step = "write" /\ r.act = req[c].act /\ r.idea = req[c].idea
        /\ r.version = req[c].version
    BY <1>3 DEF Request, Steps
  <2> HIDE DEF r
  <2>3. CASE version[req[c].version] = "active"
    <3>1. Enter(c, r)
      BY <1>9, <2>3 DEF RoadmapVersion, Goto, Enter, r
    <3>2. Sound(r) /\ Fits(r, idea, version)
      BY <1>3, <2>1, <2>2, <2>3 DEF Sound, Fits, At, Decisions
    <3> QED
      BY <3>1, <3>2
  <2>4. CASE version[req[c].version] # "active"
    BY <1>9, <2>4, IdleSound DEF RoadmapVersion, Answer, Enter
  <2> QED
    BY <2>3, <2>4
<1>10. CASE VersionRead(c)
  <2>1. PICK v \in Versions, step \in {"version_update", "version_count"} :
          Enter(c, OnVersion(v, step))
    BY <1>10 DEF VersionRead
  <2> DEFINE r == OnVersion(v, step)
  <2>2. r \in Request /\ r.step = step /\ r.idea = NoIdea /\ r.version = v
    BY DEF OnVersion, Idle, Request, Steps, Acts, Statuses
  <2> HIDE DEF r
  <2>3. Sound(r) /\ Fits(r, idea, version)
    BY <2>2 DEF Sound, Fits
  <2> QED
    BY <2>1, <2>3 DEF r
<1>11. CASE CountUsage(c)
  <2>1. PICK step \in {"version_deactivate", "version_drop"} : Goto(c, step)
    BY <1>11 DEF CountUsage
  <2> DEFINE r == [req[c] EXCEPT !.step = step]
  <2>2. r \in Request /\ r.step = step /\ r.idea = req[c].idea /\ r.version = req[c].version
    BY <1>3 DEF Request, Steps
  <2>3. Enter(c, r) /\ At(c, "version_count")
    BY <1>11, <2>1 DEF CountUsage, Goto, Enter
  <2> HIDE DEF r
  <2>4. Sound(r) /\ Fits(r, idea, version)
    BY <1>3, <2>2, <2>3 DEF Sound, Fits, At
  <2> QED
    BY <2>3, <2>4
<1> QED
  BY <1>4, <1>5, <1>6, <1>7, <1>8, <1>9, <1>10, <1>11

-----------------------------------------------------------------------------
(* The writes *)

\* The row of an idea, with the types of its fields.
LEMMA RowTyped ==
  ASSUME Inv, NEW i \in Ideas
  PROVE  /\ idea[i] \in Row /\ RowOK(idea[i], version)
         /\ Exists(i) => idea[i].text \in Texts
BY NullAssumption DEF Inv, TypeOK, Row, RowOK, Exists, Moderation

\* A statement that writes a sound row over an idea that exists.
LEMMA WriteKeeps ==
  ASSUME Inv, NEW c \in Calls, NEW i \in Ideas, NEW row, req[c].idea = i, Write(c, row),
         UNCHANGED version,
         Exists(i) => /\ RowOK(row, version) /\ row.status # "none"
                      /\ idea[i].published => row.published
  PROVE  /\ Grows
         /\ idea' \in [Ideas -> Row] /\ overlapped' \subseteq Ideas
         /\ \A j \in Ideas : RowOK(idea'[j], version')
<1>1. \A j \in Ideas : idea'[j] = IF j = i /\ Exists(i) THEN row ELSE idea[j]
  BY DEF Write, Inv, TypeOK
<1>2. \A j \in Ideas : RowOK(idea'[j], version')
  BY <1>1 DEF Inv
<1>3. idea' \in [Ideas -> Row]
  BY <1>1 DEF Write, Inv, TypeOK, RowOK
<1>4. overlapped' \subseteq Ideas
  BY DEF Write, Inv, TypeOK
<1>5. Grows
  BY <1>1 DEF Grows
<1> QED
  BY <1>2, <1>3, <1>4, <1>5

\* The row a decision writes is sound: a denial is of an idea that was published.
LEMMA DecidedRow ==
  ASSUME Inv, NEW c \in Calls, NEW act \in Decisions, Doing(c, act)
  PROVE  LET i   == req[c].idea
             row == Decided(act, idea[i])
         IN Exists(i) => /\ RowOK(row, version) /\ row.status # "none"
                         /\ idea[i].published => row.published
<1> DEFINE i == req[c].idea
<1>1. i \in Ideas /\ Fits(req[c], idea, version)
  BY DEF Inv, Sound, Doing, At
<1> SUFFICES ASSUME Exists(i)
             PROVE  /\ RowOK(Decided(act, idea[i]), version)
                    /\ Decided(act, idea[i]).status # "none"
                    /\ idea[i].published => Decided(act, idea[i]).published
  OBVIOUS
<1>2. idea[i] \in Row /\ RowOK(idea[i], version) /\ idea[i].text \in Texts
      /\ idea[i].status \in Moderation
  BY <1>1, RowTyped DEF Exists
<1>3. act = "deny_deletion" => idea[i].published
  BY <1>1 DEF Fits, Doing, At
<1> HIDE DEF i
<1>4. CASE act = "approve"
  <2> DEFINE row == [idea[i] EXCEPT !.status = "publicada", !.published = TRUE, !.deleted = FALSE]
  <2>1. Decided(act, idea[i]) = row
    BY <1>4 DEF Decided
  <2>2. row \in Row /\ row.status = "publicada" /\ row.published /\ ~row.deleted
        /\ row.planned = idea[i].planned /\ row.version = idea[i].version
        /\ row.text = idea[i].text
    BY <1>2 DEF Row, Statuses, Moderation
  <2> HIDE DEF row
  <2> QED
    BY <1>2, <2>1, <2>2, NullAssumption DEF RowOK, Moderation
<1>5. CASE act = "reject"
  <2> DEFINE row == [idea[i] EXCEPT !.status = "rejeitada"]
  <2>1. Decided(act, idea[i]) = row
    BY <1>5 DEF Decided
  <2>2. row \in Row /\ row.status = "rejeitada" /\ row.published = idea[i].published
        /\ row.planned = idea[i].planned /\ row.version = idea[i].version
        /\ row.text = idea[i].text
    BY <1>2 DEF Row, Statuses, Moderation
  <2> HIDE DEF row
  <2> QED
    BY <1>2, <2>1, <2>2, NullAssumption DEF RowOK, Moderation
<1>6. CASE act = "deny_deletion"
  <2> DEFINE row == [idea[i] EXCEPT !.status = "publicada"]
  <2>1. Decided(act, idea[i]) = row
    BY <1>6 DEF Decided
  <2>2. row \in Row /\ row.status = "publicada" /\ row.published = idea[i].published
        /\ row.planned = idea[i].planned /\ row.version = idea[i].version
        /\ row.text = idea[i].text
    BY <1>2 DEF Row, Statuses, Moderation
  <2> HIDE DEF row
  <2> QED
    BY <1>2, <1>3, <1>6, <2>1, <2>2, NullAssumption DEF RowOK, Moderation
<1>7. CASE act \in {"remove", "approve_deletion"}
  <2> DEFINE row == [idea[i] EXCEPT !.status = "excluida", !.deleted = TRUE]
  <2>1. Decided(act, idea[i]) = row
    BY <1>7 DEF Decided
  <2>2. row \in Row /\ row.status = "excluida" /\ row.published = idea[i].published
        /\ row.planned = idea[i].planned /\ row.version = idea[i].version
        /\ row.text = idea[i].text
    BY <1>2 DEF Row, Statuses, Moderation
  <2> HIDE DEF row
  <2> QED
    BY <1>2, <2>1, <2>2, NullAssumption DEF RowOK, Moderation
<1> QED
  BY <1>4, <1>5, <1>6, <1>7 DEF Decisions

\* What a call does after its write is sound.
LEMMA ProceedSound ==
  ASSUME Inv, Grows, NEW c \in Calls, NEW step \in {"notify", "audit"}, req[c].idea \in Ideas,
         step = "notify" => req[c].act \in Decisions,
         req[c].act \in Decisions \cup {"request_deletion", "roadmap"}
  PROVE  LET r == [Idle EXCEPT !.step = step, !.act = req[c].act, !.idea = req[c].idea]
         IN Sound(r) /\ Fits(r, idea', version')
<1> DEFINE r == [Idle EXCEPT !.step = step, !.act = req[c].act, !.idea = req[c].idea]
<1>1. r.step = step /\ r.act = req[c].act /\ r.idea = req[c].idea /\ r \in Request
  BY DEF Idle, Request, Steps, Statuses, Acts
<1>2. idea'[req[c].idea].status # "none"
  BY NullAssumption DEF Inv, TypeOK, Grows
<1> HIDE DEF r
<1>3. Sound(r) /\ Fits(r, idea', version')
  BY <1>1, <1>2 DEF Sound, Fits
<1> QED
  BY <1>3 DEF r

LEMMA WriteSteps ==
  ASSUME Inv, NEW c \in Calls, Edit(c) \/ Erase(c) \/ RequestDeletion(c) \/ Decide(c)
  PROVE  Inv' /\ Grows
<1> DEFINE i == req[c].idea
<1>1. Sound(req[c]) /\ req[c] \in Request /\ At(c, "write")
  BY DEF Inv, TypeOK, Edit, Erase, RequestDeletion, Decide, Doing
<1>2. i \in Ideas
  BY <1>1 DEF Sound, At
<1>3. Exists(i) => idea[i] \in Row /\ RowOK(idea[i], version) /\ idea[i].text \in Texts
                   /\ idea[i].status \in Moderation
  BY <1>2, RowTyped DEF Exists
<1>4. UNCHANGED <<version, told, audited, crashes>> /\ reviewed' \in [Ideas -> SUBSET Texts]
  BY <1>1 DEF Edit, Erase, RequestDeletion, Decide, Inv, TypeOK, Sound, At, Doing
<1>5. PICK row, r :
        /\ Write(c, row) /\ Enter(c, r)
        /\ Exists(i) => /\ RowOK(row, version) /\ row.status # "none"
                        /\ idea[i].published => row.published
        /\ Grows => Sound(r) /\ Fits(r, idea', version')
  <2>1. CASE Edit(c)
    <3> DEFINE row == [idea[i] EXCEPT !.text = req[c].text]
    <3>1. Write(c, row) /\ Enter(c, Idle)
      BY <2>1 DEF Edit, Answer, Enter
    <3>2. req[c].text \in Texts
      BY <1>1, <2>1 DEF Edit, Doing, Sound, At
    <3>3. Exists(i) => /\ row \in Row /\ row.status = idea[i].status /\ row.text \in Texts
                       /\ row.published = idea[i].published /\ row.planned = idea[i].planned
                       /\ row.version = idea[i].version
      BY <1>3, <3>2 DEF Row
    <3> HIDE DEF row
    <3>4. Exists(i) => RowOK(row, version) /\ row.status # "none"
      BY <1>3, <3>3, NullAssumption DEF RowOK, Moderation
    <3> QED
      BY <3>1, <3>3, <3>4, IdleSound
  <2>2. CASE Erase(c)
    <3> DEFINE row == [idea[i] EXCEPT !.status = "erased"]
    <3>1. Write(c, row) /\ Enter(c, Idle)
      BY <2>2 DEF Erase, Answer, Enter
    <3>2. Exists(i) => /\ row \in Row /\ row.status = "erased" /\ row.text = idea[i].text
                       /\ row.published = idea[i].published /\ row.planned = idea[i].planned
      BY <1>3 DEF Row, Statuses
    <3> HIDE DEF row
    <3>3. Exists(i) => RowOK(row, version) /\ row.status # "none"
      BY <1>3, <3>2, NullAssumption DEF RowOK, Moderation
    <3> QED
      BY <3>1, <3>2, <3>3, IdleSound
  <2>3. CASE RequestDeletion(c)
    <3> DEFINE row == [idea[i] EXCEPT !.status = "exclusao_solicitada"]
               r   == [Idle EXCEPT !.step = "audit", !.act = req[c].act, !.idea = i]
    <3>1. Write(c, row) /\ Enter(c, r)
      BY <2>3 DEF RequestDeletion, Proceed, Enter
    <3>2. Exists(i) => /\ row \in Row /\ row.status = "exclusao_solicitada"
                       /\ row.text = idea[i].text /\ row.version = idea[i].version
                       /\ row.published = idea[i].published /\ row.planned = idea[i].planned
      BY <1>3 DEF Row, Statuses, Moderation
    <3>3. idea[i].published /\ req[c].act = "request_deletion"
      BY <2>3 DEF RequestDeletion, Doing, At, Inv, Fits
    <3> HIDE DEF row
    <3>4. Exists(i) => RowOK(row, version) /\ row.status # "none"
      BY <1>3, <3>2, <3>3, NullAssumption DEF RowOK, Moderation
    <3>5. Grows => Sound(r) /\ Fits(r, idea', version')
      BY <1>2, <3>3, ProceedSound
    <3> HIDE DEF r
    <3> QED
      BY <3>1, <3>2, <3>4, <3>5
  <2>4. CASE Decide(c)
    <3> DEFINE act == req[c].act
               row == Decided(act, idea[i])
               r   == [Idle EXCEPT !.step = "notify", !.act = act, !.idea = i]
    <3>1. Write(c, row) /\ Enter(c, r)
      BY <2>4 DEF Decide, Proceed, Enter
    <3>2. act \in Decisions /\ Doing(c, act)
      BY <2>4 DEF Decide, Doing
    <3>3. Exists(i) => /\ RowOK(row, version) /\ row.status # "none"
                       /\ idea[i].published => row.published
      BY <3>2, DecidedRow
    <3>4. Grows => Sound(r) /\ Fits(r, idea', version')
      BY <1>2, <3>2, ProceedSound
    <3> HIDE DEF row, r
    <3> QED
      BY <3>1, <3>3, <3>4
  <2> QED
    BY <2>1, <2>2, <2>3, <2>4
<1>6. /\ Grows /\ idea' \in [Ideas -> Row] /\ overlapped' \subseteq Ideas
      /\ \A j \in Ideas : RowOK(idea'[j], version')
  BY <1>2, <1>4, <1>5, WriteKeeps
<1>7. /\ req' \in [Calls -> Request]
      /\ \A d \in Calls : Sound(req'[d]) /\ Fits(req'[d], idea', version')
      /\ \A d \in Calls : req'[d].idea # NoIdea => idea'[req'[d].idea].status # "none"
  BY <1>5, <1>6, CallGoesOn
<1>8. \A j \in Ideas : idea'[j].status = "none" <=> idea'[j].text = NoText
  BY <1>6 DEF RowOK
<1> QED
  BY <1>4, <1>6, <1>7, <1>8 DEF Inv, TypeOK

-----------------------------------------------------------------------------
(* Versions and the rest *)

\* A step on the rows of ideas and versions that moves c on with r, or no call.
LEMMA TablesWritten ==
  ASSUME Inv, Grows, idea' \in [Ideas -> Row],
         version' \in [Versions -> {"absent", "active", "inactive", "dropped"}],
         \A i \in Ideas : RowOK(idea'[i], version'),
         UNCHANGED <<told, audited, crashes, reviewed, overlapped>>,
         \/ UNCHANGED req
         \/ \E c \in Calls : \E r : Enter(c, r) /\ Sound(r) /\ Fits(r, idea', version')
  PROVE  Inv'
<1>1. /\ req' \in [Calls -> Request]
      /\ \A d \in Calls : Sound(req'[d]) /\ Fits(req'[d], idea', version')
      /\ \A d \in Calls : req'[d].idea # NoIdea => idea'[req'[d].idea].status # "none"
  BY CallGoesOn, CallsStay
<1>2. \A i \in Ideas : idea'[i].status = "none" <=> idea'[i].text = NoText
  BY DEF RowOK
<1> QED
  BY <1>1, <1>2 DEF Inv, TypeOK

LEMMA CreateStep ==
  ASSUME Inv, NEW i \in Ideas, Create(i)
  PROVE  Inv' /\ Grows
<1>1. PICK text \in Texts :
        idea' = [idea EXCEPT ![i].status = "aguardando_curadoria", ![i].text = text]
  BY DEF Create
<1>2. idea[i] \in Row /\ RowOK(idea[i], version) /\ idea[i].status = "none"
  BY RowTyped DEF Create
<1> DEFINE row == [idea[i] EXCEPT !.status = "aguardando_curadoria", !.text = text]
<1>3. \A j \in Ideas : idea'[j] = IF j = i THEN row ELSE idea[j]
  BY <1>1 DEF Inv, TypeOK
<1>4. /\ row \in Row /\ row.status = "aguardando_curadoria" /\ row.text = text
      /\ row.published = idea[i].published /\ row.planned = idea[i].planned
      /\ row.version = idea[i].version
  BY <1>2 DEF Row, Statuses, Moderation
<1>5. idea' = [idea EXCEPT ![i] = row]
  BY <1>1 DEF Inv, TypeOK
<1> HIDE DEF row
<1>6. RowOK(row, version)
  BY <1>2, <1>4, NullAssumption DEF RowOK
<1>7. Grows /\ idea' \in [Ideas -> Row] /\ \A j \in Ideas : RowOK(idea'[j], version)
  BY <1>2, <1>3, <1>4, <1>5, <1>6 DEF Grows, Inv, TypeOK, RowOK, Create
<1> QED
  BY <1>7, TablesWritten DEF Create, Inv, TypeOK

LEMMA TrailSteps ==
  ASSUME Inv, NEW c \in Calls, Notify(c) \/ Audit(c)
  PROVE  Inv'
<1>1. Sound(req[c]) /\ Fits(req[c], idea, version) /\ req[c] \in Request
  BY DEF Inv, TypeOK
<1>2. CASE Notify(c)
  <2>1. At(c, "notify") /\ req[c].act \in Decisions /\ req[c].idea \in Ideas
    BY <1>1, <1>2 DEF Notify, Sound, At
  <2> DEFINE r == [Idle EXCEPT !.step = "audit", !.act = req[c].act, !.idea = req[c].idea]
  <2>2. Enter(c, r) /\ UNCHANGED <<idea, version, audited, crashes, reviewed, overlapped>>
    BY <1>2 DEF Notify, Proceed
  <2>3. told' \in [Ideas -> SUBSET Decisions] /\ audited' \in [Ideas -> SUBSET Acts]
    BY <1>2, <2>1 DEF Notify, Inv, TypeOK
  <2>4. Grows
    BY <2>2 DEF Grows
  <2>5. Sound(r) /\ Fits(r, idea, version)
    BY <2>1, <2>2, <2>4, ProceedSound
  <2> HIDE DEF r
  <2> QED
    BY <2>2, <2>3, <2>5, OnlyCall
<1>3. CASE Audit(c)
  <2>1. Enter(c, Idle) /\ UNCHANGED <<idea, version, told, crashes, reviewed, overlapped>>
    BY <1>3 DEF Audit, Answer, Enter
  <2>2. told' \in [Ideas -> SUBSET Decisions] /\ audited' \in [Ideas -> SUBSET Acts]
    BY <1>1, <1>3 DEF Audit, Inv, TypeOK, Request
  <2> QED
    BY <2>1, <2>2, IdleSound, OnlyCall
<1> QED
  BY <1>2, <1>3

LEMMA RoadmapSteps ==
  ASSUME Inv, NEW c \in Calls, Roadmap(c)
  PROVE  Inv' /\ Grows
<1> DEFINE i == req[c].idea
           v == req[c].version
<1>1. /\ Sound(req[c]) /\ Fits(req[c], idea, version) /\ req[c] \in Request
      /\ req[c].step = "write" /\ req[c].act = "roadmap"
  BY DEF Inv, TypeOK, Roadmap, Doing, At
<1>2. i \in Ideas /\ v \in Versions \cup {NoVersion} /\ idea[i].published
      /\ (v # NoVersion => version[v] # "absent")
  BY <1>1 DEF Sound, Request, Fits
<1>3. UNCHANGED <<version, told, audited, crashes, reviewed, overlapped>>
  BY DEF Roadmap
<1>4. CASE UNCHANGED idea /\ Answer(c)
  <2>1. Grows
    BY <1>3, <1>4 DEF Grows
  <2> QED
    BY <1>3, <1>4, <2>1, IdleSound, OnlyCall DEF Answer, Enter, Inv, TypeOK
<1>5. CASE ~(Exists(i) /\ v # NoVersion /\ version[v] = "dropped")
  <2> DEFINE row == [idea[i] EXCEPT !.planned = (v # NoVersion), !.version = v]
             r   == [Idle EXCEPT !.step = "audit", !.act = req[c].act, !.idea = i]
  <2>1. /\ idea' = [idea EXCEPT ![i] = IF Exists(i) THEN row ELSE @]
        /\ Enter(c, r)
    BY <1>5 DEF Roadmap, Proceed
  <2>2. idea[i] \in Row /\ RowOK(idea[i], version)
    BY <1>2, RowTyped
  <2>3. /\ row \in Row /\ row.status = idea[i].status /\ row.text = idea[i].text
        /\ row.published = idea[i].published /\ row.deleted = idea[i].deleted
        /\ row.version = v
    BY <1>2, <2>2 DEF Row
  <2>4. row.planned <=> v # NoVersion
    BY <2>2 DEF Row
  <2> HIDE DEF row
  <2>5. v \in Versions => version[v] \in {"absent", "active", "inactive", "dropped"}
    BY DEF Inv, TypeOK
  <2>6. Exists(i) => RowOK(row, version) /\ row.status # "none"
    BY <1>2, <1>5, <2>2, <2>3, <2>4, <2>5 DEF RowOK, Exists, Moderation
  <2>7. \A j \in Ideas : idea'[j] = IF j = i /\ Exists(i) THEN row ELSE idea[j]
    BY <2>1 DEF Inv, TypeOK
  <2>8. Grows /\ idea' \in [Ideas -> Row] /\ \A j \in Ideas : RowOK(idea'[j], version)
    BY <1>3, <2>1, <2>3, <2>6, <2>7 DEF Grows, Inv, TypeOK
  <2>9. Sound(r) /\ Fits(r, idea', version')
    BY <1>1, <1>2, <2>8, ProceedSound
  <2> HIDE DEF r
  <2> QED
    BY <1>3, <2>1, <2>8, <2>9, TablesWritten DEF Inv, TypeOK
<1> QED
  BY <1>4, <1>5 DEF Roadmap

\* A statement on one version that keeps it listed if it was, or lists a new one.
LEMMA VersionSteps ==
  ASSUME Inv,
         \/ \E v \in Versions : CreateVersion(v)
         \/ \E c \in Calls : UpdateVersion(c) \/ DeactivateVersion(c)
  PROVE  Inv' /\ Grows
<1>1. /\ UNCHANGED <<idea, told, audited, crashes, reviewed, overlapped>>
      /\ \/ UNCHANGED req
         \/ \E c \in Calls : Enter(c, Idle)
  BY DEF CreateVersion, UpdateVersion, DeactivateVersion, OnlyVersion, Answer, Enter
<1>2. /\ version' \in [Versions -> {"absent", "active", "inactive", "dropped"}]
      /\ \A v \in Versions : /\ Listed(v) => version'[v] \in {"active", "inactive"}
                             /\ version[v] # "absent" => version'[v] # "absent"
  <2>1. ASSUME NEW v \in Versions, CreateVersion(v) PROVE <1>2
    BY <2>1 DEF CreateVersion, Listed, Inv, TypeOK
  <2>2. ASSUME NEW c \in Calls, UpdateVersion(c) \/ DeactivateVersion(c) PROVE <1>2
    <3>1. req[c].version \in Versions
      BY <2>2 DEF UpdateVersion, DeactivateVersion, At, Inv, Sound
    <3> QED
      BY <2>2, <3>1 DEF UpdateVersion, DeactivateVersion, Listed, Inv, TypeOK
  <2> QED
    BY <2>1, <2>2
<1>3. Grows
  BY <1>1, <1>2 DEF Grows
<1>4. \A i \in Ideas : RowOK(idea'[i], version')
  <2> SUFFICES ASSUME NEW i \in Ideas PROVE RowOK(idea[i], version')
    BY <1>1
  <2>1. idea[i] \in Row /\ RowOK(idea[i], version)
    BY RowTyped
  <2>2. idea[i].version \in Versions \cup {NoVersion}
    BY <2>1 DEF Row
  <2> QED
    BY <1>2, <2>1, <2>2 DEF RowOK, Listed
<1>5. idea' \in [Ideas -> Row]
  BY <1>1 DEF Inv, TypeOK
<1> QED
  BY <1>1, <1>2, <1>3, <1>4, <1>5, IdleSound, TablesWritten

\* A version goes only when no idea is planned for it.
LEMMA DropStep ==
  ASSUME Inv, NEW c \in Calls, DropVersion(c)
  PROVE  Inv' /\ Grows
<1> DEFINE v      == req[c].version
           linked == {i \in Ideas : Exists(i) /\ idea[i].version = v}
<1>1. v \in Versions /\ Enter(c, Idle) /\ UNCHANGED <<told, audited, crashes, reviewed, overlapped>>
  BY DEF DropVersion, At, Inv, Sound, Answer, Enter
<1>2. \A i \in linked : idea[i].planned
  BY <1>1, NullAssumption DEF Inv, RowOK, Exists
<1>3. CASE linked # {}
  <2>1. UNCHANGED <<version, idea>>
    BY <1>2, <1>3 DEF DropVersion
  <2>2. Grows
    BY <2>1 DEF Grows
  <2> QED
    BY <1>1, <2>1, <2>2, IdleSound, OnlyCall DEF Inv, TypeOK
<1>4. CASE linked = {}
  <2>1. version' = [version EXCEPT ![v] = "dropped"] /\ \A i \in Ideas : idea'[i] = idea[i]
    BY <1>4 DEF DropVersion
  <2>2. idea' \in [Ideas -> Row]
    BY <1>4 DEF DropVersion, Inv, TypeOK
  <2>3. version' \in [Versions -> {"absent", "active", "inactive", "dropped"}]
    BY <2>1 DEF Inv, TypeOK
  <2>4. Grows
    BY <2>1 DEF Grows, Inv, TypeOK
  <2>5. ASSUME NEW i \in Ideas PROVE RowOK(idea[i], version')
    <3>1. idea[i] \in Row /\ RowOK(idea[i], version)
      BY RowTyped
    <3>2. idea[i].status \in Moderation => idea[i].version # v
      BY <1>4 DEF Exists
    <3> QED
      BY <2>1, <3>1, <3>2 DEF RowOK, Row, Inv, TypeOK
  <2>6. \A i \in Ideas : RowOK(idea'[i], version')
    BY <2>1, <2>5
  <2> QED
    BY <1>1, <2>2, <2>3, <2>4, <2>6, IdleSound, TablesWritten
<1> QED
  BY <1>3, <1>4

LEMMA CrashStep ==
  ASSUME Inv, NEW c \in Calls, Crash(c)
  PROVE  Inv'
<1>1. /\ Enter(c, Idle) /\ crashes' \in Nat
      /\ UNCHANGED <<idea, version, told, audited, reviewed, overlapped>>
  BY DEF Crash, Answer, Enter, tables, Inv, TypeOK
<1>2. Grows
  BY <1>1 DEF Grows
<1>3. /\ req' \in [Calls -> Request]
      /\ \A d \in Calls : Sound(req'[d]) /\ Fits(req'[d], idea', version')
      /\ \A d \in Calls : req'[d].idea # NoIdea => idea'[req'[d].idea].status # "none"
  BY <1>1, <1>2, IdleSound, CallGoesOn
<1> QED
  BY <1>1, <1>3 DEF Inv, TypeOK

LEMMA InvariantStep ==
  ASSUME Inv, [Next]_vars
  PROVE  Inv'
<1>1. CASE UNCHANGED vars
  BY <1>1 DEF vars, tables, Inv, TypeOK, RowOK, Fits
<1> QED
  BY <1>1, ReadSteps, WriteSteps, CreateStep, TrailSteps, RoadmapSteps, VersionSteps,
    DropStep, CrashStep
  DEF Next, AuthorStep, CuratorStep, RoadmapStep

LEMMA Invariant == Spec => []Inv
<1>1. Init => Inv
  <2> SUFFICES ASSUME Init PROVE Inv
    OBVIOUS
  <2>1. TypeOK
    BY NullAssumption DEF Init, TypeOK, Row, Statuses, Idle, Request, Steps, Acts
  <2>2. \A i \in Ideas : RowOK(idea[i], version)
    BY <2>1 DEF Init, RowOK, TypeOK, Moderation
  <2>3. \A c \in Calls : Sound(req[c]) /\ Fits(req[c], idea, version)
    BY IdleSound DEF Init
  <2> QED
    BY <2>1, <2>2, <2>3 DEF Inv
<1> QED
  BY <1>1, InvariantStep, PTL DEF Spec

\* Every variable keeps its type, and every call names an idea that was created.
THEOREM TypeCorrect == Spec => []TypeOK
<1>1. Inv => TypeOK
  BY DEF Inv
<1> QED
  BY <1>1, Invariant, PTL

\* What is public, may be again or is on the roadmap has its publication date.
THEOREM PublicationsDated == Spec => []PublishedHasDate
<1>1. Inv => PublishedHasDate
  BY DEF Inv, RowOK, PublishedHasDate
<1> QED
  BY <1>1, Invariant, PTL

\* A roadmap status always has a version, and one that is there.
THEOREM RoadmapWhole == Spec => []RoadmapIsWhole
<1>1. Inv => RoadmapIsWhole
  <2> SUFFICES ASSUME Inv, NEW i \in Ideas, Exists(i)
               PROVE  /\ idea[i].planned <=> idea[i].version # NoVersion
                      /\ idea[i].version # NoVersion => Listed(idea[i].version)
    BY DEF RoadmapIsWhole
  <2> QED
    BY DEF Inv, RowOK, Exists, Listed
<1> QED
  BY <1>1, Invariant, PTL

-----------------------------------------------------------------------------
(* What a write does to the status of an idea *)

LEMMA WrittenRow ==
  ASSUME Inv, NEW c \in Calls, Edit(c) \/ Erase(c) \/ RequestDeletion(c) \/ Decide(c)
  PROVE  \E row :
           /\ Write(c, row)
           /\ Exists(req[c].idea) =>
               /\ row.status \in Moderation \cup {"erased"}
               /\ row.published /\ ~idea[req[c].idea].published =>
                    row.status = "publicada" /\ ~row.deleted
               /\ req[c].status = "excluida" => row.status = "excluida"
               /\ \/ row.status = idea[req[c].idea].status /\ Edit(c)
                  \/ row.status = "erased"
                  \/ req[c].act \in ActsOf(row.status)
<1> DEFINE i == req[c].idea
<1>1. Sound(req[c]) /\ req[c].step = "write" /\ i \in Ideas /\ idea[i] \in Row
  BY DEF Inv, TypeOK, Sound, Edit, Erase, RequestDeletion, Decide, Doing, At
<1>2. CASE Edit(c)
  <2> DEFINE row == [idea[i] EXCEPT !.text = req[c].text]
  <2>1. /\ row.status = idea[i].status /\ row.published = idea[i].published
    BY <1>1 DEF Row
  <2>2. Write(c, row) /\ req[c].status # "excluida"
    BY <1>1, <1>2 DEF Edit, Doing, Sound
  <2> HIDE DEF row
  <2> QED
    BY <1>2, <2>1, <2>2 DEF Exists
<1>3. CASE Erase(c)
  <2> DEFINE row == [idea[i] EXCEPT !.status = "erased"]
  <2>1. /\ row.status = "erased" /\ row.published = idea[i].published
    BY <1>1 DEF Row
  <2>2. Write(c, row) /\ req[c].status # "excluida"
    BY <1>1, <1>3 DEF Erase, Doing, Sound
  <2> HIDE DEF row
  <2> QED
    BY <2>1, <2>2
<1>4. CASE RequestDeletion(c)
  <2> DEFINE row == [idea[i] EXCEPT !.status = "exclusao_solicitada"]
  <2>1. /\ row.status = "exclusao_solicitada" /\ row.published = idea[i].published
    BY <1>1 DEF Row
  <2>2. Write(c, row) /\ req[c].status # "excluida" /\ req[c].act = "request_deletion"
    BY <1>1, <1>4 DEF RequestDeletion, Doing, Sound
  <2> HIDE DEF row
  <2> QED
    BY <2>1, <2>2 DEF ActsOf, Moderation
<1>5. CASE Decide(c)
  <2> DEFINE row == Decided(req[c].act, idea[i])
  <2>1. Write(c, row) /\ req[c].act \in Decisions /\ req[c].status \in Decidable(req[c].act)
    BY <1>1, <1>5 DEF Decide, Doing, Sound
  <2>2. CASE req[c].act = "approve"
    <3>1. row.status = "publicada" /\ ~row.deleted
      BY <1>1, <2>2 DEF Decided, Row
    <3>2. req[c].status # "excluida"
      BY <2>1, <2>2 DEF Decidable
    <3> HIDE DEF row
    <3> QED
      BY <2>1, <2>2, <3>1, <3>2 DEF ActsOf, Moderation
  <2>3. CASE req[c].act = "reject"
    <3>1. row.status = "rejeitada" /\ row.published = idea[i].published
      BY <1>1, <2>3 DEF Decided, Row
    <3>2. req[c].status # "excluida"
      BY <2>1, <2>3 DEF Decidable
    <3> HIDE DEF row
    <3> QED
      BY <2>1, <2>3, <3>1, <3>2 DEF ActsOf, Moderation
  <2>4. CASE req[c].act = "deny_deletion"
    <3>1. row.status = "publicada" /\ row.published = idea[i].published
      BY <1>1, <2>4 DEF Decided, Row
    <3>2. req[c].status # "excluida"
      BY <2>1, <2>4 DEF Decidable
    <3> HIDE DEF row
    <3> QED
      BY <2>1, <2>4, <3>1, <3>2 DEF ActsOf, Moderation
  <2>5. CASE req[c].act \in {"remove", "approve_deletion"}
    <3>1. row.status = "excluida" /\ row.published = idea[i].published
      BY <1>1, <2>5 DEF Decided, Row
    <3> HIDE DEF row
    <3> QED
      BY <2>1, <2>5, <3>1 DEF ActsOf, Moderation
  <2> QED
    BY <2>1, <2>2, <2>3, <2>4, <2>5 DEF Decisions
<1> QED
  BY <1>2, <1>3, <1>4, <1>5

LEMMA RoadmapKeeps ==
  ASSUME Inv, NEW c \in Calls, Roadmap(c), NEW j \in Ideas
  PROVE  /\ idea'[j].status = idea[j].status /\ idea'[j].deleted = idea[j].deleted
         /\ idea'[j].published = idea[j].published /\ idea'[j].text = idea[j].text
<1> DEFINE i   == req[c].idea
           v   == req[c].version
           row == [idea[i] EXCEPT !.planned = (v # NoVersion), !.version = v]
<1>1. idea' = idea \/ idea' = [idea EXCEPT ![i] = IF Exists(i) THEN row ELSE @]
  BY DEF Roadmap
<1>2. idea \in [Ideas -> Row] /\ idea[j] \in Row
  BY DEF Inv, TypeOK
<1>3. j = i => /\ row.status = idea[j].status /\ row.deleted = idea[j].deleted
               /\ row.published = idea[j].published /\ row.text = idea[j].text
  BY <1>2 DEF Row
<1> HIDE DEF row
<1>4. (idea'[j] = idea[j]) \/ (j = i /\ idea'[j] = row)
  <2>1. CASE idea' = idea
    BY <2>1
  <2>2. CASE idea' = [idea EXCEPT ![i] = IF Exists(i) THEN row ELSE @]
    BY <1>2, <2>2
  <2> QED
    BY <1>1, <2>1, <2>2
<1>5. CASE idea'[j] = idea[j]
  BY <1>5
<1>6. CASE j = i /\ idea'[j] = row
  BY <1>3, <1>6
<1> QED
  BY <1>4, <1>5, <1>6

-----------------------------------------------------------------------------
(* Ideas no call has written over unread *)

\* The steps that change no row of ideas.
LEMMA RowsStay ==
  ASSUME Inv, NEW c \in Calls,
         \/ EditRead(c) \/ EraseRead(c) \/ RequestDeletionRead(c) \/ DecideRead(c)
         \/ RoadmapRead(c) \/ RoadmapVersion(c) \/ VersionRead(c) \/ CountUsage(c)
         \/ Notify(c) \/ Audit(c) \/ UpdateVersion(c) \/ DeactivateVersion(c)
         \/ DropVersion(c) \/ Crash(c)
  PROVE  (\A i \in Ideas : idea'[i] = idea[i]) /\ UNCHANGED <<reviewed, overlapped>>
<1>1. CASE DropVersion(c)
  <2> DEFINE v == req[c].version
  <2>1. v \in Versions
    BY <1>1 DEF DropVersion, At, Inv, Sound
  <2>2. \A i \in Ideas : Exists(i) /\ idea[i].version = v => idea[i].planned
    BY <2>1, NullAssumption DEF Inv, RowOK, Exists
  <2> QED
    BY <1>1, <2>2 DEF DropVersion
<1>2. CASE ~DropVersion(c)
  BY <1>2 DEF EditRead, EraseRead, RequestDeletionRead, DecideRead, RoadmapRead, RoadmapVersion,
    VersionRead, CountUsage, Notify, Audit, UpdateVersion, DeactivateVersion, Crash, Seen,
    OnlyVersion, tables
<1> QED
  BY <1>1, <1>2

\* A write changes one row, and finds in it what its call read unless it is marked.
LEMMA WriteOver ==
  ASSUME Inv, NEW c \in Calls, NEW i \in Ideas, NEW row, req[c].idea = i, Write(c, row)
  PROVE  /\ \A j \in Ideas : idea'[j] = IF j = i /\ Exists(i) THEN row ELSE idea[j]
         /\ overlapped \subseteq overlapped'
         /\ Exists(i) /\ i \notin overlapped' =>
             /\ idea[i].status = req[c].status
             /\ req[c].act = "approve" => idea[i].text = req[c].text
BY DEF Write, Inv, TypeOK

LEMMA UndisturbedStep ==
  ASSUME Inv, UndisturbedIsCoherent, [Next]_vars
  PROVE  UndisturbedIsCoherent'
<1> DEFINE Good(i, row, texts) ==
             /\ row.status \in Moderation => (row.deleted <=> row.status = "excluida")
             /\ row.status = "erased" => ~row.published
             /\ row.published => row.text \in texts
<1>1. \A i \in Ideas : i \notin overlapped => Good(i, idea[i], reviewed[i])
  BY DEF UndisturbedIsCoherent, Exists
<1> SUFFICES \A i \in Ideas : i \notin overlapped' => Good(i, idea'[i], reviewed'[i])
  BY DEF UndisturbedIsCoherent, Exists
<1> HIDE DEF Good
<1>2. ASSUME \A i \in Ideas : idea'[i] = idea[i], UNCHANGED <<reviewed, overlapped>>
      PROVE  \A i \in Ideas : i \notin overlapped' => Good(i, idea'[i], reviewed'[i])
  BY <1>1, <1>2
<1>3. ASSUME NEW i \in Ideas, Create(i)
      PROVE  \A j \in Ideas : j \notin overlapped' => Good(j, idea'[j], reviewed'[j])
  <2>1. PICK text \in Texts :
          idea' = [idea EXCEPT ![i].status = "aguardando_curadoria", ![i].text = text]
    BY <1>3 DEF Create
  <2>2. idea[i] \in Row /\ RowOK(idea[i], version) /\ idea[i].status = "none"
    BY <1>3, RowTyped DEF Create
  <2>3. \A j \in Ideas : j # i => idea'[j] = idea[j]
    BY <2>1 DEF Inv, TypeOK
  <2>4. /\ idea'[i].status = "aguardando_curadoria" /\ idea'[i].deleted = idea[i].deleted
        /\ idea'[i].published = idea[i].published
    BY <2>1, <2>2 DEF Inv, TypeOK, Row
  <2>5. Good(i, idea'[i], reviewed'[i])
    BY <2>2, <2>4 DEF Good, RowOK
  <2> QED
    BY <1>1, <1>3, <2>3, <2>5 DEF Create
<1>4. ASSUME NEW c \in Calls, Roadmap(c)
      PROVE  \A j \in Ideas : j \notin overlapped' => Good(j, idea'[j], reviewed'[j])
  <2>1. ASSUME NEW j \in Ideas
        PROVE  /\ idea'[j].status = idea[j].status /\ idea'[j].deleted = idea[j].deleted
               /\ idea'[j].published = idea[j].published /\ idea'[j].text = idea[j].text
    BY <1>4, RoadmapKeeps
  <2> QED
    BY <1>1, <1>4, <2>1 DEF Roadmap, Good
<1>5. ASSUME NEW c \in Calls, Edit(c) \/ Erase(c) \/ RequestDeletion(c) \/ Decide(c),
             NEW j \in Ideas, j \notin overlapped'
      PROVE  Good(j, idea'[j], reviewed'[j])
  <2> DEFINE i == req[c].idea
  <2>1. Sound(req[c]) /\ Fits(req[c], idea, version) /\ req[c].step = "write" /\ i \in Ideas
    BY <1>5 DEF Inv, Sound, Edit, Erase, RequestDeletion, Decide, Doing, At
  <2>2. PICK row :
          /\ Write(c, row)
          /\ \/ Edit(c) /\ row = [idea[i] EXCEPT !.text = req[c].text]
             \/ Erase(c) /\ row = [idea[i] EXCEPT !.status = "erased"]
             \/ RequestDeletion(c) /\ row = [idea[i] EXCEPT !.status = "exclusao_solicitada"]
             \/ Decide(c) /\ row = Decided(req[c].act, idea[i])
    BY <1>5 DEF Edit, Erase, RequestDeletion, Decide
  <2>3. /\ idea'[j] = IF j = i /\ Exists(i) THEN row ELSE idea[j]
        /\ j \notin overlapped
        /\ j = i /\ Exists(i) =>
            /\ idea[i].status = req[c].status
            /\ req[c].act = "approve" => idea[i].text = req[c].text
    BY <1>5, <2>1, <2>2, WriteOver
  <2>4. reviewed[j] \subseteq reviewed'[j]
    BY <1>5, <2>1 DEF Edit, Erase, RequestDeletion, Decide, Inv, TypeOK
  <2>5. CASE ~(j = i /\ Exists(i))
    BY <1>1, <2>3, <2>4, <2>5 DEF Good
  <2>6. CASE j = i /\ Exists(i)
    <3>1. /\ idea[i] \in Row /\ RowOK(idea[i], version) /\ Good(i, idea[i], reviewed[i])
          /\ idea[i].status \in Moderation /\ idea[i].status = req[c].status
      BY <1>1, <2>1, <2>3, <2>6, RowTyped DEF Exists
    <3>2. CASE Edit(c) /\ row = [idea[i] EXCEPT !.text = req[c].text]
      <4>1. idea[i].status = "aguardando_curadoria"
        BY <2>1, <3>1, <3>2 DEF Edit, Doing, Sound
      <4>2. row.status = idea[i].status /\ row.deleted = idea[i].deleted
            /\ row.published = idea[i].published
        BY <3>1, <3>2 DEF Row
      <4> QED
        BY <2>3, <2>6, <3>1, <4>1, <4>2 DEF Good, RowOK
    <3>3. CASE Erase(c) /\ row = [idea[i] EXCEPT !.status = "erased"]
      <4>1. idea[i].status = "aguardando_curadoria"
        BY <2>1, <3>1, <3>3 DEF Erase, Doing, Sound
      <4>2. row.status = "erased" /\ row.published = idea[i].published
        BY <3>1, <3>3 DEF Row
      <4> QED
        BY <2>3, <2>6, <3>1, <4>1, <4>2 DEF Good, RowOK, Moderation
    <3>4. CASE RequestDeletion(c) /\ row = [idea[i] EXCEPT !.status = "exclusao_solicitada"]
      <4>1. idea[i].status = "publicada"
        BY <2>1, <3>1, <3>4 DEF RequestDeletion, Doing, Sound
      <4>2. row.status = "exclusao_solicitada" /\ row.published = idea[i].published
            /\ row.deleted = idea[i].deleted /\ row.text = idea[i].text
        BY <3>1, <3>4 DEF Row
      <4> QED
        BY <2>3, <2>4, <2>6, <3>1, <4>1, <4>2 DEF Good, Moderation
    <3>5. CASE Decide(c) /\ row = Decided(req[c].act, idea[i])
      <4>1. req[c].act \in Decisions /\ idea[i].status \in Decidable(req[c].act)
        BY <2>1, <3>1, <3>5 DEF Decide, Doing, Sound
      <4>2. CASE req[c].act = "approve"
        <5>1. row.status = "publicada" /\ ~row.deleted /\ row.text = req[c].text
          BY <2>3, <2>6, <3>1, <3>5, <4>2 DEF Decided, Row
        <5>2. req[c].text \in reviewed'[i]
          BY <2>1, <3>5, <4>2 DEF Decide, Inv, TypeOK
        <5> QED
          BY <2>3, <2>6, <5>1, <5>2 DEF Good
      <4>3. CASE req[c].act = "reject"
        <5>1. row.status = "rejeitada" /\ row.published = idea[i].published
              /\ row.deleted = idea[i].deleted /\ row.text = idea[i].text
          BY <3>1, <3>5, <4>3 DEF Decided, Row
        <5>2. idea[i].status # "excluida"
          BY <4>1, <4>3 DEF Decidable
        <5> QED
          BY <2>3, <2>4, <2>6, <3>1, <5>1, <5>2 DEF Good
      <4>4. CASE req[c].act = "deny_deletion"
        <5>1. row.status = "publicada" /\ row.published = idea[i].published
              /\ row.deleted = idea[i].deleted /\ row.text = idea[i].text
          BY <3>1, <3>5, <4>4 DEF Decided, Row
        <5>2. idea[i].status = "exclusao_solicitada"
          BY <4>1, <4>4 DEF Decidable
        <5> QED
          BY <2>3, <2>4, <2>6, <3>1, <5>1, <5>2 DEF Good
      <4>5. CASE req[c].act \in {"remove", "approve_deletion"}
        <5>1. row.status = "excluida" /\ row.published = idea[i].published
              /\ row.deleted /\ row.text = idea[i].text
          BY <3>1, <3>5, <4>5 DEF Decided, Row
        <5> QED
          BY <2>3, <2>4, <2>6, <3>1, <5>1 DEF Good
      <4> QED
        BY <4>1, <4>2, <4>3, <4>4, <4>5 DEF Decisions
    <3> QED
      BY <2>2, <3>2, <3>3, <3>4, <3>5
  <2> QED
    BY <2>5, <2>6
<1>6. ASSUME NEW v \in Versions, CreateVersion(v)
      PROVE  (\A i \in Ideas : idea'[i] = idea[i]) /\ UNCHANGED <<reviewed, overlapped>>
  BY <1>6 DEF CreateVersion, OnlyVersion
<1>7. CASE UNCHANGED vars
  BY <1>2, <1>7 DEF vars, tables
<1> QED
  BY <1>2, <1>3, <1>4, <1>5, <1>6, <1>7, RowsStay DEF Next, AuthorStep, CuratorStep, RoadmapStep

\* An idea on which every write found what its call had read is visible exactly when
\* it is published, was never erased after being published, and shows a text an
\* approval has read.
THEOREM UndisturbedCoherent == Spec => []UndisturbedIsCoherent
<1>1. Init => UndisturbedIsCoherent
  <2> SUFFICES ASSUME Init, NEW i \in Ideas PROVE idea[i].status = "none" /\ ~idea[i].published
    BY DEF UndisturbedIsCoherent, Exists, Moderation
  <2>1. idea[i] = [status |-> "none", text |-> NoText, published |-> FALSE,
                   deleted |-> FALSE, planned |-> FALSE, version |-> NoVersion]
    BY DEF Init
  <2> QED
    BY <2>1
<1> QED
  BY <1>1, UndisturbedStep, Invariant, PTL DEF Spec
LEMMA ExcludedStep ==
  ASSUME Inv, [Next]_vars, NEW i \in Ideas, idea[i].status = "excluida", i \notin overlapped'
  PROVE  idea'[i].status = "excluida"
<1>1. ASSUME NEW j \in Ideas, Create(j) PROVE idea'[i] = idea[i]
  BY <1>1 DEF Create, Inv, TypeOK
<1>2. ASSUME NEW c \in Calls, Roadmap(c) PROVE idea'[i].status = "excluida"
  BY <1>2, RoadmapKeeps
<1>3. ASSUME NEW c \in Calls, Edit(c) \/ Erase(c) \/ RequestDeletion(c) \/ Decide(c)
      PROVE  idea'[i].status = "excluida"
  <2>1. req[c].idea \in Ideas
    BY <1>3 DEF Inv, Sound, Edit, Erase, RequestDeletion, Decide, Doing, At
  <2>2. PICK row : /\ Write(c, row)
                   /\ Exists(req[c].idea) /\ req[c].status = "excluida" => row.status = "excluida"
    BY <1>3, WrittenRow
  <2> QED
    BY <2>1, <2>2, WriteOver
<1>4. ASSUME NEW v \in Versions, CreateVersion(v) PROVE idea'[i] = idea[i]
  BY <1>4 DEF CreateVersion, OnlyVersion
<1>5. CASE UNCHANGED vars
  BY <1>5 DEF vars, tables
<1> QED
  BY <1>1, <1>2, <1>3, <1>4, <1>5, RowsStay DEF Next, AuthorStep, CuratorStep, RoadmapStep

\* "Ideia excluida nao pode ser publicada": an excluded idea stays excluded unless a
\* call writes over what it had not read.
THEOREM ExclusionFinal == Spec => ExcludedIsFinal
<1>1. Inv /\ [Next]_vars =>
        [\A i \in Ideas : idea[i].status = "excluida" /\ i \notin overlapped' =>
            idea'[i].status = "excluida"]_vars
  BY ExcludedStep
<1> QED
  BY <1>1, Invariant, PTL DEF Spec, ExcludedIsFinal

-----------------------------------------------------------------------------
(* Curation implements the life of ideas *)

Phases == [i \in Ideas |-> Phase(i)]
Shown  == {i \in Ideas : idea[i].published}

\* A row of an existing idea that moves, and is published only by being shown, is a
\* step of the life of ideas.
LEMMA RowMove ==
  ASSUME Inv, Inv', Grows, NEW i \in Ideas, Exists(i),
         idea'[i].status \in Moderation \cup {"erased"},
         idea'[i].published /\ ~idea[i].published =>
            idea'[i].status = "publicada" /\ ~idea'[i].deleted,
         \A j \in Ideas : j # i => idea'[j] = idea[j]
  PROVE  Life!Next \/ UNCHANGED <<Phases, Shown>>
<1>1. \A j \in Ideas : j # i => Phase(j)' = Phase(j)
  BY DEF Phase
<1>2. Phases' = [Phases EXCEPT ![i] = Phase(i)']
  BY <1>1 DEF Phases
<1>3. Phase(i) \in {"public", "hidden"} /\ Phase(i)' \in {"public", "hidden", "gone"}
  BY DEF Phase, Exists, Moderation
<1>4. Phase(i) = "public" => idea[i].published
  BY DEF Phase, Inv, RowOK
<1>5. Phase(i)' = "public" => idea'[i].published
  BY DEF Phase, Inv, RowOK
<1>6. idea'[i].published /\ ~idea[i].published => Phase(i)' = "public"
  BY DEF Phase
<1>7. idea[i].published => idea'[i].published
  BY DEF Grows, Exists, Moderation
<1>8. (idea'[i].published <=> idea[i].published) => Shown' = Shown
  BY DEF Shown
<1>9. idea'[i].published => Shown' = Shown \cup {i}
  BY <1>7 DEF Shown
<1>10. CASE Phase(i)' = Phase(i)
  <2>1. Phases' = Phases
    BY <1>2, <1>10 DEF Phases
  <2> QED
    BY <1>4, <1>6, <1>7, <1>8, <1>10, <2>1
<1>11. CASE Phase(i)' = "public" /\ Phase(i) = "hidden"
  BY <1>2, <1>5, <1>9, <1>11 DEF Life!Next, Life!Show, Life!Move, Phases, Shown
<1>12. CASE Phase(i)' = "hidden" /\ Phase(i) = "public"
  BY <1>2, <1>6, <1>7, <1>8, <1>12 DEF Life!Next, Life!Hide, Life!Move, Phases, Shown
<1>13. CASE Phase(i)' = "gone"
  BY <1>2, <1>3, <1>6, <1>7, <1>8, <1>13 DEF Life!Next, Life!Vanish, Life!Move, Phases, Shown
<1> QED
  BY <1>3, <1>10, <1>11, <1>12, <1>13

\* A step that keeps status, deletion and publication date of every row.
LEMMA LifeSteady ==
  ASSUME \A i \in Ideas : /\ idea'[i].status = idea[i].status
                          /\ idea'[i].deleted = idea[i].deleted
                          /\ idea'[i].published = idea[i].published
  PROVE  UNCHANGED <<Phases, Shown>>
<1>1. \A i \in Ideas : Phase(i)' = Phase(i)
  BY DEF Phase
<1> QED
  BY <1>1 DEF Phases, Shown

LEMMA LifeStep ==
  ASSUME Inv, [Next]_vars
  PROVE  Life!Next \/ UNCHANGED <<Phases, Shown>>
<1>1. ASSUME NEW i \in Ideas, Create(i) PROVE Life!Next
  <2>1. PICK text \in Texts :
          idea' = [idea EXCEPT ![i].status = "aguardando_curadoria", ![i].text = text]
    BY <1>1 DEF Create
  <2>2. idea[i] \in Row /\ idea[i].status = "none" /\ \A j \in Ideas : j # i => idea'[j] = idea[j]
    BY <1>1, <2>1 DEF Create, Inv, TypeOK
  <2>3. /\ idea'[i].status = "aguardando_curadoria"
        /\ idea'[i].published = idea[i].published
    BY <2>1, <2>2 DEF Inv, TypeOK, Row
  <2>4. Phases' = [Phases EXCEPT ![i] = "hidden"] /\ Phases[i] = "none"
    BY <2>2, <2>3 DEF Phases, Phase
  <2>5. Shown' = Shown
    BY <2>2, <2>3 DEF Shown
  <2> QED
    BY <2>4, <2>5 DEF Life!Next, Life!Appear, Life!Move, Phases, Shown
<1>2. ASSUME NEW c \in Calls, Roadmap(c) PROVE UNCHANGED <<Phases, Shown>>
  BY <1>2, RoadmapKeeps, LifeSteady
<1>3. ASSUME NEW c \in Calls, Edit(c) \/ Erase(c) \/ RequestDeletion(c) \/ Decide(c)
      PROVE  Life!Next \/ UNCHANGED <<Phases, Shown>>
  <2> DEFINE i == req[c].idea
  <2>1. i \in Ideas
    BY <1>3 DEF Inv, Sound, Edit, Erase, RequestDeletion, Decide, Doing, At
  <2>2. PICK row : /\ Write(c, row)
                   /\ Exists(i) => /\ row.status \in Moderation \cup {"erased"}
                                   /\ row.published /\ ~idea[i].published =>
                                        row.status = "publicada" /\ ~row.deleted
    BY <1>3, WrittenRow
  <2>3. \A j \in Ideas : idea'[j] = IF j = i /\ Exists(i) THEN row ELSE idea[j]
    BY <2>1, <2>2, WriteOver
  <2>4. Inv' /\ Grows
    BY <1>3, WriteSteps
  <2>5. CASE ~Exists(i)
    BY <2>3, <2>5, LifeSteady
  <2>6. CASE Exists(i)
    <3>1. idea'[i] = row /\ \A j \in Ideas : j # i => idea'[j] = idea[j]
      BY <2>1, <2>3, <2>6
    <3> QED
      BY <2>1, <2>2, <2>4, <2>6, <3>1, RowMove
  <2> QED
    BY <2>5, <2>6
<1>4. ASSUME \A i \in Ideas : idea'[i] = idea[i] PROVE UNCHANGED <<Phases, Shown>>
  BY <1>4, LifeSteady
<1>5. ASSUME NEW v \in Versions, CreateVersion(v) PROVE UNCHANGED <<Phases, Shown>>
  BY <1>4, <1>5 DEF CreateVersion, OnlyVersion
<1>6. CASE UNCHANGED vars
  BY <1>4, <1>6 DEF vars, tables
<1> QED
  BY <1>1, <1>2, <1>3, <1>4, <1>5, <1>6, RowsStay DEF Next, AuthorStep, CuratorStep, RoadmapStep

\* Unguarded statements of overlapping calls implement the life of ideas: whatever
\* they overwrite, an erased idea never returns, and one shown stays known as shown.
THEOREM ImplementsTheLife == Spec => ImplementsLife
<1>1. Init => Life!Init
  <2> SUFFICES ASSUME Init PROVE Life!Init
    OBVIOUS
  <2>1. ASSUME NEW i \in Ideas PROVE idea[i].status = "none" /\ ~idea[i].published
    <3>1. idea[i] = [status |-> "none", text |-> NoText, published |-> FALSE,
                     deleted |-> FALSE, planned |-> FALSE, version |-> NoVersion]
      BY DEF Init
    <3> QED
      BY <3>1
  <2> QED
    BY <2>1 DEF Life!Init, Phase
<1>2. Inv /\ [Next]_vars =>
        [Life!Next]_<<[i \in Ideas |-> Phase(i)], {i \in Ideas : idea[i].published}>>
  BY LifeStep DEF Phases, Shown
<1> QED
  BY <1>1, <1>2, Invariant, PTL DEF Spec, ImplementsLife, Life!Spec
-----------------------------------------------------------------------------
(* The trail of a decision *)

\* Call c, past its write, will leave the audit row that explains the status of i.
Explains(c, i) ==
    /\ req[c].idea = i /\ req[c].step \in {"notify", "audit"}
    /\ req[c].act \in ActsOf(idea[i].status)

Explained(i) ==
    \/ ActsOf(idea[i].status) = {}
    \/ audited[i] \cap ActsOf(idea[i].status) # {}
    \/ \E c \in Calls : Explains(c, i)

TrailInv ==
    /\ \A i \in Ideas : audited[i] \cap Decisions \subseteq told[i]
    /\ \A c \in Calls : At(c, "audit") /\ req[c].act \in Decisions =>
            req[c].act \in told[req[c].idea]
    /\ crashes = 0 => \A i \in Ideas : Explained(i)

\* The steps that neither touch a status nor the trail, of a call not in its trail.
LEMMA TrailStays ==
  ASSUME Inv, TrailInv, UNCHANGED <<told, audited, crashes>>,
         \A i \in Ideas : idea'[i].status = idea[i].status \/ ActsOf(idea'[i].status) = {},
         \/ UNCHANGED req
         \/ \E c \in Calls : /\ req[c].step \notin {"notify", "audit"}
                             /\ \A d \in Calls : d # c => req'[d] = req[d]
                             /\ req'[c].step = "audit" => req'[c].act \notin Decisions
  PROVE  TrailInv'
<1>1. \A d \in Calls : req[d].step \in {"notify", "audit"} => req'[d] = req[d]
  OBVIOUS
<1>2. \A d \in Calls : req'[d].step = "audit" /\ req'[d].act \in Decisions => req'[d] = req[d]
  OBVIOUS
<1>3. ASSUME NEW i \in Ideas, Explained(i) PROVE Explained(i)'
  <2>1. CASE ActsOf(idea'[i].status) = {}
    BY <2>1 DEF Explained
  <2>2. CASE idea'[i].status = idea[i].status
    <3>1. \A c \in Calls : Explains(c, i) => Explains(c, i)'
      BY <1>1, <2>2 DEF Explains
    <3> QED
      BY <1>3, <2>2, <3>1 DEF Explained
  <2> QED
    BY <2>1, <2>2
<1> QED
  BY <1>2, <1>3 DEF TrailInv, At

LEMMA EnterOne ==
  ASSUME Inv, NEW c \in Calls, NEW r, Enter(c, r)
  PROVE  req'[c] = r /\ \A d \in Calls : d # c => req'[d] = req[d]
BY DEF Enter, Inv, TypeOK

LEMMA ProceedFields ==
  ASSUME NEW step, NEW act, NEW i
  PROVE  LET r == [Idle EXCEPT !.step = step, !.act = act, !.idea = i]
         IN  r.step = step /\ r.act = act /\ r.idea = i
BY DEF Idle

\* Only call c moves, and not to its audit row.
OnlyMoves(c) == req'[c].step # "audit" /\ \A d \in Calls : d # c => req'[d] = req[d]

LEMMA EnterMoves ==
  ASSUME Inv, NEW c \in Calls, NEW r, Enter(c, r), r.step # "audit"
  PROVE  OnlyMoves(c)
BY EnterOne DEF OnlyMoves

LEMMA GotoMoves ==
  ASSUME Inv, NEW c \in Calls, NEW step, step # "audit", Goto(c, step) \/ Answer(c)
  PROVE  OnlyMoves(c)
<1>1. CASE Answer(c)
  <2>1. Enter(c, Idle) /\ Idle.step = "idle"
    BY <1>1 DEF Answer, Enter, Idle
  <2> QED
    BY <2>1, EnterMoves
<1>2. CASE Goto(c, step)
  <2> DEFINE r == [req[c] EXCEPT !.step = step]
  <2>1. req[c] \in Request /\ req' = [req EXCEPT ![c] = r]
    BY <1>2 DEF Goto, Inv, TypeOK
  <2>2. r.step = step
    BY <2>1 DEF Request
  <2>3. Enter(c, r)
    BY <2>1 DEF Enter
  <2> HIDE DEF r
  <2> QED
    BY <2>2, <2>3, EnterMoves
<1> QED
  BY <1>1, <1>2

\* The steps of a call that is not in its trail, nor enters it.
LEMMA OffTrail ==
  ASSUME Inv, NEW c \in Calls,
         \/ EditRead(c) \/ EraseRead(c) \/ RequestDeletionRead(c) \/ DecideRead(c)
         \/ RoadmapRead(c) \/ RoadmapVersion(c) \/ VersionRead(c) \/ CountUsage(c)
         \/ UpdateVersion(c) \/ DeactivateVersion(c) \/ DropVersion(c)
  PROVE  /\ req[c].step \notin {"notify", "audit"} /\ UNCHANGED <<told, audited, crashes>>
         /\ OnlyMoves(c)
<1>1. CASE EditRead(c)
  <2>1. PICK i \in Ideas, text \in Texts : Enter(c, [Reading(i, "edit") EXCEPT !.text = text])
    BY <1>1 DEF EditRead
  <2>2. [Reading(i, "edit") EXCEPT !.text = text].step = "write"
    BY DEF Reading, Idle
  <2>3. OnlyMoves(c)
    BY <2>1, <2>2, EnterMoves
  <2> QED
    BY <1>1, <2>3 DEF EditRead, At, Seen, tables
<1>2. ASSUME NEW i, NEW act, Enter(c, Reading(i, act)) PROVE OnlyMoves(c)
  <2>1. Reading(i, act).step = "write"
    BY DEF Reading, Idle
  <2> QED
    BY <1>2, <2>1, EnterMoves
<1>3. CASE EraseRead(c)
  <2>1. PICK i \in Ideas : Enter(c, Reading(i, "erase"))
    BY <1>3 DEF EraseRead
  <2> QED
    BY <1>2, <1>3, <2>1 DEF EraseRead, At, Seen, tables
<1>4. CASE RequestDeletionRead(c)
  <2>1. PICK i \in Ideas : Enter(c, Reading(i, "request_deletion"))
    BY <1>4 DEF RequestDeletionRead
  <2> QED
    BY <1>2, <1>4, <2>1 DEF RequestDeletionRead, At, Seen, tables
<1>5. CASE DecideRead(c)
  <2>1. PICK i \in Ideas, act \in Decisions : Enter(c, Reading(i, act))
    BY <1>5 DEF DecideRead
  <2> QED
    BY <1>2, <1>5, <2>1 DEF DecideRead, At, Seen, tables
<1>6. CASE RoadmapRead(c)
  <2>1. PICK i \in Ideas : \/ Enter(c, Planning(i, "write", NoVersion))
                          \/ \E v \in Versions : Enter(c, Planning(i, "roadmap_version", v))
    BY <1>6 DEF RoadmapRead
  <2>2. ASSUME NEW v, NEW step, step # "audit", Enter(c, Planning(i, step, v))
        PROVE  OnlyMoves(c)
    <3>1. Planning(i, step, v).step = step
      BY DEF Planning, Idle
    <3> QED
      BY <2>2, <3>1, EnterMoves
  <2>5. OnlyMoves(c)
    BY <2>1, <2>2
  <2> QED
    BY <1>6, <2>5 DEF RoadmapRead, At, Seen, tables
<1>7. CASE VersionRead(c)
  <2>1. PICK v \in Versions, step \in {"version_update", "version_count"} :
          Enter(c, OnVersion(v, step))
    BY <1>7 DEF VersionRead
  <2>2. OnVersion(v, step).step = step
    BY DEF OnVersion, Idle
  <2>3. OnlyMoves(c)
    BY <2>1, <2>2, EnterMoves
  <2> QED
    BY <1>7, <2>3 DEF VersionRead, At, Seen, tables
<1>8. CASE RoadmapVersion(c)
  <2>1. Goto(c, "write") \/ Answer(c)
    BY <1>8 DEF RoadmapVersion
  <2>2. OnlyMoves(c)
    BY <2>1, GotoMoves
  <2> QED
    BY <1>8, <2>2 DEF RoadmapVersion, At, Seen, tables
<1>9. CASE CountUsage(c)
  <2>1. Goto(c, "version_deactivate") \/ Goto(c, "version_drop")
    BY <1>9 DEF CountUsage
  <2>2. OnlyMoves(c)
    BY <2>1, GotoMoves
  <2> QED
    BY <1>9, <2>2 DEF CountUsage, At, Seen, tables
<1>10. CASE UpdateVersion(c) \/ DeactivateVersion(c) \/ DropVersion(c)
  <2>1. Answer(c)
    BY <1>10 DEF UpdateVersion, DeactivateVersion, DropVersion
  <2>2. OnlyMoves(c)
    BY <2>1, GotoMoves
  <2> QED
    BY <1>10, <2>2 DEF UpdateVersion, DeactivateVersion, DropVersion, At, OnlyVersion
<1> QED
  BY <1>1, <1>3, <1>4, <1>5, <1>6, <1>7, <1>8, <1>9, <1>10

LEMMA TrailStep ==
  ASSUME Inv, TrailInv, [Next]_vars
  PROVE  TrailInv'
<1> USE DEF At
<1>1. ASSUME NEW i \in Ideas, Create(i) PROVE TrailInv'
  <2>1. PICK text \in Texts :
          idea' = [idea EXCEPT ![i].status = "aguardando_curadoria", ![i].text = text]
    BY <1>1 DEF Create
  <2>2. \A j \in Ideas : j # i => idea'[j] = idea[j]
    BY <2>1 DEF Inv, TypeOK
  <2>3. idea'[i].status = "aguardando_curadoria"
    BY <2>1 DEF Inv, TypeOK, Row
  <2>4. ActsOf(idea'[i].status) = {}
    BY <2>3 DEF ActsOf
  <2> QED
    BY <1>1, <2>2, <2>4, TrailStays DEF Create
<1>2. ASSUME NEW v \in Versions, CreateVersion(v) PROVE TrailInv'
  BY <1>2, TrailStays DEF CreateVersion, OnlyVersion
<1>3. ASSUME NEW c \in Calls,
             \/ EditRead(c) \/ EraseRead(c) \/ RequestDeletionRead(c) \/ DecideRead(c)
             \/ RoadmapRead(c) \/ RoadmapVersion(c) \/ VersionRead(c) \/ CountUsage(c)
             \/ UpdateVersion(c) \/ DeactivateVersion(c) \/ DropVersion(c)
      PROVE  TrailInv'
  <2>1. req[c].step \notin {"notify", "audit"} /\ UNCHANGED <<told, audited, crashes>>
    BY <1>3, OffTrail
  <2>3. \A i \in Ideas : idea'[i] = idea[i]
    BY <1>3, RowsStay
  <2>2. req'[c].step # "audit" /\ \A d \in Calls : d # c => req'[d] = req[d]
    BY <1>3, OffTrail DEF OnlyMoves
  <2> QED
    BY <2>1, <2>2, <2>3, TrailStays
<1>4. ASSUME NEW c \in Calls, Roadmap(c) PROVE TrailInv'
  <2> DEFINE r == [Idle EXCEPT !.step = "audit", !.act = req[c].act, !.idea = req[c].idea]
  <2>1. /\ req[c].step = "write" /\ req[c].act = "roadmap" /\ UNCHANGED <<told, audited, crashes>>
        /\ Enter(c, Idle) \/ Enter(c, r)
    BY <1>4 DEF Roadmap, Doing, Proceed, Answer, Enter
  <2>2. r.act = "roadmap" /\ Idle.step # "audit"
    BY <2>1, ProceedFields DEF Idle
  <2> HIDE DEF r
  <2>3. /\ \A d \in Calls : d # c => req'[d] = req[d]
        /\ req'[c].step = "audit" => req'[c].act \notin Decisions
    BY <2>1, <2>2, EnterOne DEF Decisions
  <2> QED
    BY <1>4, <2>1, <2>3, RoadmapKeeps, TrailStays
<1>5. ASSUME NEW c \in Calls, Edit(c) PROVE TrailInv'
  <2>1. /\ req[c].step \notin {"notify", "audit"} /\ UNCHANGED <<told, audited, crashes>>
        /\ \A d \in Calls : d # c => req'[d] = req[d]
        /\ req'[c] = Idle
    BY <1>5 DEF Edit, Doing, Answer, Inv, TypeOK
  <2> DEFINE row == [idea[req[c].idea] EXCEPT !.text = req[c].text]
  <2>2. req[c].idea \in Ideas /\ Write(c, row)
    BY <1>5 DEF Edit, Doing, Inv, Sound
  <2>3. row.status = idea[req[c].idea].status
    BY <2>2 DEF Inv, TypeOK, Row
  <2> HIDE DEF row
  <2>4. \A i \in Ideas : idea'[i].status = idea[i].status
    BY <2>2, <2>3, WriteOver
  <2> QED
    BY <2>1, <2>4, TrailStays DEF Idle
<1>6. ASSUME NEW c \in Calls, Erase(c) \/ RequestDeletion(c) \/ Decide(c) PROVE TrailInv'
  <2> DEFINE i == req[c].idea
  <2> DEFINE r(step) == [Idle EXCEPT !.step = step, !.act = req[c].act, !.idea = i]
  <2>1. /\ req[c].step = "write" /\ i \in Ideas /\ UNCHANGED <<told, audited, crashes>>
        /\ \/ Erase(c) /\ Enter(c, Idle)
           \/ Decide(c) /\ Enter(c, r("notify"))
           \/ RequestDeletion(c) /\ req[c].act = "request_deletion" /\ Enter(c, r("audit"))
    BY <1>6 DEF Erase, RequestDeletion, Decide, Doing, Proceed, Answer, Enter, Inv, Sound
  <2>9. \A step \in {"notify", "audit"} :
          r(step).step = step /\ r(step).act = req[c].act /\ r(step).idea = i
    BY ProceedFields
  <2> HIDE DEF r
  <2>10. \A d \in Calls : d # c => req'[d] = req[d]
    BY <2>1, EnterOne
  <2>2. \/ Erase(c) /\ req'[c] = Idle
        \/ /\ req'[c].idea = i /\ req'[c].act = req[c].act
           /\ req'[c].step \in {"notify", "audit"}
           /\ req'[c].step = "audit" => req[c].act \notin Decisions
    BY <2>1, <2>9, EnterOne DEF Decisions
  <2>3. PICK row : /\ Write(c, row)
                   /\ Exists(i) => \/ row.status = idea[i].status /\ Edit(c)
                                   \/ row.status = "erased"
                                   \/ req[c].act \in ActsOf(row.status)
    BY <1>6, WrittenRow
  <2>4. ~Edit(c)
    BY <1>6 DEF Edit, Erase, RequestDeletion, Decide, Doing, Decisions
  <2>5. \A j \in Ideas : idea'[j] = IF j = i /\ Exists(i) THEN row ELSE idea[j]
    BY <2>1, <2>3, WriteOver
  <2>6. ASSUME NEW j \in Ideas, ~(j = i /\ Exists(i)), Explained(j) PROVE Explained(j)'
    <3>1. idea'[j] = idea[j]
      BY <2>5, <2>6
    <3>2. \A d \in Calls : Explains(d, j) => Explains(d, j)'
      BY <2>1, <2>10, <3>1 DEF Explains
    <3> QED
      BY <2>1, <2>6, <3>1, <3>2 DEF Explained
  <2>7. ASSUME NEW j \in Ideas, j = i, Exists(j) PROVE Explained(j)'
    <3>1. CASE row.status = "erased"
      <4>1. ActsOf(row.status) = {}
        BY <3>1 DEF ActsOf
      <4> QED
        BY <2>1, <2>5, <2>7, <4>1 DEF Explained
    <3>2. CASE req[c].act \in ActsOf(row.status)
      <4>1. req[c].act \in {"approve", "deny_deletion", "reject", "request_deletion", "remove",
                            "approve_deletion"}
        BY <3>2 DEF ActsOf
      <4>2. ~Erase(c)
        BY <2>1, <4>1 DEF Erase, Doing
      <4> QED
        BY <2>1, <2>2, <2>5, <2>7, <3>2, <4>2 DEF Explained, Explains
    <3> QED
      BY <2>3, <2>4, <2>7, <3>1, <3>2
  <2>8. ASSUME NEW d \in Calls, req'[d].step = "audit", req'[d].act \in Decisions
        PROVE  req'[d].act \in told'[req'[d].idea]
    <3>1. CASE d = c
      BY <2>2, <2>8, <3>1 DEF Idle
    <3>2. CASE d # c
      BY <2>1, <2>8, <2>10, <3>2 DEF TrailInv
    <3> QED
      BY <3>1, <3>2
  <2>11. crashes' = 0 => \A j \in Ideas : Explained(j)'
    BY <2>1, <2>6, <2>7 DEF TrailInv
  <2> QED
    BY <2>1, <2>8, <2>11 DEF TrailInv
<1>7. ASSUME NEW c \in Calls, Notify(c) PROVE TrailInv'
  <2> DEFINE i == req[c].idea
  <2>1. /\ req[c].step = "notify" /\ i \in Ideas /\ UNCHANGED <<idea, audited, crashes>>
        /\ req'[c].idea = i /\ req'[c].act = req[c].act /\ req'[c].step = "audit"
        /\ \A d \in Calls : d # c => req'[d] = req[d]
    BY <1>7 DEF Notify, Proceed, Enter, Idle, Inv, Sound, TypeOK
  <2>2. \A j \in Ideas : told[j] \subseteq told'[j]
    BY <1>7, <2>1 DEF Notify, Inv, TypeOK
  <2>3. req[c].act \in told'[i]
    BY <1>7, <2>1 DEF Notify, Inv, TypeOK
  <2>4. ASSUME NEW j \in Ideas, Explained(j) PROVE Explained(j)'
    <3>1. \A d \in Calls : Explains(d, j) => Explains(d, j)'
      BY <2>1 DEF Explains
    <3> QED
      BY <2>1, <2>4, <3>1 DEF Explained
  <2>5. ASSUME NEW d \in Calls, req'[d].step = "audit", req'[d].act \in Decisions
        PROVE  req'[d].act \in told'[req'[d].idea]
    <3>1. CASE d = c
      BY <2>1, <2>3, <3>1
    <3>2. CASE d # c
      <4>1. req[d].idea \in Ideas /\ req[d].act \in told[req[d].idea]
        BY <2>1, <2>5, <3>2 DEF TrailInv, Inv, Sound
      <4> QED
        BY <2>1, <2>2, <3>2, <4>1
    <3> QED
      BY <3>1, <3>2
  <2> QED
    BY <2>1, <2>2, <2>4, <2>5 DEF TrailInv
<1>8. ASSUME NEW c \in Calls, Audit(c) PROVE TrailInv'
  <2> DEFINE i == req[c].idea
  <2>1. /\ req[c].step = "audit" /\ i \in Ideas /\ UNCHANGED <<idea, told, crashes>>
        /\ req'[c] = Idle /\ \A d \in Calls : d # c => req'[d] = req[d]
    BY <1>8 DEF Audit, Answer, Inv, Sound, TypeOK
  <2>2. /\ \A j \in Ideas : j # i => audited'[j] = audited[j]
        /\ audited'[i] = audited[i] \cup ({req[c].act} \ {"roadmap"})
    BY <1>8, <2>1 DEF Audit, Inv, TypeOK
  <2>3. ASSUME NEW j \in Ideas, Explained(j) PROVE Explained(j)'
    <3>1. \A d \in Calls : Explains(d, j) /\ d # c => Explains(d, j)'
      BY <2>1 DEF Explains
    <3>2. Explains(c, j) => audited'[j] \cap ActsOf(idea'[j].status) # {}
      <4>1. \A status : "roadmap" \notin ActsOf(status)
        BY DEF ActsOf
      <4> QED
        BY <2>1, <2>2, <4>1 DEF Explains
    <3>3. audited[j] \subseteq audited'[j]
      BY <2>2
    <3> QED
      BY <2>1, <2>3, <3>1, <3>2, <3>3 DEF Explained
  <2>4. \A j \in Ideas : audited'[j] \cap Decisions \subseteq told'[j]
    BY <2>1, <2>2 DEF TrailInv
  <2>5. ASSUME NEW d \in Calls, req'[d].step = "audit", req'[d].act \in Decisions
        PROVE  req'[d].act \in told'[req'[d].idea]
    BY <2>1, <2>5 DEF TrailInv, Idle
  <2> QED
    BY <2>1, <2>3, <2>4, <2>5 DEF TrailInv
<1>9. ASSUME NEW c \in Calls, Crash(c) PROVE TrailInv'
  <2>1. crashes' # 0
    BY <1>9 DEF Crash, Inv, TypeOK
  <2>2. UNCHANGED <<told, audited>> /\ req'[c] = Idle /\ \A d \in Calls : d # c => req'[d] = req[d]
    BY <1>9 DEF Crash, Answer, tables, Inv, TypeOK
  <2> QED
    BY <2>1, <2>2 DEF TrailInv, Idle
<1>10. CASE UNCHANGED vars
  BY <1>10, TrailStays DEF vars, tables
<1> QED
  BY <1>1, <1>2, <1>3, <1>4, <1>5, <1>6, <1>7, <1>8, <1>9, <1>10
  DEF Next, AuthorStep, CuratorStep, RoadmapStep

\* An author hears of every audited decision, and when no call works on an idea and
\* none has died its trail explains its status.
THEOREM DecisionsAudited == Spec => []DecisionIsAudited
<1>1. Init => TrailInv
  <2> SUFFICES ASSUME Init PROVE TrailInv
    OBVIOUS
  <2>1. ASSUME NEW i \in Ideas PROVE ActsOf(idea[i].status) = {}
    <3>1. idea[i].status = "none"
      BY DEF Init
    <3> QED
      BY <3>1 DEF ActsOf
  <2> QED
    BY <2>1 DEF Init, TrailInv, Explained, At, Idle
<1>2. TrailInv => DecisionIsAudited
  BY DEF TrailInv, Explained, Explains, DecisionIsAudited
<1> QED
  BY <1>1, <1>2, TrailStep, Invariant, PTL DEF Spec
=============================================================================
