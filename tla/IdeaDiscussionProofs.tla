------------------------- MODULE IdeaDiscussionProofs -------------------------
(* Theorems about IdeaDiscussion, for every set of ideas, comments, calls and users. *)
EXTENDS IdeaDiscussion, TLAPS

\* A row of a comment that was ever stored.
RowOK(k) ==
    LET row == comment[k] IN
    row.status # "none" =>
        /\ row.idea \in Ideas /\ row.idea \in shown /\ row.author \in Commenters
        /\ row.status # "erased" => Stored(row.idea)
        /\ row.parent # NoComment =>
            /\ comment[row.parent].status # "none"
            /\ comment[row.parent].idea = row.idea
            /\ comment[row.parent].parent = NoComment
            /\ row.status # "erased" => Exists(row.parent)

\* What a call may rely on: nothing that happens meanwhile undoes it.
Sound(r) ==
    /\ r.step \in {"vote", "unvote"} => r.user \in Voters
    /\ r.step \in {"comment", "reply_parent", "reply", "react"} => r.user \in Commenters
    /\ r.step \in {"vote", "unvote", "comment", "reply_parent", "reply"} =>
        r.idea \in Ideas /\ r.idea \in shown
    /\ r.step \in {"reply_parent", "reply", "react", "hide", "restore", "audit", "notify"} =>
        r.comment \in Comments /\ comment[r.comment].status # "none"
    /\ r.step = "reply" => comment[r.comment].idea = r.idea /\ comment[r.comment].parent = NoComment
    /\ r.step = "react" => r.reaction \in Reactions
    /\ r.step \in {"hide", "restore", "audit", "notify"} => r.user \in Moderators

Inv ==
    /\ TypeOK
    /\ \A i \in Ideas : phase[i] = "public" => i \in shown
    /\ \A k \in Comments : RowOK(k)
    /\ \A k \in Comments : ~Exists(k) => \A u \in Commenters : reaction[k][u] = NoReaction
    /\ \A i \in Ideas : vote[i] # {} => i \in shown /\ phase[i] # "gone"
    /\ \A c \in Calls : Sound(req[c])

THEOREM InitInv == Init => Inv
<1> SUFFICES ASSUME Init PROVE Inv
  OBVIOUS
<1>1. phase = [i \in Ideas |-> "none"] /\ shown = {}
  BY DEF Init, Life!Init
<1>2. NoRow \in Row /\ NoRow.status = "none" /\ NoRow.idea = NoIdea
  BY DEF NoRow, Row, Statuses
<1>3. Idle \in Request /\ Idle.step = "idle"
  BY DEF Idle, Request, Steps
<1>4. TypeOK
  BY <1>1, <1>2, <1>3, NullAssumption DEF Init, TypeOK
<1>5. \A k \in Comments : RowOK(k)
  BY <1>2 DEF Init, RowOK
<1>6. \A c \in Calls : Sound(req[c])
  BY <1>3 DEF Init, Sound
<1> QED
  BY <1>1, <1>4, <1>5, <1>6 DEF Init, Inv

\* An idea stays what it is but for its phase, and once gone it stays gone.
LEMMA IdeasMove ==
  ASSUME Inv, NEW i \in Ideas,
         Life!Appear(i) \/ Life!Show(i) \/ Life!Hide(i) \/ Life!Vanish(i)
  PROVE  /\ phase' \in [Ideas -> {"none", "hidden", "public", "gone"}]
         /\ shown' \subseteq Ideas /\ shown \subseteq shown'
         /\ \A j \in Ideas : j # i => phase'[j] = phase[j]
         /\ \A j \in Ideas : phase'[j] = "public" => j \in shown'
<1>1. phase \in [Ideas -> {"none", "hidden", "public", "gone"}] /\ shown \subseteq Ideas
      /\ \A j \in Ideas : phase[j] = "public" => j \in shown
  BY DEF Inv, TypeOK
<1>2. CASE Life!Appear(i)
  BY <1>1, <1>2 DEF Life!Appear, Life!Move
<1>3. CASE Life!Show(i)
  BY <1>1, <1>3 DEF Life!Show, Life!Move
<1>4. CASE Life!Hide(i)
  BY <1>1, <1>4 DEF Life!Hide, Life!Move
<1>5. CASE Life!Vanish(i)
  BY <1>1, <1>5 DEF Life!Vanish, Life!Move
<1> QED
  BY <1>2, <1>3, <1>4, <1>5

\* What a call relies on is not undone as long as rows keep who wrote them and where.
LEMMA SoundStays ==
  ASSUME shown \subseteq shown',
         \A k \in Comments : comment[k].status # "none" =>
             /\ comment'[k].status # "none" /\ comment'[k].idea = comment[k].idea
             /\ comment'[k].parent = comment[k].parent
  PROVE  \A r : Sound(r) => Sound(r)'
<1> TAKE r
<1> HAVE Sound(r)
<1>1. r.step \in {"reply_parent", "reply", "react", "hide", "restore", "audit", "notify"} =>
        r.comment \in Comments /\ comment'[r.comment].status # "none"
  BY DEF Sound
<1>2. r.step = "reply" => comment'[r.comment].idea = r.idea /\ comment'[r.comment].parent = NoComment
  BY DEF Sound
<1>3. r.step \in {"vote", "unvote", "comment", "reply_parent", "reply"} =>
        r.idea \in Ideas /\ r.idea \in shown'
  BY DEF Sound
<1> QED
  BY <1>1, <1>2, <1>3 DEF Sound

\* Nothing that an invariant says of rows changes when they and the ideas do not.
LEMMA RowsStay ==
  ASSUME Inv, UNCHANGED <<ideas, comment>>
  PROVE  /\ phase' \in [Ideas -> {"none", "hidden", "public", "gone"}]
         /\ shown' \subseteq Ideas /\ comment' \in [Comments -> Row]
         /\ \A k \in Comments : comment'[k].status = "none" <=> comment'[k].idea = NoIdea
         /\ \A i \in Ideas : phase'[i] = "public" => i \in shown'
         /\ \A k \in Comments : RowOK(k)'
         /\ \A r : Sound(r) => Sound(r)'
<1>1. \A k \in Comments : RowOK(k)'
  BY DEF Inv, RowOK, Exists, Stored, ideas
<1>2. \A r : Sound(r) => Sound(r)'
  BY SoundStays DEF ideas
<1> QED
  BY <1>1, <1>2 DEF Inv, TypeOK, ideas

\* A call that goes on, or ends.
LEMMA CallMoves ==
  ASSUME TypeOK, NEW c \in Calls, NEW r \in Request, Enter(c, r)
  PROVE  /\ req' \in [Calls -> Request] /\ req'[c] = r
         /\ \A d \in Calls : d # c => req'[d] = req[d]
  BY DEF TypeOK, Enter

LEMMA CallEnds ==
  ASSUME TypeOK, NEW c \in Calls, Answer(c)
  PROVE  /\ req' \in [Calls -> Request] /\ req'[c] = Idle
         /\ \A d \in Calls : d # c => req'[d] = req[d]
<1>1. Idle \in Request
  BY DEF Idle, Request, Steps
<1> QED
  BY <1>1 DEF TypeOK, Answer

LEMMA CallProceeds ==
  ASSUME TypeOK, NEW c \in Calls, NEW step \in Steps, Goto(c, step)
  PROVE  /\ req' \in [Calls -> Request]
         /\ req'[c] \in Request
         /\ req'[c].step = step /\ req'[c].user = req[c].user /\ req'[c].idea = req[c].idea
         /\ req'[c].comment = req[c].comment /\ req'[c].reaction = req[c].reaction
         /\ \A d \in Calls : d # c => req'[d] = req[d]
<1>1. req[c] \in Request
  BY DEF TypeOK
<1>2. req' = [req EXCEPT ![c] = [req[c] EXCEPT !.step = step]]
  BY DEF Goto
<1>3. [req[c] EXCEPT !.step = step] \in Request
  BY <1>1 DEF Request
<1> QED
  BY <1>1, <1>2, <1>3 DEF TypeOK, Request

\* What every call but c relies on stays, and an ended one relies on nothing.
LEMMA IdleSound == Sound(Idle) /\ Sound(Idle)'
  BY DEF Sound, Idle

\* A step that reads, and remembers what it may rely on.
LEMMA ReadStep ==
  ASSUME Inv, NEW c \in Calls, Seen, req' \in [Calls -> Request], Sound(req'[c]),
         \A d \in Calls : d # c => req'[d] = req[d]
  PROVE  Inv'
<1>1. UNCHANGED <<ideas, comment, vote, reaction, answered, crashes>>
  BY DEF Seen, tables
<1>2. \A r : Sound(r) => Sound(r)'
  BY <1>1, RowsStay
<1>3. \A d \in Calls : Sound(req[d])'
  <2>1. \A d \in Calls : Sound(req'[d])
    BY DEF Inv
  <2> QED
    BY <1>2, <2>1 DEF Sound
<1>4. \A k \in Comments : RowOK(k)'
  BY <1>1, RowsStay
<1>5. TypeOK'
  BY <1>1 DEF Inv, TypeOK, ideas
<1> QED
  BY <1>1, <1>3, <1>4, <1>5 DEF Inv, Exists, ideas

LEMMA ServingTyped ==
  ASSUME NEW step \in Steps, NEW u \in Users, NEW i \in Ideas, NEW k \in Comments \cup {NoComment}
  PROVE  /\ Serving(step, u, i, k) \in Request
         /\ Serving(step, u, i, k).step = step /\ Serving(step, u, i, k).user = u
         /\ Serving(step, u, i, k).idea = i /\ Serving(step, u, i, k).comment = k
BY DEF Serving, Idle, Request

LEMMA VoteReadKeeps == ASSUME Inv, NEW c \in Calls, VoteRead(c) PROVE Inv'
<1>1. PICK i \in Ideas, u \in Voters, step \in {"vote", "unvote"} :
        phase[i] = "public" /\ Enter(c, Serving(step, u, i, NoComment))
  BY DEF VoteRead
<1> DEFINE r == Serving(step, u, i, NoComment)
<1>2. /\ r \in Request /\ r.step = step /\ r.user = u /\ r.idea = i
  BY ServingTyped DEF Steps, Users
<1>3. i \in shown
  BY <1>1 DEF Inv
<1>4. Sound(r)
  BY <1>2, <1>3 DEF Sound
<1>5. Enter(c, r)
  BY <1>1
<1> HIDE DEF r
<1> QED
  BY <1>2, <1>4, <1>5, CallMoves, ReadStep DEF VoteRead, Inv

LEMMA CommentReadKeeps == ASSUME Inv, NEW c \in Calls, CommentRead(c) PROVE Inv'
<1>1. PICK i \in Ideas, u \in Commenters :
        /\ phase[i] = "public"
        /\ \/ Enter(c, Serving("comment", u, i, NoComment))
           \/ \E k \in Comments : comment[k].status # "none"
                                  /\ Enter(c, Serving("reply_parent", u, i, k))
  BY DEF CommentRead
<1>2. i \in shown
  BY <1>1 DEF Inv
<1>3. CASE Enter(c, Serving("comment", u, i, NoComment))
  <2> DEFINE r == Serving("comment", u, i, NoComment)
  <2>1. r \in Request /\ r.step = "comment" /\ r.user = u /\ r.idea = i
    BY ServingTyped DEF Steps, Users
  <2>2. Sound(r)
    BY <1>2, <2>1 DEF Sound
  <2>3. Enter(c, r)
    BY <1>3
  <2> HIDE DEF r
  <2> QED
    BY <2>1, <2>2, <2>3, CallMoves, ReadStep DEF CommentRead, Inv
<1>4. CASE \E k \in Comments : comment[k].status # "none"
                               /\ Enter(c, Serving("reply_parent", u, i, k))
  <2>1. PICK k \in Comments : comment[k].status # "none"
                              /\ Enter(c, Serving("reply_parent", u, i, k))
    BY <1>4
  <2> DEFINE r == Serving("reply_parent", u, i, k)
  <2>2. r \in Request /\ r.step = "reply_parent" /\ r.user = u /\ r.idea = i /\ r.comment = k
    BY ServingTyped DEF Steps, Users
  <2>3. Sound(r)
    BY <1>2, <2>1, <2>2 DEF Sound
  <2>4. Enter(c, r)
    BY <2>1
  <2> HIDE DEF r
  <2> QED
    BY <2>2, <2>3, <2>4, CallMoves, ReadStep DEF CommentRead, Inv
<1> QED
  BY <1>1, <1>3, <1>4

LEMMA ReplyParentKeeps == ASSUME Inv, NEW c \in Calls, ReplyParent(c) PROVE Inv'
<1>1. TypeOK /\ Seen /\ req[c].step = "reply_parent" /\ Sound(req[c])
  BY DEF ReplyParent, At, Inv
<1>2. CASE Answer(c)
  BY <1>1, <1>2, CallEnds, IdleSound, ReadStep
<1>3. CASE /\ Goto(c, "reply")
           /\ comment[req[c].comment].idea = req[c].idea
           /\ comment[req[c].comment].parent = NoComment
  <2>1. /\ req' \in [Calls -> Request] /\ \A d \in Calls : d # c => req'[d] = req[d]
        /\ req'[c].step = "reply" /\ req'[c].user = req[c].user /\ req'[c].idea = req[c].idea
        /\ req'[c].comment = req[c].comment
    BY <1>1, <1>3, CallProceeds DEF Steps
  <2>2. Sound(req'[c])
    BY <1>1, <1>3, <2>1 DEF Sound
  <2> QED
    BY <1>1, <2>1, <2>2, ReadStep
<1> QED
  BY <1>2, <1>3 DEF ReplyParent

LEMMA ReactReadKeeps == ASSUME Inv, NEW c \in Calls, ReactRead(c) PROVE Inv'
<1>1. PICK k \in Comments, u \in Commenters, x \in Reactions :
        /\ comment[k].status = "publicado"
        /\ Enter(c, [Serving("react", u, comment[k].idea, k) EXCEPT !.reaction = x])
  BY DEF ReactRead
<1> DEFINE q == Serving("react", u, comment[k].idea, k)
           r == [q EXCEPT !.reaction = x]
<1>2. comment[k].idea \in Ideas
  BY <1>1 DEF Inv, RowOK
<1>3. q \in Request /\ q.step = "react" /\ q.user = u /\ q.comment = k
  BY <1>2, ServingTyped DEF Steps, Users
<1>4. r \in Request /\ r.step = "react" /\ r.user = u /\ r.comment = k /\ r.reaction = x
  BY <1>3 DEF Request
<1>5. Sound(r)
  BY <1>1, <1>4 DEF Sound
<1>6. Enter(c, r)
  BY <1>1
<1> HIDE DEF q, r
<1> QED
  BY <1>4, <1>5, <1>6, CallMoves, ReadStep DEF ReactRead, Inv

LEMMA ModerateReadKeeps == ASSUME Inv, NEW c \in Calls, ModerateRead(c) PROVE Inv'
<1>1. PICK k \in Comments, u \in Moderators, step \in {"hide", "restore"} :
        Exists(k) /\ Enter(c, Serving(step, u, comment[k].idea, k))
  BY DEF ModerateRead
<1> DEFINE r == Serving(step, u, comment[k].idea, k)
<1>2. comment[k].idea \in Ideas /\ comment[k].status # "none"
  BY <1>1 DEF Inv, RowOK, Exists
<1>3. r \in Request /\ r.step = step /\ r.user = u /\ r.comment = k
  BY <1>2, ServingTyped DEF Steps, Users
<1>4. Sound(r)
  BY <1>2, <1>3 DEF Sound
<1>5. Enter(c, r)
  BY <1>1
<1> HIDE DEF r
<1> QED
  BY <1>3, <1>4, <1>5, CallMoves, ReadStep DEF ModerateRead, Inv

\* A step that leaves the rows of ideas and comments alone.
LEMMA WriteStep ==
  ASSUME Inv, UNCHANGED <<ideas, comment>>, crashes' \in Nat,
         vote' \in [Ideas -> SUBSET Voters],
         \A i \in Ideas : vote'[i] # {} => i \in shown /\ phase[i] # "gone",
         reaction' \in [Comments -> [Commenters -> Reactions \cup {NoReaction}]],
         \A k \in Comments : ~Exists(k) => \A u \in Commenters : reaction'[k][u] = NoReaction,
         answered' \in [Comments -> SUBSET {"audit", "notice"}],
         req' \in [Calls -> Request], \A d \in Calls : Sound(req'[d])
  PROVE  Inv'
<1>1. TypeOK'
  BY RowsStay DEF TypeOK
<1>2. \A d \in Calls : Sound(req[d])'
  <2>1. \A r : Sound(r) => Sound(r)'
    BY RowsStay
  <2> QED
    BY <2>1 DEF Sound
<1>3. \A k \in Comments : RowOK(k)'
  BY RowsStay
<1> QED
  BY <1>1, <1>2, <1>3 DEF Inv, Exists, ideas

LEMMA EndsSound ==
  ASSUME Inv, NEW c \in Calls, Answer(c)
  PROVE  req' \in [Calls -> Request] /\ \A d \in Calls : Sound(req'[d])
<1>1. /\ req' \in [Calls -> Request] /\ req'[c] = Idle
      /\ \A d \in Calls : d # c => req'[d] = req[d]
  BY CallEnds DEF Inv
<1> QED
  BY <1>1, IdleSound DEF Inv

LEMMA VoteKeeps == ASSUME Inv, NEW c \in Calls, Vote(c) \/ Unvote(c) PROVE Inv'
<1> DEFINE i == req[c].idea
<1>1. /\ UNCHANGED <<ideas, comment, reaction, answered, crashes>> /\ Answer(c)
      /\ req[c].step \in {"vote", "unvote"}
  BY DEF Vote, Unvote, At
<1>2. i \in Ideas /\ i \in shown /\ req[c].user \in Voters
  BY <1>1 DEF Inv, Sound
<1>3. vote' = [vote EXCEPT ![i] = IF Stored(i) THEN @ \cup {req[c].user} ELSE @]
      \/ vote' = [vote EXCEPT ![i] = @ \ {req[c].user}]
  BY DEF Vote, Unvote
<1>4. vote' \in [Ideas -> SUBSET Voters]
  BY <1>2, <1>3 DEF Inv, TypeOK
<1>5. \A j \in Ideas : vote'[j] # {} => j \in shown /\ phase[j] # "gone"
  <2> SUFFICES ASSUME NEW j \in Ideas, vote'[j] # {} PROVE j \in shown /\ phase[j] # "gone"
    OBVIOUS
  <2>1. vote'[j] = vote[j] \/ vote'[j] = vote[j] \ {req[c].user} \/ (j = i /\ Stored(i))
    BY <1>2, <1>3 DEF Inv, TypeOK
  <2>2. CASE j = i /\ Stored(i)
    BY <1>2, <2>2 DEF Stored
  <2> QED
    BY <2>1, <2>2 DEF Inv
<1>6. req' \in [Calls -> Request] /\ \A d \in Calls : Sound(req'[d])
  BY <1>1, EndsSound
<1>7. \A k \in Comments : ~Exists(k) => \A u \in Commenters : reaction'[k][u] = NoReaction
  BY <1>1 DEF Inv
<1> QED
  BY <1>1, <1>4, <1>5, <1>6, <1>7, WriteStep DEF Inv, TypeOK

LEMMA ReactKeeps ==
  ASSUME Inv, (\E c \in Calls : React(c))
              \/ \E k \in Comments, u \in Commenters, r \in Reactions : Unreact(k, u, r)
  PROVE  Inv'
<1>1. UNCHANGED <<ideas, comment, vote, answered, crashes>>
  BY DEF React, Unreact
<1>2. PICK k \in Comments, u \in Commenters, r \in Reactions \cup {NoReaction} :
        /\ reaction' = [reaction EXCEPT ![k][u] = r]
        /\ r = NoReaction \/ Exists(k)
  <2>1. ASSUME NEW c \in Calls, React(c)
        PROVE  \E k \in Comments, u \in Commenters, r \in Reactions \cup {NoReaction} :
                 reaction' = [reaction EXCEPT ![k][u] = r] /\ (r = NoReaction \/ Exists(k))
    <3> DEFINE k == req[c].comment
               u == req[c].user
               r == IF Exists(k) THEN req[c].reaction ELSE reaction[k][u]
    <3>1. k \in Comments /\ u \in Commenters /\ req[c].reaction \in Reactions
      BY <2>1 DEF React, At, Inv, Sound
    <3>2. reaction' = [reaction EXCEPT ![k][u] = r]
      BY <2>1, <3>1 DEF React, Inv, TypeOK
    <3>3. r \in Reactions \cup {NoReaction} /\ (r = NoReaction \/ Exists(k))
      BY <3>1 DEF Inv
    <3> QED
      BY <3>1, <3>2, <3>3
  <2>2. ASSUME NEW k \in Comments, NEW u \in Commenters, NEW r \in Reactions, Unreact(k, u, r)
        PROVE  reaction' = [reaction EXCEPT ![k][u] = NoReaction]
    BY <2>2 DEF Unreact
  <2> QED
    BY <2>1, <2>2
<1>3. reaction' \in [Comments -> [Commenters -> Reactions \cup {NoReaction}]]
  BY <1>2 DEF Inv, TypeOK
<1>4. \A j \in Comments : ~Exists(j) => \A v \in Commenters : reaction'[j][v] = NoReaction
  BY <1>2 DEF Inv, TypeOK
<1>5. req' \in [Calls -> Request] /\ \A d \in Calls : Sound(req'[d])
  <2>1. CASE \E c \in Calls : React(c)
    BY <2>1, EndsSound DEF React
  <2>2. CASE UNCHANGED req
    BY <2>2 DEF Inv, TypeOK
  <2> QED
    BY <2>1, <2>2 DEF Unreact
<1>6. \A i \in Ideas : vote'[i] # {} => i \in shown /\ phase[i] # "gone"
  BY <1>1 DEF Inv
<1> QED
  BY <1>1, <1>3, <1>4, <1>5, <1>6, WriteStep DEF Inv, TypeOK

\* The hiding is audited, the author told, or the call is lost.
LEMMA AfterKeeps == ASSUME Inv, NEW c \in Calls, Audit(c) \/ Notify(c) \/ Crash(c) PROVE Inv'
<1>1. UNCHANGED <<ideas, comment, vote, reaction>> /\ crashes' \in Nat
  BY DEF Audit, Notify, Crash, tables, Inv, TypeOK
<1>2. answered' \in [Comments -> SUBSET {"audit", "notice"}]
  <2>1. CASE Crash(c)
    BY <2>1 DEF Crash, tables, Inv, TypeOK
  <2>2. CASE Audit(c) \/ Notify(c)
    <3>1. req[c].comment \in Comments
      BY <2>2 DEF Audit, Notify, At, Inv, Sound
    <3> QED
      BY <2>2, <3>1 DEF Audit, Notify, Inv, TypeOK
  <2> QED
    BY <2>1, <2>2
<1>3. req' \in [Calls -> Request] /\ \A d \in Calls : Sound(req'[d])
  <2>1. CASE Answer(c)
    BY <2>1, EndsSound
  <2>2. CASE Audit(c) /\ Goto(c, "notify")
    <3>1. /\ req' \in [Calls -> Request] /\ \A d \in Calls : d # c => req'[d] = req[d]
          /\ req'[c].step = "notify" /\ req'[c].user = req[c].user
          /\ req'[c].comment = req[c].comment
      BY <2>2, CallProceeds DEF Steps, Inv
    <3>2. Sound(req[c]) /\ req[c].step = "audit"
      BY <2>2 DEF Audit, At, Inv
    <3>3. Sound(req'[c])
      BY <3>1, <3>2 DEF Sound
    <3> QED
      BY <3>1, <3>3 DEF Inv
  <2> QED
    BY <2>1, <2>2 DEF Audit, Notify, Crash
<1>4. \A k \in Comments : ~Exists(k) => \A u \in Commenters : reaction'[k][u] = NoReaction
  BY <1>1 DEF Inv
<1>5. \A i \in Ideas : vote'[i] # {} => i \in shown /\ phase[i] # "gone"
  BY <1>1 DEF Inv
<1> QED
  BY <1>1, <1>2, <1>3, <1>4, <1>5, WriteStep DEF Inv, TypeOK

LEMMA CurateKeeps == ASSUME Inv, NEW i \in Ideas, Curate(i) PROVE Inv'
<1>1. /\ UNCHANGED <<vote, comment, reaction, answered, req, crashes>>
      /\ Life!Appear(i) \/ Life!Show(i) \/ Life!Hide(i)
  BY DEF Curate, tables
<1>2. /\ phase' \in [Ideas -> {"none", "hidden", "public", "gone"}]
      /\ shown' \subseteq Ideas /\ shown \subseteq shown'
      /\ \A j \in Ideas : j # i => phase'[j] = phase[j]
      /\ \A j \in Ideas : phase'[j] = "public" => j \in shown'
  BY <1>1, IdeasMove
<1>3. phase[i] # "gone" /\ phase'[i] \in {"hidden", "public"}
  BY <1>1 DEF Life!Appear, Life!Show, Life!Hide, Life!Move, Inv, TypeOK
<1>4. \A j \in Ideas : /\ Stored(j) => Stored(j)'
                       /\ phase[j] # "gone" => phase'[j] # "gone"
  BY <1>2, <1>3 DEF Stored
<1>5. TypeOK'
  BY <1>1, <1>2 DEF Inv, TypeOK
<1>6. \A k \in Comments : RowOK(k)'
  BY <1>1, <1>2, <1>4 DEF Inv, RowOK, Exists
<1>7. \A d \in Calls : Sound(req[d])'
  <2>1. \A r : Sound(r) => Sound(r)'
    BY <1>1, <1>2, SoundStays
  <2> QED
    BY <1>1, <2>1 DEF Inv, Sound
<1> QED
  BY <1>1, <1>2, <1>4, <1>5, <1>6, <1>7 DEF Inv, Exists

LEMMA EraseKeeps == ASSUME Inv, NEW i \in Ideas, Erase(i) PROVE Inv'
<1>1. /\ UNCHANGED <<answered, req, crashes>> /\ Life!Vanish(i)
      /\ vote' = [vote EXCEPT ![i] = {}]
  BY DEF Erase
<1>2. /\ phase' \in [Ideas -> {"none", "hidden", "public", "gone"}]
      /\ shown' \subseteq Ideas /\ shown \subseteq shown'
      /\ \A j \in Ideas : j # i => phase'[j] = phase[j]
      /\ \A j \in Ideas : phase'[j] = "public" => j \in shown'
  BY <1>1, IdeasMove
<1>3. phase[i] \in {"hidden", "public"} /\ phase'[i] = "gone"
  BY <1>1 DEF Life!Vanish, Life!Move, Inv, TypeOK
<1>4. /\ comment' = [k \in Comments |-> IF comment[k].idea = i
                        THEN [comment[k] EXCEPT !.status = "erased"] ELSE comment[k]]
      /\ reaction' = [k \in Comments |-> IF comment[k].idea = i
                        THEN [u \in Commenters |-> NoReaction] ELSE reaction[k]]
  BY DEF Erase
<1>5. \A k \in Comments :
        /\ comment[k] \in Row /\ comment'[k] \in Row
        /\ comment[k].idea # i => comment'[k] = comment[k]
        /\ comment[k].idea = i => comment'[k].status = "erased"
        /\ comment'[k].idea = comment[k].idea /\ comment'[k].parent = comment[k].parent
        /\ comment'[k].author = comment[k].author
  <2> SUFFICES ASSUME NEW k \in Comments
      PROVE  /\ comment[k] \in Row /\ comment'[k] \in Row
             /\ comment[k].idea # i => comment'[k] = comment[k]
             /\ comment[k].idea = i => comment'[k].status = "erased"
             /\ comment'[k].idea = comment[k].idea /\ comment'[k].parent = comment[k].parent
             /\ comment'[k].author = comment[k].author
    OBVIOUS
  <2>1. comment[k] \in Row
    BY DEF Inv, TypeOK
  <2>2. comment'[k] = IF comment[k].idea = i THEN [comment[k] EXCEPT !.status = "erased"]
                      ELSE comment[k]
    BY <1>4
  <2> QED
    BY <2>1, <2>2 DEF Row, Statuses
<1>6. TypeOK'
  <2>1. comment' \in [Comments -> Row]
    BY <1>4, <1>5
  <2>2. reaction' \in [Comments -> [Commenters -> Reactions \cup {NoReaction}]]
    BY <1>4 DEF Inv, TypeOK
  <2>3. vote' \in [Ideas -> SUBSET Voters]
    BY <1>1 DEF Inv, TypeOK
  <2>4. \A k \in Comments : comment'[k].status = "none" <=> comment'[k].idea = NoIdea
    BY <1>5, NullAssumption DEF Inv, TypeOK
  <2> QED
    BY <1>1, <1>2, <2>1, <2>2, <2>3, <2>4 DEF Inv, TypeOK
<1>7. ASSUME NEW k \in Comments PROVE RowOK(k)'
  <2> SUFFICES ASSUME comment'[k].status # "none" PROVE RowOK(k)'
    BY DEF RowOK
  <2> DEFINE parent == comment[k].parent
  <2>1. comment[k].status # "none"
    BY <1>5, NullAssumption DEF Inv, TypeOK
  <2>2. comment'[k].status # "erased" => comment[k].idea # i /\ Stored(comment[k].idea)
    BY <1>5, <2>1 DEF Inv, RowOK
  <2>3. ASSUME parent # NoComment
        PROVE  /\ comment'[parent].status # "none" /\ comment'[parent].idea = comment[k].idea
               /\ comment'[parent].parent = NoComment
               /\ comment'[k].status # "erased" => Exists(parent)'
    <3>1. /\ parent \in Comments /\ comment[parent].status # "none"
          /\ comment[parent].idea = comment[k].idea /\ comment[parent].parent = NoComment
          /\ comment[k].status # "erased" => Exists(parent)
      BY <2>1, <2>3, <1>5 DEF Inv, RowOK, Row
    <3>2. comment'[k].status # "erased" => comment[k].status # "erased" /\ comment'[parent] = comment[parent]
      BY <1>5, <3>1
    <3>3. comment'[parent].status # "none"
      BY <1>5, <3>1
    <3> QED
      BY <1>5, <3>1, <3>2, <3>3 DEF Exists
  <2>4. comment[k].idea \in Ideas /\ comment[k].idea \in shown /\ comment[k].author \in Commenters
    BY <2>1 DEF Inv, RowOK
  <2>5. comment'[k].status # "erased" => phase'[comment[k].idea] \in {"hidden", "public"}
    BY <1>2, <2>2, <2>4 DEF Stored
  <2> QED
    BY <1>2, <1>5, <2>3, <2>4, <2>5 DEF RowOK, Stored
<1>8. \A k \in Comments : ~Exists(k)' => \A u \in Commenters : reaction'[k][u] = NoReaction
  BY <1>4, <1>5 DEF Inv, Exists
<1>9. \A j \in Ideas : vote'[j] # {} => j \in shown' /\ phase'[j] # "gone"
  BY <1>1, <1>2 DEF Inv, TypeOK
<1>10. \A d \in Calls : Sound(req[d])'
  <2>1. \A k \in Comments : comment[k].status # "none" => comment'[k].status # "none"
    BY <1>5
  <2>2. \A r : r \in Request /\ Sound(r) => Sound(r)'
    BY <1>2, <1>5, <2>1 DEF Sound
  <2> QED
    BY <1>1, <2>2 DEF Inv, TypeOK, Sound
<1> QED
  BY <1>1, <1>2, <1>6, <1>7, <1>8, <1>9, <1>10 DEF Inv

\* Rows that keep who wrote them and where keep the other promises as well.
LEMMA InsertKeeps ==
  ASSUME Inv, NEW c \in Calls, Comment(c) \/ Reply(c)
  PROVE  Inv'
<1>1. UNCHANGED <<ideas, vote, reaction, answered, crashes>> /\ Answer(c)
  BY DEF Comment, Reply
<1>2. CASE UNCHANGED comment
  <2>1. req' \in [Calls -> Request] /\ \A d \in Calls : Sound(req'[d])
    BY <1>1, EndsSound
  <2> QED
    BY <1>1, <1>2, <2>1, WriteStep DEF Inv, TypeOK
<1>3. CASE comment' # comment
  <2>1. PICK k \in Comments, parent \in Comments \cup {NoComment} :
          /\ comment[k].status = "none" /\ Stored(req[c].idea)
          /\ parent # NoComment => /\ Exists(parent) /\ comment[parent].parent = NoComment
                                   /\ comment[parent].idea = req[c].idea
          /\ comment' = [comment EXCEPT ![k] =
               [NoRow EXCEPT !.status = "publicado", !.idea = req[c].idea, !.parent = parent,
                             !.author = req[c].user]]
    <3>1. CASE Comment(c)
      BY <1>3, <3>1 DEF Comment, Insert
    <3>2. CASE Reply(c)
      <4>1. /\ req[c].comment \in Comments /\ comment[req[c].comment].idea = req[c].idea
            /\ req[c].comment # NoComment
        BY <3>2, NullAssumption DEF Reply, At, Inv, Sound
      <4> QED
        BY <1>3, <3>2, <4>1 DEF Reply, Insert
    <3> QED
      BY <3>1, <3>2
  <2> DEFINE i == req[c].idea
             u == req[c].user
             row == [NoRow EXCEPT !.status = "publicado", !.idea = i, !.parent = parent, !.author = u]
  <2>2. i \in Ideas /\ i \in shown /\ u \in Commenters
    BY DEF Comment, Reply, At, Inv, Sound
  <2>3. /\ row \in Row /\ row.status = "publicado" /\ row.idea = i /\ row.parent = parent
        /\ row.author = u
    BY <2>2 DEF Row, NoRow, Statuses
  <2>4. comment' = [comment EXCEPT ![k] = row]
    BY <2>1
  <2> HIDE DEF row
  <2>5. /\ comment' \in [Comments -> Row] /\ comment'[k] = row
        /\ \A j \in Comments : j # k => comment'[j] = comment[j]
    BY <2>3, <2>4 DEF Inv, TypeOK
  <2>6. TypeOK'
    <3>1. req' \in [Calls -> Request]
      BY <1>1, EndsSound
    <3>2. \A j \in Comments : comment'[j].status = "none" <=> comment'[j].idea = NoIdea
      BY <2>2, <2>3, <2>5, NullAssumption DEF Inv, TypeOK
    <3> QED
      BY <1>1, <2>5, <3>1, <3>2 DEF Inv, TypeOK, ideas
  <2>7. \A j \in Comments : RowOK(j)'
    <3> SUFFICES ASSUME NEW j \in Comments PROVE RowOK(j)'
      OBVIOUS
    <3>1. CASE j = k
      <4>1. parent # NoComment => /\ parent \in Comments /\ comment'[parent] = comment[parent]
                                  /\ comment[parent].status # "none"
        BY <2>1, <2>5 DEF Exists
      <4> QED
        BY <1>1, <2>1, <2>2, <2>3, <2>5, <3>1, <4>1 DEF RowOK, Exists, Stored, ideas
    <3>2. CASE j # k
      <4>1. comment'[j] = comment[j] /\ comment[j] \in Row /\ RowOK(j)
        BY <2>5, <3>2 DEF Inv, TypeOK
      <4>2. comment[j].status # "none" /\ comment[j].parent # NoComment =>
              comment[j].parent \in Comments /\ comment'[comment[j].parent] = comment[comment[j].parent]
        BY <2>1, <2>5, <4>1 DEF RowOK, Row
      <4> QED
        BY <1>1, <4>1, <4>2 DEF RowOK, Exists, Stored, ideas
    <3> QED
      BY <3>1, <3>2
  <2>8. \A j \in Comments : ~Exists(j)' => \A v \in Commenters : reaction'[j][v] = NoReaction
    BY <1>1, <2>3, <2>5 DEF Inv, Exists
  <2>9. \A d \in Calls : Sound(req[d])'
    <3>1. \A r : r \in Request /\ Sound(r) => Sound(r)'
      BY <1>1, <2>1, <2>3, <2>5 DEF Sound, ideas
    <3>2. req' \in [Calls -> Request] /\ \A d \in Calls : Sound(req'[d])
      BY <1>1, EndsSound
    <3> QED
      BY <3>1, <3>2 DEF Sound
  <2>10. /\ \A j \in Ideas : phase'[j] = "public" => j \in shown'
         /\ \A j \in Ideas : vote'[j] # {} => j \in shown' /\ phase'[j] # "gone"
    BY <1>1 DEF Inv, ideas
  <2> QED
    BY <2>6, <2>7, <2>8, <2>9, <2>10 DEF Inv
<1> QED
  BY <1>2, <1>3

LEMMA ModerateKeeps == ASSUME Inv, NEW c \in Calls, Moderate(c) PROVE Inv'
<1> DEFINE k == req[c].comment
           u == req[c].user
           status == IF At(c, "hide") THEN "oculto" ELSE "publicado"
           row == IF Exists(k) THEN [comment[k] EXCEPT !.status = status, !.by = u] ELSE comment[k]
<1>1. /\ UNCHANGED <<ideas, vote, reaction, answered, crashes>>
      /\ comment' = [comment EXCEPT ![k] = row]
      /\ Sound(req[c]) /\ req[c].step \in {"hide", "restore"}
  BY DEF Moderate, At, Inv
<1>2. k \in Comments /\ u \in Moderators /\ comment[k].status # "none" /\ comment[k] \in Row
  BY <1>1 DEF Sound, Inv, TypeOK
<1>3. /\ row \in Row /\ row.idea = comment[k].idea /\ row.parent = comment[k].parent
      /\ row.author = comment[k].author
      /\ Exists(k) <=> row.status \in {"publicado", "oculto"}
      /\ row.status = "none" <=> comment[k].status = "none"
      /\ row.status = "erased" <=> comment[k].status = "erased"
  BY <1>2 DEF Row, Statuses, Exists
<1> HIDE DEF row
<1>4. /\ comment' \in [Comments -> Row] /\ comment'[k] = row
      /\ \A j \in Comments : j # k => comment'[j] = comment[j]
  BY <1>1, <1>2, <1>3 DEF Inv, TypeOK
<1>5. \A j \in Comments :
        /\ comment'[j].idea = comment[j].idea /\ comment'[j].parent = comment[j].parent
        /\ comment'[j].author = comment[j].author /\ (Exists(j)' <=> Exists(j))
        /\ comment'[j].status = "none" <=> comment[j].status = "none"
        /\ comment'[j].status = "erased" <=> comment[j].status = "erased"
  BY <1>3, <1>4 DEF Exists
<1>6. req' \in [Calls -> Request] /\ \A d \in Calls : Sound(req'[d])
  <2>1. CASE Answer(c)
    BY <2>1, EndsSound
  <2>2. CASE Goto(c, "audit")
    <3>1. /\ req' \in [Calls -> Request] /\ \A d \in Calls : d # c => req'[d] = req[d]
          /\ req'[c].step = "audit" /\ req'[c].user = u /\ req'[c].comment = k
      BY <2>2, CallProceeds DEF Steps, Inv
    <3>2. Sound(req'[c])
      BY <1>2, <3>1 DEF Sound
    <3> QED
      BY <3>1, <3>2 DEF Inv
  <2> QED
    BY <2>1, <2>2 DEF Moderate
<1>7. TypeOK'
  <2>1. \A j \in Comments : comment'[j].status = "none" <=> comment'[j].idea = NoIdea
    BY <1>5 DEF Inv, TypeOK
  <2> QED
    BY <1>1, <1>4, <1>6, <2>1 DEF Inv, TypeOK, ideas
<1>8. \A j \in Comments : RowOK(j)'
  <2> SUFFICES ASSUME NEW j \in Comments, comment[j].status # "none" PROVE RowOK(j)'
    BY <1>5 DEF RowOK
  <2>1. comment[j].parent # NoComment => comment[j].parent \in Comments
    BY DEF Inv, TypeOK, Row
  <2>2. RowOK(j)
    BY DEF Inv
  <2>3. comment'[j].status # "erased" => Stored(comment[j].idea)
    BY <1>5, <2>2 DEF RowOK
  <2>4. comment[j].parent # NoComment =>
          /\ comment'[comment[j].parent].status # "none"
          /\ comment'[comment[j].parent].idea = comment[j].idea
          /\ comment'[comment[j].parent].parent = NoComment
          /\ comment'[j].status # "erased" => Exists(comment[j].parent)
    BY <1>5, <2>1, <2>2 DEF RowOK
  <2>5. comment[j].parent # NoComment /\ Exists(comment[j].parent) =>
          comment'[comment[j].parent].status \in {"publicado", "oculto"}
    BY <1>5, <2>1 DEF Exists
  <2> QED
    BY <1>1, <1>5, <2>2, <2>3, <2>4, <2>5 DEF RowOK, Exists, Stored, ideas
<1>9. \A d \in Calls : Sound(req[d])'
  <2>1. \A r : r \in Request /\ Sound(r) => Sound(r)'
    BY <1>1, <1>5 DEF Sound, ideas
  <2> QED
    BY <1>6, <2>1 DEF Sound
<1>10. /\ \A j \in Comments : ~Exists(j)' => \A v \in Commenters : reaction'[j][v] = NoReaction
       /\ \A j \in Ideas : phase'[j] = "public" => j \in shown'
       /\ \A j \in Ideas : vote'[j] # {} => j \in shown' /\ phase'[j] # "gone"
  BY <1>1, <1>5 DEF Inv, ideas
<1> QED
  BY <1>7, <1>8, <1>9, <1>10 DEF Inv

LEMMA Step == Inv /\ [Next]_vars => Inv'
<1> SUFFICES ASSUME Inv, [Next]_vars PROVE Inv'
  OBVIOUS
<1>1. CASE \E i \in Ideas : Curate(i) \/ Erase(i)
  BY <1>1, CurateKeeps, EraseKeeps
<1>2. CASE \E c \in Calls : VoterStep(c)
  BY <1>2, VoteReadKeeps, VoteKeeps DEF VoterStep
<1>3. CASE \E c \in Calls : CommenterStep(c)
  BY <1>3, CommentReadKeeps, ReplyParentKeeps, InsertKeeps, ReactReadKeeps, ReactKeeps
  DEF CommenterStep
<1>4. CASE \E c \in Calls : ModeratorStep(c)
  BY <1>4, ModerateReadKeeps, ModerateKeeps, AfterKeeps DEF ModeratorStep
<1>5. CASE \E c \in Calls : Crash(c)
  BY <1>5, AfterKeeps
<1>6. CASE \E k \in Comments, u \in Commenters, r \in Reactions : Unreact(k, u, r)
  BY <1>6, ReactKeeps
<1>7. CASE UNCHANGED vars
  <2>1. UNCHANGED <<ideas, comment, vote, reaction, answered, req, crashes>>
    BY <1>7 DEF vars, tables
  <2> QED
    BY <2>1, WriteStep DEF Inv, TypeOK
<1> QED
  BY <1>1, <1>2, <1>3, <1>4, <1>5, <1>6, <1>7 DEF Next

LEMMA Invariant == Spec => []Inv
BY InitInv, Step, PTL DEF Spec

\* Every variable keeps its type; in particular a stored comment has an idea.
THEOREM TypeCorrect == Spec => []TypeOK
<1>1. Inv => TypeOK
  BY DEF Inv
<1> QED
  BY <1>1, Invariant, PTL

\* Whatever was on its way when an idea was erased, nothing of it stays.
THEOREM ErasedWhole == Spec => []NothingDangles
<1>1. Inv => NothingDangles
  <2> SUFFICES ASSUME Inv PROVE NothingDangles
    OBVIOUS
  <2>1. ASSUME NEW i \in Ideas, phase[i] = "gone" PROVE vote[i] = {}
    BY <2>1 DEF Inv
  <2>2. ASSUME NEW k \in Comments, Exists(k)
        PROVE  Stored(comment[k].idea) /\ (comment[k].parent # NoComment => Exists(comment[k].parent))
    BY <2>2 DEF Inv, RowOK, Exists
  <2>3. ASSUME NEW k \in Comments, ~Exists(k) PROVE \A u \in Commenters : reaction[k][u] = NoReaction
    BY <2>3 DEF Inv
  <2> QED
    BY <2>1, <2>2, <2>3 DEF NothingDangles
<1> QED
  BY <1>1, Invariant, PTL

\* Replies are one level deep and stay with the idea of what they reply to.
THEOREM RepliesOneLevel == Spec => []OneLevel
<1>1. Inv => OneLevel
  <2> SUFFICES ASSUME Inv, NEW k \in Comments, Exists(k), comment[k].parent # NoComment
      PROVE  /\ comment[comment[k].parent].parent = NoComment
             /\ comment[comment[k].parent].idea = comment[k].idea
    BY DEF OneLevel
  <2>1. comment[k].status # "none" /\ RowOK(k)
    BY DEF Inv, Exists
  <2> QED
    BY <2>1 DEF RowOK
<1> QED
  BY <1>1, Invariant, PTL

\* Votes and comments are only below ideas that were public.
THEOREM DiscussionShown == Spec => []DiscussedWasShown
<1>1. Inv => DiscussedWasShown
  <2> SUFFICES ASSUME Inv, NEW i \in Ideas PROVE
        /\ vote[i] # {} => i \in shown
        /\ \A k \in Comments : comment[k].idea = i => i \in shown
    BY DEF DiscussedWasShown
  <2>1. vote[i] # {} => i \in shown
    BY DEF Inv
  <2>2. ASSUME NEW k \in Comments, comment[k].idea = i PROVE i \in shown
    BY <2>2, NullAssumption DEF Inv, TypeOK, RowOK
  <2> QED
    BY <2>1, <2>2
<1> QED
  BY <1>1, Invariant, PTL

\* The hiding of a comment is answered for, or some call is about to: the one that
\* hid it last is at the audit row, or has written one and tells the author.
Answers(c, k) ==
    /\ req[c].comment = k
    /\ \/ req[c].step = "audit" /\ req[c].user = comment[k].by
       \/ req[c].step = "notify" /\ "audit" \in answered[k]

Answered(k) ==
    "audit" \in answered[k] /\ (comment[k].by # comment[k].author => "notice" \in answered[k])

AnswerInv ==
    \A k \in Comments : comment[k].status = "oculto" /\ crashes = 0 =>
        Answered(k) \/ \E c \in Calls : Answers(c, k)

\* A step that moderates nothing and ends no moderation keeps the answers.
LEMMA AnswersStay ==
  ASSUME AnswerInv, NEW k \in Comments, comment'[k].status = "oculto", crashes' = 0,
         crashes = 0, comment'[k] = comment[k], answered[k] \subseteq answered'[k],
         \A c \in Calls : Answers(c, k) => req'[c] = req[c]
  PROVE  Answered(k)' \/ \E c \in Calls : Answers(c, k)'
<1>1. CASE Answered(k)
  BY <1>1 DEF Answered
<1>2. CASE \E c \in Calls : Answers(c, k)
  BY <1>2 DEF Answers
<1> QED
  BY <1>1, <1>2 DEF AnswerInv

LEMMA AnswerStep == Inv /\ Inv' /\ AnswerInv /\ [Next]_vars => AnswerInv'
<1> SUFFICES ASSUME Inv, Inv', AnswerInv, [Next]_vars,
                    NEW k \in Comments, comment'[k].status = "oculto", crashes' = 0
             PROVE  Answered(k)' \/ \E c \in Calls : Answers(c, k)'
  BY DEF AnswerInv
<1>1. ASSUME NEW c \in Calls, Crash(c) PROVE FALSE
  BY <1>1 DEF Crash, Inv, TypeOK
<1>2. ASSUME UNCHANGED <<comment, answered, crashes>>,
             \A d \in Calls : req[d].step \in {"audit", "notify"} => req'[d] = req[d]
      PROVE  Answered(k)' \/ \E c \in Calls : Answers(c, k)'
  <2>1. \A d \in Calls : Answers(d, k) => req'[d] = req[d]
    BY <1>2 DEF Answers
  <2> QED
    BY <1>2, <2>1, AnswersStay
<1>3. ASSUME NEW i \in Ideas, Curate(i) \/ Erase(i)
      PROVE  Answered(k)' \/ \E c \in Calls : Answers(c, k)'
  <2>1. UNCHANGED <<answered, req, crashes>>
    BY <1>3 DEF Curate, Erase, tables
  <2>2. comment'[k] = comment[k]
    BY <1>3 DEF Curate, Erase, tables, Inv, TypeOK, Row
  <2> QED
    BY <2>1, <2>2, AnswersStay
<1>4. ASSUME NEW c \in Calls, VoterStep(c) \/ ModerateRead(c) \/ CommentRead(c) \/ ReplyParent(c)
                                \/ ReactRead(c) \/ React(c)
      PROVE  Answered(k)' \/ \E d \in Calls : Answers(d, k)'
  <2>1. UNCHANGED <<comment, answered, crashes>> /\ req[c].step \notin {"audit", "notify"}
    BY <1>4 DEF VoterStep, VoteRead, Vote, Unvote, ModerateRead, CommentRead, ReplyParent,
                ReactRead, React, Seen, At, tables
  <2>2. \A d \in Calls : d # c => req'[d] = req[d]
    BY <1>4 DEF VoterStep, VoteRead, Vote, Unvote, ModerateRead, CommentRead, ReplyParent,
                ReactRead, React, Enter, Goto, Answer, Inv, TypeOK
  <2> QED
    BY <1>2, <2>1, <2>2
<1>5. ASSUME NEW c \in Calls, Comment(c) \/ Reply(c)
      PROVE  Answered(k)' \/ \E d \in Calls : Answers(d, k)'
  <2>1. UNCHANGED <<answered, crashes>> /\ req[c].step \notin {"audit", "notify"}
    BY <1>5 DEF Comment, Reply, At
  <2>2. \A d \in Calls : d # c => req'[d] = req[d]
    BY <1>5 DEF Comment, Reply, Answer, Inv, TypeOK
  <2>3. comment'[k] = comment[k]
    <3>1. CASE UNCHANGED comment
      BY <3>1
    <3>2. ASSUME NEW j \in Comments, NEW parent,
                 comment' = [comment EXCEPT ![j] =
                   [NoRow EXCEPT !.status = "publicado", !.idea = req[c].idea,
                                 !.parent = parent, !.author = req[c].user]]
          PROVE  comment'[k] = comment[k]
      <4>1. j = k => comment'[k].status = "publicado"
        BY <3>2 DEF NoRow, Inv, TypeOK
      <4> QED
        BY <3>2, <4>1 DEF Inv, TypeOK
    <3> QED
      BY <1>5, <3>1, <3>2 DEF Comment, Reply, Insert
  <2>4. \A d \in Calls : Answers(d, k) => req'[d] = req[d]
    BY <2>1, <2>2 DEF Answers
  <2> QED
    BY <2>1, <2>3, <2>4, AnswersStay
<1>6. ASSUME NEW c \in Calls, Moderate(c)
      PROVE  Answered(k)' \/ \E d \in Calls : Answers(d, k)'
  <2>1. /\ UNCHANGED <<answered, crashes>> /\ req[c].step \in {"hide", "restore"}
        /\ req[c].comment \in Comments
    BY <1>6 DEF Moderate, At, Inv, Sound
  <2>2. \A d \in Calls : d # c => req'[d] = req[d]
    BY <1>6 DEF Moderate, Goto, Answer, Inv, TypeOK
  <2>3. CASE comment'[k] = comment[k]
    <3>1. \A d \in Calls : Answers(d, k) => req'[d] = req[d]
      BY <2>1, <2>2 DEF Answers
    <3> QED
      BY <2>1, <2>3, <3>1, AnswersStay
  <2>4. CASE comment'[k] # comment[k]
    <3>1. k = req[c].comment /\ Exists(k)
      BY <1>6, <2>1, <2>4 DEF Moderate, Inv, TypeOK
    <3>2. /\ req[c].step = "hide" /\ comment'[k].by = req[c].user
      BY <1>6, <2>1, <3>1 DEF Moderate, At, Inv, TypeOK, Row
    <3>3. req'[c].step = "audit" /\ req'[c].user = req[c].user /\ req'[c].comment = k
      BY <1>6, <3>1, <3>2, CallProceeds DEF Moderate, At, Inv, Steps
    <3> QED
      BY <3>2, <3>3 DEF Answers
  <2> QED
    BY <2>3, <2>4
<1>7. ASSUME NEW c \in Calls, Audit(c)
      PROVE  Answered(k)' \/ \E d \in Calls : Answers(d, k)'
  <2>1. UNCHANGED <<comment, crashes>> /\ req[c].step = "audit" /\ req[c].comment \in Comments
    BY <1>7 DEF Audit, At, Inv, Sound
  <2>2. \A d \in Calls : d # c => req'[d] = req[d]
    BY <1>7 DEF Audit, Goto, Answer, Inv, TypeOK
  <2>3. /\ answered[k] \subseteq answered'[k]
        /\ req[c].comment = k => "audit" \in answered'[k]
    BY <1>7, <2>1 DEF Audit, Inv, TypeOK
  <2>4. CASE Answers(c, k)
    <3>1. req[c].comment = k /\ req[c].user = comment[k].by
      BY <2>1, <2>4 DEF Answers
    <3>2. CASE comment[k].author # req[c].user
      <4>1. req'[c].step = "notify" /\ req'[c].comment = k
        BY <1>7, <3>1, <3>2, CallProceeds DEF Audit, Inv, Steps
      <4> QED
        BY <2>3, <3>1, <4>1 DEF Answers
    <3>3. CASE comment[k].author = req[c].user
      BY <2>1, <2>3, <3>1, <3>3 DEF Answered
    <3> QED
      BY <3>2, <3>3
  <2>5. CASE ~Answers(c, k)
    BY <2>1, <2>2, <2>3, <2>5, AnswersStay
  <2> QED
    BY <2>4, <2>5
<1>8. ASSUME NEW c \in Calls, Notify(c)
      PROVE  Answered(k)' \/ \E d \in Calls : Answers(d, k)'
  <2>1. UNCHANGED <<comment, crashes>> /\ req[c].step = "notify" /\ req[c].comment \in Comments
    BY <1>8 DEF Notify, At, Inv, Sound
  <2>2. \A d \in Calls : d # c => req'[d] = req[d]
    BY <1>8 DEF Notify, Answer, Inv, TypeOK
  <2>3. /\ answered[k] \subseteq answered'[k]
        /\ req[c].comment = k => "notice" \in answered'[k]
    BY <1>8, <2>1 DEF Notify, Inv, TypeOK
  <2>4. CASE Answers(c, k)
    BY <2>1, <2>3, <2>4 DEF Answers, Answered
  <2>5. CASE ~Answers(c, k)
    BY <2>1, <2>2, <2>3, <2>5, AnswersStay
  <2> QED
    BY <2>4, <2>5
<1>9. CASE (\E j \in Comments, u \in Commenters, r \in Reactions : Unreact(j, u, r)) \/ UNCHANGED vars
  BY <1>2, <1>9 DEF Unreact, vars, tables
<1> QED
  BY <1>1, <1>3, <1>4, <1>5, <1>6, <1>7, <1>8, <1>9
  DEF Next, VoterStep, CommenterStep, ModeratorStep

\* While no call dies, hidden comments are audited and their authors told, however
\* many moderators overlap.
THEOREM HidingAnswered == Spec => []HidingIsAnswered
<1>1. Init => AnswerInv
  BY DEF Init, AnswerInv, NoRow
<1>2. AnswerInv => HidingIsAnswered
  BY DEF AnswerInv, HidingIsAnswered, Answered, Answers
<1> QED
  BY <1>1, <1>2, AnswerStep, Invariant, PTL DEF Spec
====
