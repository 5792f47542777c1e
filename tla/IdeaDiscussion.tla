---------------------------- MODULE IdeaDiscussion ----------------------------
(***************************************************************************)
(* What people say below an idea: votes, comments, replies, reactions and  *)
(* their moderation (src/app/services/idea_service.py, over the tables of  *)
(* src/docs/migrations/027_ideas_roadmap_foundation.sql).                  *)
(*                                                                         *)
(* The ideas themselves are those of IdeaLife, which IdeaCuration          *)
(* implements: this module composes with the promise, not with the         *)
(* handlers that keep it.  An action is one SQL statement of a call with   *)
(* the Python that follows it; an idea may be hidden or erased between any *)
(* two of them.  The row of a restored comment in the audit trail, and the *)
(* reason of a moderation, which nothing reads, are left out.              *)
(***************************************************************************)
EXTENDS Naturals

CONSTANTS
    Ideas, Comments, Calls,
    Voters, Commenters, Moderators,   \* users whose role has each permission
    Reactions,
    NoIdea, NoComment, NoUser, NoReaction,
    MaxCrashes   \* bound: calls that die between two statements

Users == Voters \cup Commenters \cup Moderators

ASSUME NullAssumption ==
    NoIdea \notin Ideas /\ NoComment \notin Comments /\ NoUser \notin Users /\ NoReaction \notin Reactions
ASSUME BoundAssumption == MaxCrashes \in Nat

VARIABLES
    phase, shown,  \* the ideas: see IdeaLife
    vote,      \* idea_votes: who votes for each idea
    comment,   \* rows of idea_comments
    reaction,  \* idea_comment_reactions: of each comment, by user
    answered,  \* what followed the hiding of each comment: its audit row, its notice
    req,       \* what a call remembers between its statements
    crashes

ideas  == <<phase, shown>>
tables == <<vote, comment, reaction, answered>>
vars   == <<ideas, tables, req, crashes>>

Life == INSTANCE IdeaLife

Statuses == {"none", "publicado", "oculto", "erased"}

\* by stands for moderated_by.
Row == [status : Statuses, idea : Ideas \cup {NoIdea}, parent : Comments \cup {NoComment},
        author : Commenters \cup {NoUser}, by : Moderators \cup {NoUser}]

NoRow == [status |-> "none", idea |-> NoIdea, parent |-> NoComment, author |-> NoUser, by |-> NoUser]

Steps == {"idle", "vote", "unvote", "comment", "reply_parent", "reply", "react",
          "hide", "restore", "audit", "notify"}

\* comment is the one replied to, reacted to or moderated.
Request == [step : Steps, user : Users \cup {NoUser}, idea : Ideas \cup {NoIdea},
            comment : Comments \cup {NoComment}, reaction : Reactions \cup {NoReaction}]

Idle == [step |-> "idle", user |-> NoUser, idea |-> NoIdea, comment |-> NoComment,
         reaction |-> NoReaction]

TypeOK ==
    /\ phase \in [Ideas -> {"none", "hidden", "public", "gone"}]
    /\ shown \subseteq Ideas
    /\ vote \in [Ideas -> SUBSET Voters]
    /\ comment \in [Comments -> Row]
    /\ reaction \in [Comments -> [Commenters -> Reactions \cup {NoReaction}]]
    /\ answered \in [Comments -> SUBSET {"audit", "notice"}]
    /\ req \in [Calls -> Request]
    /\ crashes \in Nat
    /\ \A k \in Comments : comment[k].status = "none" <=> comment[k].idea = NoIdea

Init ==
    /\ Life!Init
    /\ vote = [i \in Ideas |-> {}]
    /\ comment = [k \in Comments |-> NoRow]
    /\ reaction = [k \in Comments |-> [u \in Commenters |-> NoReaction]]
    /\ answered = [k \in Comments |-> {}]
    /\ req = [c \in Calls |-> Idle]
    /\ crashes = 0

-----------------------------------------------------------------------------

At(c, step)     == req[c].step = step
Enter(c, r)     == req' = [req EXCEPT ![c] = r]
Goto(c, step)   == req' = [req EXCEPT ![c].step = step]
Answer(c)       == req' = [req EXCEPT ![c] = Idle]

Exists(k)       == comment[k].status \in {"publicado", "oculto"}
Stored(i)   == phase[i] \in {"hidden", "public"}

\* A call that has read an idea or a comment goes on to step.
Serving(step, u, i, k) ==
    [Idle EXCEPT !.step = step, !.user = u, !.idea = i, !.comment = k]

Seen == UNCHANGED <<ideas, tables, crashes>>

-----------------------------------------------------------------------------
(* The ideas *)

\* Curation: an idea appears, is shown or is hidden.
Curate(i) ==
    /\ Life!Appear(i) \/ Life!Show(i) \/ Life!Hide(i)
    /\ UNCHANGED <<tables, req, crashes>>

\* Mutation: the foreign key of the votes does not cascade.
EraseButVotes(i) ==
    /\ Life!Vanish(i)
    /\ LET below == {k \in Comments : comment[k].idea = i} IN
        /\ comment' = [k \in Comments |->
                          IF k \in below THEN [comment[k] EXCEPT !.status = "erased"] ELSE comment[k]]
        /\ reaction' = [k \in Comments |->
                          IF k \in below THEN [u \in Commenters |-> NoReaction] ELSE reaction[k]]
    /\ UNCHANGED <<vote, answered, req, crashes>>

\* The row of the idea is deleted: ON DELETE CASCADE takes its votes, its comments
\* and their reactions.
Erase(i) ==
    /\ Life!Vanish(i)
    /\ vote' = [vote EXCEPT ![i] = {}]
    /\ LET below == {k \in Comments : comment[k].idea = i} IN
        /\ comment' = [k \in Comments |->
                          IF k \in below THEN [comment[k] EXCEPT !.status = "erased"] ELSE comment[k]]
        /\ reaction' = [k \in Comments |->
                          IF k \in below THEN [u \in Commenters |-> NoReaction] ELSE reaction[k]]
    /\ UNCHANGED <<answered, req, crashes>>

-----------------------------------------------------------------------------
(* Votes *)

\* Mutation: whether the idea is published is not looked at.
VoteReadAny(c) ==
    /\ At(c, "idle")
    /\ \E i \in Ideas, u \in Voters, step \in {"vote", "unvote"} :
        Stored(i) /\ Enter(c, Serving(step, u, i, NoComment))
    /\ Seen

\* add_vote and remove_vote: the idea is read.
VoteRead(c) ==
    /\ At(c, "idle")
    /\ \E i \in Ideas, u \in Voters, step \in {"vote", "unvote"} :
        phase[i] = "public" /\ Enter(c, Serving(step, u, i, NoComment))
    /\ Seen

\* INSERT INTO idea_votes ... ON CONFLICT DO NOTHING; without the idea the foreign
\* key is violated.
Vote(c) ==
    /\ At(c, "vote")
    /\ LET i == req[c].idea IN
        vote' = [vote EXCEPT ![i] = IF Stored(i) THEN @ \cup {req[c].user} ELSE @]
    /\ Answer(c)
    /\ UNCHANGED <<ideas, comment, reaction, answered, crashes>>

\* DELETE FROM idea_votes.
Unvote(c) ==
    /\ At(c, "unvote")
    /\ vote' = [vote EXCEPT ![req[c].idea] = @ \ {req[c].user}]
    /\ Answer(c)
    /\ UNCHANGED <<ideas, comment, reaction, answered, crashes>>

-----------------------------------------------------------------------------
(* Comments and replies *)

\* create_comment and create_reply: _ensure_public_idea.  The comment replied to is
\* any that the caller has seen.
CommentRead(c) ==
    /\ At(c, "idle")
    /\ \E i \in Ideas, u \in Commenters :
        /\ phase[i] = "public"
        /\ \/ Enter(c, Serving("comment", u, i, NoComment))
           \/ \E k \in Comments : comment[k].status # "none"
                                  /\ Enter(c, Serving("reply_parent", u, i, k))
    /\ Seen

\* create_reply: the parent is a published comment of this idea, and no reply.
ReplyParent(c) ==
    /\ At(c, "reply_parent")
    /\ LET parent == comment[req[c].comment] IN
        IF parent.status = "publicado" /\ parent.idea = req[c].idea /\ parent.parent = NoComment
        THEN Goto(c, "reply") ELSE Answer(c)
    /\ Seen

\* INSERT INTO idea_comments.  The foreign keys want the idea and the parent; the
\* trigger idea_comments_prevent_nested_replies a parent that is no reply.
Insert(c, parent) ==
    IF /\ Stored(req[c].idea)
       /\ parent # NoComment => Exists(parent) /\ comment[parent].parent = NoComment
    THEN \E k \in Comments :
            /\ comment[k].status = "none"
            /\ comment' = [comment EXCEPT ![k] =
                  [NoRow EXCEPT !.status = "publicado", !.idea = req[c].idea, !.parent = parent,
                                !.author = req[c].user]]
    ELSE UNCHANGED comment

\* create_comment.
Comment(c) ==
    /\ At(c, "comment") /\ Insert(c, NoComment) /\ Answer(c)
    /\ UNCHANGED <<ideas, vote, reaction, answered, crashes>>

\* create_reply.
Reply(c) ==
    /\ At(c, "reply") /\ Insert(c, req[c].comment) /\ Answer(c)
    /\ UNCHANGED <<ideas, vote, reaction, answered, crashes>>

-----------------------------------------------------------------------------
(* Reactions *)

\* set_comment_reaction: the comment and its idea are read.
ReactRead(c) ==
    /\ At(c, "idle")
    /\ \E k \in Comments, u \in Commenters, r \in Reactions :
        /\ comment[k].status = "publicado" /\ phase[comment[k].idea] = "public"
        /\ Enter(c, [Serving("react", u, comment[k].idea, k) EXCEPT !.reaction = r])
    /\ Seen

\* INSERT INTO idea_comment_reactions ... DO UPDATE; without the comment the foreign
\* key is violated.
React(c) ==
    /\ At(c, "react")
    /\ LET k == req[c].comment IN
        reaction' = [reaction EXCEPT ![k][req[c].user] = IF Exists(k) THEN req[c].reaction ELSE @]
    /\ Answer(c)
    /\ UNCHANGED <<ideas, vote, comment, answered, crashes>>

\* remove_comment_reaction: one DELETE, which looks at nothing else.
Unreact(k, u, r) ==
    /\ reaction[k][u] = r
    /\ reaction' = [reaction EXCEPT ![k][u] = NoReaction]
    /\ UNCHANGED <<ideas, vote, comment, answered, req, crashes>>

-----------------------------------------------------------------------------
(* Moderation *)

\* moderate_comment: SELECT * FROM idea_comments, whatever its status or its idea's.
ModerateRead(c) ==
    /\ At(c, "idle")
    /\ \E k \in Comments, u \in Moderators, step \in {"hide", "restore"} :
        Exists(k) /\ Enter(c, Serving(step, u, comment[k].idea, k))
    /\ Seen

\* UPDATE idea_comments ... WHERE id = $1.
Moderate(c) ==
    /\ At(c, "hide") \/ At(c, "restore")
    /\ LET k == req[c].comment
           status == IF At(c, "hide") THEN "oculto" ELSE "publicado"
       IN comment' = [comment EXCEPT ![k] =
             IF Exists(k) THEN [@ EXCEPT !.status = status, !.by = req[c].user] ELSE @]
    /\ IF At(c, "hide") THEN Goto(c, "audit") ELSE Answer(c)
    /\ UNCHANGED <<ideas, vote, reaction, answered, crashes>>

\* Mutation: the moderator is compared with moderated_by.
AuditByLast(c) ==
    /\ At(c, "audit")
    /\ answered' = [answered EXCEPT ![req[c].comment] = @ \cup {"audit"}]
    /\ IF comment[req[c].comment].by # req[c].user THEN Goto(c, "notify") ELSE Answer(c)
    /\ UNCHANGED <<ideas, vote, comment, reaction, crashes>>

\* log_audit, and whether the author is to be told.
Audit(c) ==
    /\ At(c, "audit")
    /\ answered' = [answered EXCEPT ![req[c].comment] = @ \cup {"audit"}]
    /\ IF comment[req[c].comment].author # req[c].user THEN Goto(c, "notify") ELSE Answer(c)
    /\ UNCHANGED <<ideas, vote, comment, reaction, crashes>>

\* create_notification.
Notify(c) ==
    /\ At(c, "notify")
    /\ answered' = [answered EXCEPT ![req[c].comment] = @ \cup {"notice"}]
    /\ Answer(c)
    /\ UNCHANGED <<ideas, vote, comment, reaction, crashes>>

-----------------------------------------------------------------------------

\* A call dies between two statements.
Crash(c) ==
    /\ ~At(c, "idle") /\ crashes < MaxCrashes
    /\ Answer(c)
    /\ crashes' = crashes + 1
    /\ UNCHANGED <<ideas, tables>>

VoterStep(c)     == VoteRead(c) \/ Vote(c) \/ Unvote(c)
CommenterStep(c) == CommentRead(c) \/ ReplyParent(c) \/ Comment(c) \/ Reply(c) \/ ReactRead(c) \/ React(c)
ModeratorStep(c) == ModerateRead(c) \/ Moderate(c) \/ Audit(c) \/ Notify(c)

Next ==
    \/ \E i \in Ideas : Curate(i) \/ Erase(i)
    \/ \E c \in Calls : VoterStep(c) \/ CommenterStep(c) \/ ModeratorStep(c) \/ Crash(c)
    \/ \E k \in Comments, u \in Commenters, r \in Reactions : Unreact(k, u, r)

Spec == Init /\ [][Next]_vars

-----------------------------------------------------------------------------
(* Properties *)

\* Nothing is left below an idea that was erased, though calls were on their way with
\* a vote, a comment or a reaction when it went.
NothingDangles ==
    /\ \A i \in Ideas : phase[i] = "gone" => vote[i] = {}
    /\ \A k \in Comments :
        /\ Exists(k) => Stored(comment[k].idea)
        /\ Exists(k) /\ comment[k].parent # NoComment => Exists(comment[k].parent)
        /\ ~Exists(k) => \A u \in Commenters : reaction[k][u] = NoReaction

\* Replies go one level deep, below a comment on the same idea: the listing, which
\* hangs each reply on a comment of the idea it lists, reaches every one.
OneLevel ==
    \A k \in Comments : LET parent == comment[k].parent IN
        Exists(k) /\ parent # NoComment => /\ comment[parent].parent = NoComment
                                           /\ comment[parent].idea = comment[k].idea

\* Nobody votes for or comments on an idea that was never public.
DiscussedWasShown ==
    \A i \in Ideas :
        vote[i] # {} \/ (\E k \in Comments : comment[k].idea = i) => i \in shown

\* When no call has died, a comment that is hidden and that no call works on is
\* audited as hidden, and its author knows unless the author hid it: moderators that
\* overlap do not lose one another's notices.
HidingIsAnswered ==
    \A k \in Comments :
        /\ comment[k].status = "oculto" /\ crashes = 0
        /\ \A c \in Calls : req[c].comment # k
        => /\ "audit" \in answered[k]
           /\ comment[k].by # comment[k].author => "notice" \in answered[k]
=============================================================================
