----------------------------- MODULE CatalogueUse -----------------------------
(***************************************************************************)
(* What people do with the published prompts and MCP servers: reviews and  *)
(* their moderation, ratings, favourites, installations and uses; and the  *)
(* life of a server with its parts (src/app/routers/prompts.py, mcp.py,    *)
(* the triggers of src/docs/migrations/012_mcp_catalog.sql and             *)
(* 015_prompt_reviews.sql).                                                *)
(*                                                                         *)
(* The handlers of prompts and of servers are twins, and so are their      *)
(* triggers: an operator with a kind of items stands for both.  An action  *)
(* is one statement with the Python that follows it, except the writing of *)
(* a review.  Its trigger takes a snapshot of the reviews and then stores  *)
(* what it computed in the row of the item, for which it may have to wait  *)
(* while another statement stores its own: Write takes the snapshot, Commit*)
(* stores it.  Texts, categories and the content of the parts are left out,*)
(* and installations are counted from those a migration starts with.       *)
(***************************************************************************)
EXTENDS Naturals, FiniteSets, FiniteSetsExt

CONSTANTS
    Prompts, Servers, Users, Calls,
    Ratings,       \* 1..5, or fewer
    Parts,         \* bound: ids for tools, agents, resources and snippets
    NoReview, NoItem, NoUser,
    MaxItems,      \* bound: items ever created
    MaxRows,       \* bound: favourites, installations and parts of an item
    MaxUses        \* bound: uses of a prompt

Items == Prompts \cup Servers

ASSUME KindAssumption == Prompts \cap Servers = {}
ASSUME NullAssumption ==
    /\ NoReview \notin [rating : Ratings, approved : BOOLEAN]
    /\ NoItem \notin Items /\ NoUser \notin Users
ASSUME UserAssumption == IsFiniteSet(Users)
ASSUME NumberAssumption ==
    Ratings \subseteq 1..5 /\ {MaxItems, MaxRows, MaxUses} \subseteq Nat

VARIABLES
    item,       \* whether an item is shown in its catalogue
    part,       \* rows of mcp_tools, mcp_agents, mcp_resources, mcp_config_snippets
    review,     \* prompt_reviews, mcp_reviews: of each item, by user
    rating,     \* rating_count, and the sum of which rating_avg is the mean
    favourite,  \* prompt_favorites, mcp_favorites: users of each item
    installed,  \* mcp_installations: users of each server
    used,       \* prompt_usages: rows of each prompt
    counter,    \* install_count of a server, usage_count of a prompt
    alone,      \* items whose last stored rating no other review overtook
    meant,      \* what the last moderator of a review meant, or that two crossed
    req

usage  == <<favourite, installed, used, counter>>
opinion == <<review, rating, alone, meant>>
vars   == <<item, part, opinion, usage, req>>

Tables == {"tools", "agents", "resources", "snippets"}
Review == [rating : Ratings, approved : BOOLEAN]
Tallies == [count : Nat, sum : Nat]

Steps == {"idle", "favour", "unfavour", "use", "erase", "moderate", "commit"}

\* row and tally are what a review under way will store; fresh, that no other review of
\* the item was stored since its snapshot; saw and valid, what a moderator's page
\* showed, and that the review it showed still exists.
Request == [step : Steps, item : Items \cup {NoItem}, user : Users \cup {NoUser},
            row : Review \cup {NoReview}, tally : Tallies, fresh : BOOLEAN,
            saw : BOOLEAN, valid : BOOLEAN, means : {"shown", "hidden", "crossed"}]

\* Nothing counted.
Zero == [count |-> 0, sum |-> 0]

Idle == [step |-> "idle", item |-> NoItem, user |-> NoUser, row |-> NoReview, tally |-> Zero,
         fresh |-> TRUE, saw |-> TRUE, valid |-> TRUE, means |-> "shown"]

TypeOK ==
    /\ item \in [Items -> {"none", "shown", "hidden", "gone"}]
    /\ part \in [Servers -> [Tables -> SUBSET Parts]]
    /\ review \in [Items -> [Users -> Review \cup {NoReview}]]
    /\ rating \in [Items -> Tallies]
    /\ favourite \in [Items -> SUBSET Users]
    /\ installed \in [Servers -> SUBSET Users]
    /\ used \in [Prompts -> Nat]
    /\ counter \in [Items -> Nat]
    /\ alone \subseteq Items
    /\ meant \in [Items -> [Users -> {"shown", "hidden", "crossed"}]]
    /\ req \in [Calls -> Request]

Init ==
    /\ item = [i \in Items |-> "none"]
    /\ part = [s \in Servers |-> [t \in Tables |-> {}]]
    /\ review = [i \in Items |-> [u \in Users |-> NoReview]]
    /\ rating = [i \in Items |-> Zero]
    /\ favourite = [i \in Items |-> {}]
    /\ installed = [s \in Servers |-> {}]
    /\ used = [p \in Prompts |-> 0]
    /\ counter = [i \in Items |-> 0]
    /\ alone = Items
    /\ meant = [i \in Items |-> [u \in Users |-> "shown"]]
    /\ req = [c \in Calls |-> Idle]

-----------------------------------------------------------------------------

At(c, step) == req[c].step = step
Enter(c, r) == req' = [req EXCEPT ![c] = r]
Answer(c)   == Enter(c, Idle)

Exists(i) == item[i] \in {"shown", "hidden"}
Created   == {i \in Items : item[i] # "none"}

\* Room, within the bound, for one more row below an item.
Room(i) ==
    LET below == IF i \in Servers
                 THEN Cardinality(installed[i]) + Cardinality(UNION {part[i][t] : t \in Tables})
                 ELSE 0
    IN Cardinality(favourite[i]) + below < MaxRows

\* The gallery: what it lists, opens and lets be used.
Listed == {p \in Prompts : item[p] = "shown"}

\* A call that goes on to step with an item and a user.
Serving(step, i, u) == [Idle EXCEPT !.step = step, !.item = i, !.user = u]

-----------------------------------------------------------------------------
(* The items *)

CreatePrompt(p) ==
    /\ item[p] = "none" /\ Cardinality(Created) < MaxItems
    /\ \E visible \in {"shown", "hidden"} : item' = [item EXCEPT ![p] = visible]
    /\ UNCHANGED <<part, opinion, usage, req>>

\* An administrator's update or deletion, or the curation of PromptCuration.
UpdatePrompt(p) ==
    /\ Exists(p)
    /\ \E visible \in {"shown", "hidden"} : item' = [item EXCEPT ![p] = visible]
    /\ UNCHANGED <<part, opinion, usage, req>>

CreateServer(s) ==
    /\ item[s] = "none" /\ Cardinality(Created) < MaxItems
    /\ item' = [item EXCEPT ![s] = "shown"]
    /\ UNCHANGED <<part, opinion, usage, req>>

\* Mutation: without AND is_active = TRUE in the WHERE.
UpdateAny(s) ==
    /\ Exists(s)
    /\ \E visible \in {"shown", "hidden"} : item' = [item EXCEPT ![s] = visible]
    /\ UNCHANGED <<part, opinion, usage, req>>

\* update_server: is_active is among the fields of its body.
UpdateServer(s) ==
    /\ item[s] = "shown"
    /\ \E visible \in {"shown", "hidden"} : item' = [item EXCEPT ![s] = visible]
    /\ UNCHANGED <<part, opinion, usage, req>>

DeleteServer(s) ==
    /\ Exists(s)
    /\ item' = [item EXCEPT ![s] = "hidden"]
    /\ UNCHANGED <<part, opinion, usage, req>>

\* permanent_delete_server: the server is read.
EraseRead(c) ==
    /\ At(c, "idle")
    /\ \E s \in Servers : item[s] = "hidden" /\ Enter(c, Serving("erase", s, NoUser))
    /\ UNCHANGED <<item, part, opinion, usage>>

\* The reviews under way, of user u or of anybody.
Reviewing(i)     == {c \in Calls : At(c, "commit") /\ req[c].item = i}
ReviewOf(i, u)   == {c \in Reviewing(i) : req[c].user = u}

\* A moderator's page with a review of users us of i shows one that is gone.
Outdated(i, us) ==
    {c \in Calls : At(c, "moderate") /\ req[c].item = i /\ req[c].user \in us}

\* DELETE FROM mcp_servers, with ON DELETE CASCADE; it waits for the reviews under way.
EraseRow(c) ==
    /\ At(c, "erase")
    /\ LET s == req[c].item IN
        IF Exists(s)
        THEN /\ Reviewing(s) = {}
             /\ item' = [item EXCEPT ![s] = "gone"]
             /\ part' = [part EXCEPT ![s] = [t \in Tables |-> {}]]
             /\ review' = [review EXCEPT ![s] = [u \in Users |-> NoReview]]
             /\ rating' = [rating EXCEPT ![s] = Zero]
             /\ favourite' = [favourite EXCEPT ![s] = {}]
             /\ installed' = [installed EXCEPT ![s] = {}]
             /\ counter' = [counter EXCEPT ![s] = 0]
             /\ meant' = [meant EXCEPT ![s] = [u \in Users |-> "shown"]]
             /\ alone' = alone \cup {s}
             /\ req' = [d \in Calls |->
                           IF d = c THEN Idle
                           ELSE IF d \in Outdated(s, Users) THEN [req[d] EXCEPT !.valid = FALSE]
                           ELSE req[d]]
        ELSE Answer(c) /\ UNCHANGED <<item, part, opinion, favourite, installed, counter>>
    /\ UNCHANGED used

\* Creation and deletion of a row of table t of a server, whether it is active or not;
\* an update changes none of what is kept here.
EditParts(t, s) ==
    /\ \/ /\ Exists(s) /\ Room(s)
          /\ \E x \in Parts \ UNION {part[s][k] : k \in Tables} : part' = [part EXCEPT ![s][t] = @ \cup {x}]
       \/ \E x \in part[s][t] : part' = [part EXCEPT ![s][t] = @ \ {x}]
    /\ UNCHANGED <<item, opinion, usage, req>>

Tools(s)     == EditParts("tools", s)
Agents(s)    == EditParts("agents", s)
Resources(s) == EditParts("resources", s)
Snippets(s)  == EditParts("snippets", s)

-----------------------------------------------------------------------------
(* Favourites, installations and uses *)

\* toggle_favorite: whether the item is a favourite is read.
FavouriteRead(c, kind) ==
    /\ At(c, "idle")
    /\ \E i \in kind, u \in Users :
        /\ Exists(i)
        /\ Enter(c, Serving(IF u \in favourite[i] THEN "unfavour" ELSE "favour", i, u))
    /\ UNCHANGED <<item, part, opinion, usage>>

FavouritePrompt(c) == FavouriteRead(c, Prompts)
FavouriteServer(c) == FavouriteRead(c, Servers)

\* INSERT: the foreign key fails without the item, the primary key on a second click.
FavouriteAdd(c) ==
    /\ At(c, "favour") /\ (req[c].user \in favourite[req[c].item] \/ Room(req[c].item))
    /\ favourite' = [favourite EXCEPT ![req[c].item] =
                        IF Exists(req[c].item) THEN @ \cup {req[c].user} ELSE @]
    /\ Answer(c)
    /\ UNCHANGED <<item, part, opinion, installed, used, counter>>

FavouriteRemove(c) ==
    /\ At(c, "unfavour")
    /\ favourite' = [favourite EXCEPT ![req[c].item] = @ \ {req[c].user}]
    /\ Answer(c)
    /\ UNCHANGED <<item, part, opinion, installed, used, counter>>

\* Mutation: the trigger counts the update of ON CONFLICT too.
InstallCounted(s, u) ==
    /\ Exists(s) /\ (u \in installed[s] \/ Room(s))
    /\ installed' = [installed EXCEPT ![s] = @ \cup {u}]
    /\ counter' = [counter EXCEPT ![s] = @ + 1]
    /\ UNCHANGED <<item, part, opinion, favourite, used, req>>

\* register_install: the trigger counts an INSERT, not the update of ON CONFLICT.
Install(s, u) ==
    /\ Exists(s) /\ (u \in installed[s] \/ Room(s))
    /\ installed' = [installed EXCEPT ![s] = @ \cup {u}]
    /\ counter' = [counter EXCEPT ![s] = IF u \in installed[s] THEN @ ELSE @ + 1]
    /\ UNCHANGED <<item, part, opinion, favourite, used, req>>

\* remove_install: only a row deleted takes one from the counter.
Uninstall(s, u) ==
    /\ u \in installed[s]
    /\ installed' = [installed EXCEPT ![s] = @ \ {u}]
    /\ counter' = [counter EXCEPT ![s] = IF @ > 0 THEN @ - 1 ELSE 0]
    /\ UNCHANGED <<item, part, opinion, favourite, used, req>>

\* use_prompt: the text is read.
UseRead(c) ==
    /\ At(c, "idle")
    /\ \E p \in Listed, u \in Users : Enter(c, Serving("use", p, u))
    /\ UNCHANGED <<item, part, opinion, usage>>

\* The use is recorded, whether the prompt is still listed or not; a trigger counts it.
UseInsert(c) ==
    /\ At(c, "use")
    /\ LET p == req[c].item IN
        /\ used[p] < MaxUses
        /\ used' = [used EXCEPT ![p] = @ + 1]
        /\ counter' = [counter EXCEPT ![p] = @ + 1]
    /\ Answer(c)
    /\ UNCHANGED <<item, part, opinion, favourite, installed>>

-----------------------------------------------------------------------------
(* Reviews *)

\* The sum of the ratings in rows of the users given.
Total(rows, given) == MapThenSumSet(LAMBDA u : rows[u].rating, given)

\* Mutation: the triggers count hidden reviews too.
TallyAll(rows) ==
    LET given == {u \in Users : rows[u] # NoReview} IN
    [count |-> Cardinality(given), sum |-> Total(rows, given)]

\* update_prompt_rating and update_mcp_server_rating.
Tally(rows) ==
    LET given == {u \in Users : rows[u] # NoReview /\ rows[u].approved} IN
    [count |-> Cardinality(given), sum |-> Total(rows, given)]

\* The row of a review of i by u is written and its trigger takes its snapshot, which
\* has this row and those committed.  Another statement on the row has to end first.
Write(c, i, u, row, means) ==
    /\ ReviewOf(i, u) = {}
    /\ Enter(c, [Serving("commit", i, u) EXCEPT
                    !.row = row, !.means = means,
                    !.tally = Tally([review[i] EXCEPT ![u] = row])])
    /\ UNCHANGED <<item, part, opinion, usage>>

\* Mutation: a review written again is shown again.
SubmitAnew(c, kind) ==
    /\ At(c, "idle")
    /\ \E i \in kind, u \in Users, n \in Ratings :
        /\ Exists(i)
        /\ IF review[i][u] = NoReview
           THEN Write(c, i, u, [rating |-> n, approved |-> TRUE], "shown")
           ELSE Write(c, i, u, [rating |-> n, approved |-> TRUE], meant[i][u])

\* A review is written, or written again: what a moderator decided on it stands.
Submit(c, kind) ==
    /\ At(c, "idle")
    /\ \E i \in kind, u \in Users, n \in Ratings :
        /\ Exists(i)
        /\ IF review[i][u] = NoReview
           THEN Write(c, i, u, [rating |-> n, approved |-> TRUE], "shown")
           ELSE Write(c, i, u, [review[i][u] EXCEPT !.rating = n], meant[i][u])

SubmitReview(c) == Submit(c, Prompts)
UpsertReview(c) == Submit(c, Servers)

\* A moderator is shown a review.
ModerateRead(c, kind) ==
    /\ At(c, "idle")
    /\ \E i \in kind, u \in Users :
        /\ review[i][u] # NoReview
        /\ Enter(c, [Serving("moderate", i, u) EXCEPT !.saw = review[i][u].approved])
    /\ UNCHANGED <<item, part, opinion, usage>>

PromptReviews(c) == ModerateRead(c, Prompts)
ServerReviews(c) == ModerateRead(c, Servers)

\* The review of a moderator's page still exists.
Moderating(c, kind) == At(c, "moderate") /\ req[c].valid /\ req[c].item \in kind

\* SET is_approved = NOT is_approved: the opposite of what was shown is meant.
Toggle(c, kind) ==
    /\ Moderating(c, kind)
    /\ LET q == req[c]
           r == review[q.item][q.user] IN
        Write(c, q.item, q.user, [r EXCEPT !.approved = ~ @],
              IF q.saw # r.approved THEN "crossed" ELSE IF q.saw THEN "hidden" ELSE "shown")

TogglePrompt(c) == Toggle(c, Prompts)
ToggleServer(c) == Toggle(c, Servers)

\* SET is_approved = TRUE, for prompts only.
ApproveReview(c) ==
    /\ Moderating(c, Prompts)
    /\ LET q == req[c] IN
        Write(c, q.item, q.user, [review[q.item][q.user] EXCEPT !.approved = TRUE], "shown")

Delete(c, kind) ==
    /\ Moderating(c, kind)
    /\ Write(c, req[c].item, req[c].user, NoReview, "shown")

DeletePromptReview(c) == Delete(c, Prompts)
DeleteServerReview(c) == Delete(c, Servers)

\* The review a moderator was shown is gone: 404.
ModerateGone(c) ==
    /\ At(c, "moderate") /\ ~ req[c].valid
    /\ Answer(c)
    /\ UNCHANGED <<item, part, opinion, usage>>

\* The trigger stores what it computed from its snapshot in the row of the item, and the
\* statement is committed.
Commit(c) ==
    /\ At(c, "commit")
    /\ LET q == req[c] IN
        /\ review' = [review EXCEPT ![q.item][q.user] = q.row]
        /\ rating' = [rating EXCEPT ![q.item] = q.tally]
        /\ meant' = [meant EXCEPT ![q.item][q.user] = q.means]
        /\ alone' = IF q.fresh THEN alone \cup {q.item} ELSE alone \ {q.item}
        /\ req' = [d \in Calls |->
                      IF d = c THEN Idle
                      ELSE IF d \in Reviewing(q.item) THEN [req[d] EXCEPT !.fresh = FALSE]
                      ELSE IF q.row = NoReview /\ d \in Outdated(q.item, {q.user})
                           THEN [req[d] EXCEPT !.valid = FALSE]
                      ELSE req[d]]
    /\ UNCHANGED <<item, part, usage>>

-----------------------------------------------------------------------------

\* A call dies, is cancelled, or its statement fails: a connection lost, a timeout, the
\* deadlock of a review and a deletion.
Crash(c) ==
    /\ ~ At(c, "idle")
    /\ Answer(c)
    /\ UNCHANGED <<item, part, opinion, usage>>

Next ==
    \/ \E p \in Prompts : CreatePrompt(p) \/ UpdatePrompt(p)
    \/ \E s \in Servers :
        \/ CreateServer(s) \/ UpdateServer(s) \/ DeleteServer(s)
        \/ Tools(s) \/ Agents(s) \/ Resources(s) \/ Snippets(s)
        \/ \E u \in Users : Install(s, u) \/ Uninstall(s, u)
    \/ \E c \in Calls :
        \/ EraseRead(c) \/ EraseRow(c)
        \/ FavouritePrompt(c) \/ FavouriteServer(c) \/ FavouriteAdd(c) \/ FavouriteRemove(c)
        \/ UseRead(c) \/ UseInsert(c)
        \/ SubmitReview(c) \/ UpsertReview(c)
        \/ PromptReviews(c) \/ ServerReviews(c) \/ TogglePrompt(c) \/ ToggleServer(c)
        \/ ApproveReview(c) \/ DeletePromptReview(c) \/ DeleteServerReview(c)
        \/ ModerateGone(c) \/ Commit(c)
        \/ Crash(c)

Spec == Init /\ [][Next]_vars

-----------------------------------------------------------------------------

\* The reviews list_reviews shows of an item.
Displayed(i) == {u \in Users : review[i][u] \in [rating : Ratings, approved : {TRUE}]}

\* The mean and the count beside an item are those of the reviews shown of it, unless
\* the review stored last had taken its snapshot before another one was committed: that
\* one is missing from them until the next review.  (The rows of the reviews are right
\* all the same; the code never counts anew by itself.)
RatingIsCurrent ==
    \A i \in alone :
        rating[i] = [count |-> Cardinality(Displayed(i)),
                     sum |-> Total(review[i], Displayed(i))]

\* A review is shown or hidden as the last moderator who acted on it meant, whatever its
\* author wrote meanwhile, unless that moderator's page was outdated by another's: two
\* who hide one review at once show it again.
ModeratedAsMeant ==
    \A i \in Items, u \in Users :
        review[i][u] # NoReview /\ meant[i][u] # "crossed"
            => (review[i][u].approved <=> meant[i][u] = "shown")

\* install_count is the number of installations and usage_count that of the uses.
CountersAgree ==
    /\ \A s \in Servers : counter[s] = Cardinality(installed[s])
    /\ \A p \in Prompts : counter[p] = used[p]

\* Below a server that is not there is nothing.
NothingDangles ==
    \A s \in Servers :
        ~ Exists(s) => /\ favourite[s] = {} /\ installed[s] = {}
                       /\ \A u \in Users : review[s][u] = NoReview
                       /\ \A t \in Tables : part[s][t] = {}

\* Every row below an item is accounted for: however often a user installs, removes and
\* installs again, uses a prompt that is hidden meanwhile or clicks twice, the counters
\* the triggers keep are those of the rows; and nothing is left below a server that was
\* erased, not even by a call that had read it before.
RowsAccountedFor == CountersAgree /\ NothingDangles

\* A server is erased only while it is deactivated, although permanent_delete_server looks
\* at it in one statement and deletes it in another: nothing activates it in between.
ErasedWasInactive ==
    [][\A s \in Servers : item'[s] = "gone" => item[s] \in {"hidden", "gone"}]_vars
=============================================================================
