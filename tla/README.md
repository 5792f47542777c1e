# GO.IA portal: TLA+ models and proofs

The portal (`src/app`, FastAPI over asyncpg and PostgreSQL, Redis for rate limiting) publishes AI
models, prompts, MCP servers and ideas for public servants, with curators who decide what is
published and who may use a model. This directory holds TLA+ models of its core, the TLC
configurations that check them on small instances, and theorems proved with TLAPS.

- [What makes the code hard](#what-makes-the-code-hard)
- [Inventory](#inventory)
- [Modules](#modules)
- [Runs](#runs)
- [Fairness](#fairness)
- [Proofs](#proofs)
- [Findings](#findings)
- [What is not modelled](#what-is-not-modelled)
- [Plan](#plan)

## What makes the code hard

Every handler is a coroutine. `app/core/database.py` takes a connection from a pool of ten for each
`execute`, `fetch` or `fetchrow` and gives it back after the statement, so each statement is a
transaction of its own and **any other handler may run between two statements of one**. A handler
reads a row, decides in Python on what it read, and then writes `UPDATE ... WHERE id = $1`, in most
places without repeating the condition it decided on. The connection may be lost, the minute a
statement may take may run out, or the process may be replaced between any two statements, and
nothing takes up what was left half done. What holds the data together is the database: unique and
partial unique indexes, CHECK constraints, foreign keys and triggers.

So the models have **one action per SQL statement**, together with the Python up to the next
`await`; the calls under way are records with a program counter and the values read; a crash drops
a call and keeps what it committed. The few handlers that do use a transaction
(`conn.transaction()`), and the triggers that run within a statement, are one action where nothing
can be seen in between, and two where the lock taken in between matters (the reports of
prompts, the reviews).

## Inventory

| Component | State | Operations | Interacts with | Status |
|---|---|---|---|---|
| Model access (`routers/model_access.py`, migration 020) | a request's status, its credentials, audit rows, notices | create, cancel, ask for revocation, reveal secret; approve, deny, revoke, confirm or reject revocation, update credentials | audit trail, notifications | modelled |
| Prompt curation (`routers/user_prompts.py`, migration 017, `users.py`) | a prompt's status, text, version, flags; its snapshots; its reports and their count | create, fork, edit, archive, restore, submit, withdraw, report; approve, deny, archive, restore, reassign, decide a report; deactivate a user | triggers of reports and users, administrator's editing (`prompts.py`) | partly: one prompt; the forks table and the global notifications are left out |
| Idea curation and roadmap (`services/idea_service.py`, migration 027) | an idea's moderation status, dates, roadmap fields; the versions of the roadmap | create, edit, erase, ask for deletion; approve, reject, remove, approve or deny deletion; plan; create, change, drop a version | audit trail, notifications | partly: topics left out |
| Benchmarking runs (`services/benchmarking_service.py`, `routers/benchmarking.py`, migration 031) | `benchmarking_runs.status` | register at creation, process model, process question, background task | model catalogue | partly: scores left out |
| Migrations (`services/migration_service.py`, `main.py`, `scripts/baseline_migrations.py`) | `_migrations` and the schema | start-up, `POST /system/migrate`, baseline script | every table | partly: the cutting of SQL into statements left out |
| Idea discussion (`idea_service.py` 504-754, migration 027) | votes, comments, replies, reactions, who hid what | vote, withdraw a vote, comment, reply, react, hide and restore a comment | ideas, audit trail, notifications | partly: the audit row of a restored comment left out |
| Rate limiting (`middleware/rate_limit_middleware.py`, Redis) | a counter with a lifetime per policy and principal | count, set the lifetime, refuse | every request | modelled |
| Login and provisioning (`core/deps.py`, `services/auth_service.py`) | rows of `users` | find or create the account of a token | every request | partly: token decoding, roles and names left out |
| Users (`routers/users.py`) | rows of `users` | create; change the email; deactivate, reactivate | login, prompts | partly: names, roles, organs left out |
| Roles and permissions (`services/permission_service.py`, migrations 026 and 027) | `app_features`, `role_feature_permissions` | decide, list, show the matrix, replace, reset | every request, migrations, audit trail | modelled |
| Prompt library and reviews (`routers/prompts.py`, migrations 003 and 015) | prompts shown, reviews, ratings, favourites, uses and their count | create, update, use, toggle a favourite, review; approve, hide or delete a review | triggers of ratings and uses, prompt curation | modelled |
| MCP catalogue (`routers/mcp.py`, migration 012) | servers, their parts, reviews, ratings, favourites, installations and their count | create, update, deactivate, erase; create and delete parts; toggle a favourite, install, remove, review; hide or delete a review | triggers of ratings and installations | partly: categories left out |
| Model catalogue, notifications, audit, news, documents, statistics, scores of a benchmark | rows of one user or one editor | one statement per call | - | not modelled, see below |
| Application shell, conversion scripts, dumps | none of their own | - | - | not modelled |

What must be right, by component, is what the properties below state; the places where it may go
wrong are the `hazards` of `PROJECT.json`, each at its line.

## Modules

| Module | What it is |
|---|---|
| `ModelAccess` | requests of access and their credentials |
| `AccessLifecycle` | what the access promises: granted, cut, restored, revoked, in that order |
| `PromptCuration` | the life of one community prompt |
| `VersionLedger` | version and snapshot of a prompt move in one step |
| `IdeaCuration` | the decisions on ideas and the roadmap |
| `IdeaLife` | an idea appears, is shown, hidden, vanishes |
| `IdeaDiscussion` | what is said below an idea, over the ideas of `IdeaLife` |
| `CatalogueUse` | reviews, ratings, favourites, installations and uses of prompts and MCP servers |
| `RequestGate` | the rate limit and the accounts that requests find or create |
| `RolePermissions` | what each role may use, and who changes it |
| `Benchmarking` | the run-once lock of a model's benchmark |
| `Migrations` | the runner of the migrations |
| `SchemaLedger` | migrations come into force and are recorded in order |
| `MC*` | symmetry sets and constants for TLC |
| `*Proofs` | the theorems and their proofs; those of `CatalogueUse` and of `Benchmarking` share `CatalogueProofs` |

### ModelAccess

A request identifier stands for a row of `model_access_requests`; `AppOf` gives its model, user and
normalised application name, the columns of the partial unique index. `status`, `secret` and
`active` are the two tables. A curator's call is a value of `Admins` with the step `pc`, the request
`req` and the secret `merged` that it will store; a user's call is a value of `Callers`. Each
`ReadFor...` action is the `SELECT` with its checks, and the actions after it are the statements of
the handler in their order: for `admin_revoke_request` `RevokeCut` (credentials off),
`RevokeStatus`, `Audit`, `Notify`. The order matters, since it differs between handlers: an approval
stores credentials before the status, a revocation cuts them before it, a rejected revocation
restores them after it. `Cancel` and `RequestRevocation` are single statements guarded in SQL.
`lastAudit` and `lastNotice` keep the last decision the trail and the user know of.
An update of the credentials may store back the secret of the row it read over one that another
curator has stored since; `ReadForUpdate` and `UpdateUpsert` do so too. Nothing in the repository
promises otherwise, and while calls on a request take turns nothing else writes its secret, so no
property is about it.

### PromptCuration

One prompt (`row`), its snapshots (`versions`), the reports on it by user, and calls `req` that hold
what they read. The trigger of reports counts before it holds the prompt's row, so a report is
`ReportInsert` (count taken) and `ReportCommit` (count stored, prompt sent to review at
`Threshold`); the same for discards and decisions. `approved` is a history of the texts a curator or
an administrator decided on. `OrderlySpec` is `Spec` with the assumptions under which three of the
properties hold: no edit lands in the middle of a decision, a submission finds the prompt it read,
the calls on reports take turns. Nothing in the code enforces them; `Spec` has no such assumption.

### IdeaCuration

`ideas` and `versions` are the tables, `req` the calls with the row each read. `Write` is
`UPDATE ideas ... WHERE id = $1`: it changes nothing once the row is gone, and it keeps in a history
variable which ideas were *overwritten*, that is, written by a call over a row that had changed
since the call read it. Properties that the code upholds only for calls that do not overlap are
stated of the other ideas. `Row` is constrained as the CHECK of migration 027 does (a roadmap
status requires a version), and `DropVersion` is `DELETE` with `ON DELETE SET NULL`, which the
CHECK makes fail for a planned idea.

### IdeaDiscussion

It composes with `IdeaLife`, which `IdeaCuration` implements, and not with the handlers of ideas: an
idea is shown, hidden or erased between any two statements of a vote, a comment, a reply, a reaction
or a moderation. `Erase` is `DELETE FROM ideas` with its cascades; `Insert` is the INSERT of a
comment with its foreign keys and the trigger that refuses a reply to a reply. `answered` is what
followed each hiding: its audit row and the notice to the author.

### CatalogueUse

The handlers of prompts and of MCP servers are twins, and so are their triggers: an operator with a
kind of items (`Submit(c, kind)`, `Toggle(c, kind)`) stands for both, and `SubmitReview` and
`UpsertReview` are its two instances. The trigger of a review computes count and mean from the
reviews its statement sees and then stores them in the item's row, where it may wait for another
statement: `Write` is the row with the snapshot, `Commit` the storing. A rating is kept as count and
sum (`Total`). Histories: `alone` has the items whose last stored rating no other review overtook
(`fresh` says so of one under way); `meant` what the last moderator of a review meant by *toggle*, or that two
pages crossed (`valid` is false once the review a page shows is gone). `EraseRead` and `EraseRow`
are the two statements of `permanent_delete_server`, the second with its cascades; favourites, uses
and installations that arrive between them or after them meet the foreign keys.

### RequestGate

`count` and `lasting` are the keys of Redis and those with a lifetime; `Count` is `INCR` with the
decision, `SetExpiry` the `EXPIRE` of the first request of a window, and either may fail, which the
middleware swallows. `WindowEnds` is Redis dropping a key, at any time. Then `FindByCode`,
`FindByEmail` and `Provision` are the three statements of `get_current_user`, and `NewByEmail`,
`NewByCode` and `New` those of an administrator's `create_user`. In `users` an email is unique and
`codg_usuario` is not, although `users.py` 121-124 answers 409 to a code that is taken: `raced` keeps
the people for whom two calls had both found nothing.

### RolePermissions

`Has`, `Listed` and `Matrix` are the three queries that say what a role has, from rows (`grant`),
required features and Python's defaults. An edit reads what the role has (`Before`), replaces its
rows in one transaction (`Save`), reads again (`After`) and audits the difference (`Audit`).
Migration 027 adds features, then grants, statement by statement and with `ON CONFLICT DO UPDATE`;
if it fails it starts anew and overwrites what was chosen meanwhile, which `kept` records. `replay`
is what the audit trail, replayed, says; `muddled` the roles whose edits overlapped or died.

### Benchmarking

`run[m]` is the status of a model's row in `benchmarking_runs`; `Seeded` models come from a
migration and have no row until a call registers them. `Claim` is the conditional
`UPDATE ... WHERE status = 'pending'`. In this backend the evaluation is not configured, so a claimed
run always reaches `Fail`, unless a statement fails or the process is replaced in between.
`StatementFails` is any statement that raises or exceeds its minute: the background task swallows the
exception (`benchmarking_service.py` 260-266), whose comment, that the failure is already persisted,
holds only of the failure of the evaluation. The run then stays as it is, `none`, `pending` or
`running`, and nothing takes it up. `dropped` has the models whose calls failed or died so, and
`CreatedIsRun` excuses these and no others. `process_question` registers a run and does not claim it.
Names that `CatalogueUse` has too begin with `Bench`, since one module proves the theorems of both.

### Migrations

Files are numbered by name. A file in a transaction is one unit; one marked `NO_TRANSACTION` (027
is) has one unit per statement; a unit in force `Repeat`s or is refused. `todo[r]` is what a run
read as pending. The start-up runs alone, before the server answers; requests may overlap. A crash
takes every run of the process; `Deploy` restarts the server with one file more. `Baseline` is the
script that records every missing name, at any time: beside runs that are under way, and after runs
that were refused. The script checks nothing; that the files it records are in force (a schema
restored from elsewhere, with which initial states may begin) is what its operator vouches for, and
the one guard of the action. `overlapped` says that two runs, or a run and the script, have been
under way together.

## Runs

| Run | Bounds | What it shows |
|---|---|---|
| `access_serial` | 2 requests of one application, 2 user calls, 1 curator call, 2 crashes | one open request per application; a revoked request has no active credentials; no audit row and no notice tells of a decision the status has not borne out; a secret is audited before it is returned; trail, notice and credentials agree with the status once a request is quiet; access half revoked resolves; the handlers implement `AccessLifecycle` |
| `access_kept_notice` | 1 request, 1 user, 2 curators | **violated**: a notice says access goes on where it does not |
| `prompt_orderly` | 2 users, 2 calls, 2 texts, threshold 2, version up to 2 | published text was decided on; `is_public` follows the status; `report_count` is the number of pending reports |
| `prompt_races` | 2 users, one of them deactivated, 1 text, 1 crash | each approved version has its snapshot; the next number is free; a decided report stays decided; approvals implement `VersionLedger` |
| `prompt_unreviewed` | 1 user, 2 calls, 2 texts | **violated**: an edit during the approval is published unread |
| `idea_curation` | 1 idea, 1 version, 2 texts, 2 calls, 1 crash | publication dates and roadmap are sound; decisions are audited; ideas not overwritten are coherent and stay excluded; the handlers implement `IdeaLife` |
| `idea_discussion` | 1 idea, 2 comments, 2 calls, 1 user who votes and comments, 2 moderators (one of them that user), 1 crash | nothing refers to an idea or comment that is gone; only what was once public is voted on or discussed; a hidden comment is audited and told |
| `catalogue_use` | 1 prompt or 1 server, 2 users, 2 calls, ratings 1 and 5, 1 favourite, installation or part at a time, 2 uses | ratings are those of the reviews shown unless two overlapped; moderation stands; counters and cascades account for every row; only an inactive server is erased |
| `request_gate` | 3 requests of 2 people (one privileged, one without email), 2 calls, limits 1 and 2, 1 failure | no more requests than the limit pass in a window; every counter has a lifetime; two accounts of a person only where calls overlapped |
| `role_permissions` | 3 roles, 4 features, 2 edits in 2 calls, 1 failure | the three queries agree; a role has the last choice whole; the audit trail replays to what it has |
| `benchmarking` | 2 models (1 seeded), 3 calls, 1 restart, 1 failed statement | a run is claimed once and never reopens; a created model's run finishes unless a call on that model failed or died |
| `migrations` | 4 files, 5 units, start-up and 2 requests, 3 failures, 2 crashes | what is recorded is in force; a recorded file runs again only in a run that was overtaken at it, which ends there; racing runs leave nothing pending but what does not repeat; the runs implement `SchemaLedger` |

**Why the bounds are enough.** All the races in this code are between two calls on one row; a third
adds a writer but no new kind of conflict, except in benchmarking, where the background task, the
call that wins the claim and the one that loses are three. Two requests are needed for the unique
index to bite (one cancelled and asked again); no property of access tells one secret from another. Two
texts tell a reviewed one from another. One crash suffices to leave each handler half done; the
migrations get two because a file may be left in force twice, and access because a retried decision may
be left half done again. In benchmarking the failed statement and the restart may befall the seeded
model, whose losses excuse nothing of the other. Three failures allow the start-up to
fail and two requests to race over what it left. Four files let a run be two files ahead of
another, with a two-statement file and one that does not repeat in the middle and at the end.
Under an idea two comments let one be the reply of the other, and a moderator who also comments is
the author of a hidden comment. Three requests and a limit of one let a window be full, end and begin again; the
lone failure may be that of the `EXPIRE`. Four features are one of each kind the code tells apart
(required of all, required of the administrator, of migration 026, of migration 027), and three
roles the administrator, the role 027 adds and any other.
No statement of `CatalogueUse` relates two items, so one at a time of either kind is enough; two users
and two calls let reviews overlap and pages cross, the lowest and the highest rating tell every
wrong sum, and the one row below an item may be of any table, so each meets the erasure.
`PromptCuration` is checked under two specifications because the full interleaving of two users
with two texts and two versions is past ten million states; the races run keeps one text, which
none of its properties looks at.

Runs say `CHECK_DEADLOCK FALSE` where the system may stop: when each request of the bounded pool is
closed, when the one idea is erased (and, in `idea_curation`, the one version dropped), when the one server
is erased, and when the edits of the bound have been made. Type correctness is a theorem about each
of these modules, so no run repeats it.

Each property has a mutant (`PROJECT.json`, `mutants`): a definition with a plausible bug, kept
beside the right one in its module, with which TLC finds the property violated.

## Fairness

Only two properties are liveness. `HalfRevokedResolves` assumes weak fairness of a curator's call
that is under way (`AdminWork`), and `CreatedIsRun` of a call or background task under way
(`Resume`): the event loop resumes a coroutine whose statement has returned, and a statement returns
or fails within the `command_timeout` of a minute. Neither assumes that anyone starts a call.
`HalfRevokedResolves` excuses crashes, and `CreatedIsRun` the models on which a call failed at a
statement or died (`dropped`): the code resumes nothing after either.

## Proofs

All theorems hold for every value of the constants, under the named assumptions of the modules
(null values outside their sets, bounds that are natural numbers; in `CatalogueUse`, finitely many
users, whose ratings the triggers add up).

| Module | Theorems |
|---|---|
| `ModelAccessProofs` | `TypeCorrect`, `UniqueOpen`, `Disclosure`, `RevokedCut`, `TrailBehind`, `Settled`, `RevocationHeld`, `KeptNotice`, `Implements` |
| `PromptCurationProofs` | `TypeCorrect`, `SnapshotsComplete`, `ApprovalsFree`, `ImplementsTheLedger`, `ReviewedText`, `FlagAgrees`, `DecidedOnce`, `CountAgrees` |
| `IdeaCurationProofs` | `TypeCorrect`, `PublicationsDated`, `RoadmapWhole`, `UndisturbedCoherent`, `ExclusionFinal`, `ImplementsTheLife`, `DecisionsAudited` |
| `IdeaDiscussionProofs` | `TypeCorrect`, `ErasedWhole`, `RepliesOneLevel`, `DiscussionShown`, `HidingAnswered` |
| `RequestGateProofs` | `TypeCorrect`, `LimitHolds`, `EveryWindowEnds`, `OneAccount` |
| `RolePermissionsProofs` | `TypeCorrect`, `OneAnswer`, `ChoiceIsWhole`, `TrailIsTrue` |
| `CatalogueProofs` | of `CatalogueUse`: `TypeCorrect`, `RatingCurrent`, `MeanFits`, `ModerationStands`, `RowsAccounted`, `ErasedInactive`; of `Benchmarking`: `BenchTypeCorrect`, `ClaimedAtMostOnce`, `NeverReopens`, `CreatedInHand` |
| `MigrationsProofs` | `TypeCorrect`, `RecordsHold`, `NamesInOrder`, `RecordedAreOver`, `RacesComplete`, `ImplementsTheLedger` |

- **ModelAccess.** `UniqueOpen` and `Disclosure` need no assumption: the index guards every write
  of a status, and an audit row is counted before its secret. `RevokedCut`, `TrailBehind`,
  `Settled`, `RevocationHeld`, `KeptNotice` and `Implements` are of the form
  `Spec /\ []OneAdminPerRequest => ...`; the code does not enforce that assumption, and `access_kept_notice` shows what happens without it. They rest on
  `CurationInv`: the status a call read still holds up to what users may do meanwhile, a request
  just inserted has no credentials, and a revocation past its cut has found them off. `TrailInv` adds
that a call about to tell of a decision has stored it, crashes or not. For `Settled`,
  `SettledInv` says per statement what status, credentials, trail and notice of a request are while
  a curator's call has it in hand (`InHand`) and that they agree at rest (`AtRest`); the proof has
  three kinds of step, one that leaves the request alone, one that takes it up and one that works
  on it. Two more results follow from it: access half revoked is always in the hands of the call
  that is about to complete the revocation (`RevocationHeld`), and under the assumption, without a
  crash, the notice of the first finding is true (`KeptNotice`), so that two calls on one request
  are its cause.
- **PromptCuration.** `VersionInv` relates the version, the numbers taken and the approvals about
  to publish: the unique key lets one of two racing approvals write its snapshot, and that one owns
  the next version. It is inductive under `Spec`, so the first four theorems have no assumption.
  `ReviewInv` adds, under `OrderlySpec`, what a decision in flight read.
  `DecidedOnce` has no assumption: a report is locked by one statement at most and is as that
  statement found it (`Locks`), so no statement overwrites a decision it did not see. `CountAgrees`
  is of `OrderlySpec` and adds `Counts`: what a trigger counted is what the table will have when its
  statement ends.
- **IdeaCuration.** The invariant has three parts: what a row alone satisfies (`RowOK`), what a call
  may rely on because its conditions are never undone (`Sound`), and what it may rely on unless its
  idea was written since it read (`Fits`). The last is what makes the *overwritten* history needed:
  it separates the ideas on which unguarded UPDATEs are harmless from the others. `TrailInv` gives
  the audit property.
- **IdeaDiscussion.** Every row ever stored is below an idea that was shown, and a reply below a
  comment of the same idea that is no reply (`RowOK`); of what a call read only what nothing undoes
  is relied on (`Sound`), so an idea erased meanwhile is caught by the foreign keys. `AnswerInv` says
  that each hidden comment lacks only what a call under way still owes it. `OneLevel` is proved and
  not among the runs' properties.
- **RequestGate.** A call about to send `EXPIRE` created its key and is the only one about to for it
  (`ExpiryIsOwn`), so no window is left or cut by another's. A call past its search where there is
  an account now has been raced (`RaceIsKnown`): a second account is no surprise to the history.
- **RolePermissions.** `Rows`: a row is as last chosen where that choice still settles it and as by
  default elsewhere, and a missing row is of a feature or role 027 has not reached. `Trail`: of a
  role that is not muddled one call at most is between its reads and its audit row, and it knows
  what the trail says.
- **CatalogueUse.** `Linked` is what a call may rely on between two of its statements (`Held`): the
  item of a review is not erased under it, a server read as deactivated stays so, the review on a
  moderator's page is there unless the page knows it is not. No result holds without it, `TypeOK`
  included. With it `Moves` sorts the steps by what they do to reviews: nothing, the next
  statement of a call, the writing of a review, its commit, the erasure of a server. Ratings then
  follow from `Foretold`: a tally under way that no commit overtook is that of the rows as they will
  be once its own review is stored. Overtaken or not, every tally is that of some reviews, so
  `MeanFits`: the mean of any item, wrong ones included, is that of ratings from 1 to 5 or zero, as
  the `DECIMAL(3,2)` of its column needs. `Intended` says of a review under way what
  `ModeratedAsMeant` says of one stored. The sum of a set of ratings is a fold of the community
  modules, defined by recursion; `TotalStep` unfolds it and `TotalBounds` bounds it, both by a
  smallest counterexample among the subsets of a finite set, which the library's theorem on that
  order gives without an induction rule.
- **Benchmarking.** `ClaimsMatchRuns`: a run was claimed as many times as its status says, and only
  the call that claimed it is about to fail it. `RunInHand`: some call at the right statement has hold
  of each unfinished run of a created model on which no call failed or died, and if another takes the
  run from it, that one has hold of it; `CreatedIsRun` follows from it with the fairness of calls, a step that
  stays with TLC.
- **Migrations.** `WorkInv`: what a run does not hold is recorded, and the units before its own are
  in force; `RecordedInForce` and `NoGaps` are inductive with it. `LoneInv` (until two overlap, one run
  at most, which holds no recorded file) says that only overlapping brings a run to a recorded file,
  and `OvertakenKeeps` that such a run loses at the unique name before it gets to another.
  `AheadInv` gives the races: unless the
  database is up to date or held by a file that does not repeat, some run holds no file another has
  recorded, and the runs that hold one lose at the unique name.

`NoGaps`, proved on the way to `RecordsHold`, `OneLevel`, `MeanInScale`, `RunInHand` and
`HalfRevokedIsHeld` are no properties of a run: the theorems go beyond what TLC is asked there.

**Only model-checked**: the two liveness properties, `HalfRevokedResolves` and `CreatedIsRun`.
Liveness and `ENABLED` are out of the prover's reach; the invariants they rest on are proved
(`RevocationHeld` and `CreatedInHand`).

## Findings

1. *A notice that is not true* (`access_kept_notice`). Two curators decide one request for revocation;
   the user's last notice says the rejected revocation leaves access as it is, on a request without
   access. `routers/model_access.py` 679, 826: `UPDATE ... WHERE id` on a status read earlier.
2. *Published unread* (`prompt_unreviewed`). The author edits a prompt between the curator's read and
   the approval's UPDATE (`routers/user_prompts.py` 636): the new text is public, the snapshot holds
   the old one.

Runs that hold only under an assumption the code does not enforce (`OneAdminPerRequest`,
`OrderlySpec`, ideas not overwritten) say so in the property's comment;
the corresponding hazards say what is reached without it.

## What is not modelled

- *Scores of a benchmark* (`benchmarking_service.py` `process_result`): one upsert of a pure function
  of an external evaluation (means, text matching); a result is a model value. Its columns
  `json_resultado` and `gabarito` are JSONB, which the pool of `core/database.py` returns as text,
  and unlike the routers of prompts and servers it does not decode them.
- *Categories of MCP servers, model catalogue, news, documents*: one statement per call over a row of
  one editor. Their races (two creations of one slug) end in an error of the unique key.
- *Notifications and audit*: one statement, or one transaction, within the calls that write them,
  and kept in the models where a property needs them (`lastNotice`, `lastAudit`, `trail`).
- *Statistics, listings, GET handlers*: they change no state.
- *Configuration, logging, headers, CORS, decoding of tokens*: input and output, or libraries.
- *SQL text*: a migration's effect on the schema, and the lexer that cuts it into statements.
- *Oracle conversion, dumps, diagrams, question banks*: one-off scripts and data.
- Below the statement: PostgreSQL at READ COMMITTED, whose row locks make each UPDATE by key atomic.

## Plan

Done, in this order, the most consequential first: model access (what gives people access and
secrets), benchmarking, prompt curation, idea curation, migrations, idea discussion, the request
gate, roles and permissions, the use of the catalogues; each with its abstract specification where
one is worth stating (`AccessLifecycle`, `VersionLedger`, `IdeaLife`, `SchemaLedger`), its run, its mutants and its proofs.

Next:

1. Composition of `RequestGate` with a handler: an account deactivated, or a permission taken away,
   between the check of a request and its statements; with it, the order in which
   `require_any_permission` asks for one permission after another.
2. Liveness of the gate: under fair expiry who is refused is let in again unless an `EXPIRE` was
   lost. It needs a run with smaller bounds than `request_gate`.
3. Notifications and who has read them; the categories of MCP servers.
