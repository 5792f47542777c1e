------------------------------ MODULE Migrations ------------------------------
(***************************************************************************)
(* MigrationService.run_migrations, called by the start-up of the server   *)
(* (app/main.py) and by POST /system/migrate, and the script that records  *)
(* a restored schema.  A file is a sequence of units that come into force  *)
(* one by one: its statements under NO_TRANSACTION, itself otherwise.  Its *)
(* name is recorded by a statement of its own, after the last unit.  The   *)
(* files are numbered in the order of their names.                         *)
(***************************************************************************)
EXTENDS Naturals

CONSTANTS
    Newest,        \* the files that will ever be deployed are 1..Newest
    Units,         \* Units[f]: how many units file f has
    Repeatable,    \* units <<f, k>> that succeed again when in force (IF NOT EXISTS, ...)
    Boot,          \* the run of the server's start-up
    Posts,         \* the runs of POST /system/migrate
    MaxFailures,   \* bound: statements that fail for a reason of their own
    MaxCrashes     \* bound: deaths of the server

Files == 1..Newest
Runs == Posts \cup {Boot}

ASSUME NewestAssumption == Newest \in Nat \ {0}
ASSUME UnitsAssumption == Units \in [Files -> Nat \ {0}]
ASSUME RunsAssumption == Boot \notin Posts
ASSUME BoundsAssumption == MaxFailures \in Nat /\ MaxCrashes \in Nat

VARIABLES
    deployed,    \* the files in docs/migrations are 1..deployed
    applied,     \* applied[f]: the leading units of f in force
    recorded,    \* the names in _migrations
    up,          \* the server answers requests: its start-up has returned
    pc,          \* what the next statement of a run does
    todo,        \* pending[r]: the files the run has still to record
    unit,        \* the unit of its first pending file the run is at
    failures,    \* counts Fail
    crashes,     \* counts Crash
    interrupted, \* a run failed for a reason of its own since the runs began
    overlapped   \* two runs, or a run and the script, were once under way together

schema == <<deployed, applied, recorded>>
runners == <<pc, todo, unit>>
counters == <<failures, crashes>>
vars == <<schema, up, runners, counters, interrupted, overlapped>>

Busy(r) == pc[r] # "idle"
Idle == \A r \in Runs : ~Busy(r)
InForce(f) == applied[f] = Units[f]
Deployed == 1..deployed

\* The file a run is at: the first, by name, of those it has still to record.
At(r, f) == f \in todo[r] /\ \A g \in todo[r] : f <= g

Init ==
    /\ deployed \in Files
    /\ \/ applied = [f \in Files |-> 0]
       \/ applied = [f \in Files |-> IF f <= deployed THEN Units[f] ELSE 0]
    /\ recorded = {}
    /\ up = FALSE
    /\ pc = [r \in Runs |-> "idle"]
    /\ todo = [r \in Runs |-> {}]
    /\ unit = [r \in Runs |-> 1]
    /\ failures = 0
    /\ crashes = 0
    /\ interrupted = FALSE
    /\ overlapped = FALSE
-----------------------------------------------------------------------------
Return(r) ==
    /\ pc' = [pc EXCEPT ![r] = "idle"]
    /\ todo' = [todo EXCEPT ![r] = {}]
    /\ unit' = [unit EXCEPT ![r] = 1]
    /\ up' = TRUE

\* Mutant: the table of names is created anew.
StartRecreating(r) ==
    /\ ~Busy(r) /\ up = (r # Boot)
    /\ pc' = [pc EXCEPT ![r] = "run"]
    /\ todo' = [todo EXCEPT ![r] = Deployed]
    /\ unit' = [unit EXCEPT ![r] = 1]
    /\ recorded' = {}
    /\ interrupted' = (interrupted /\ ~Idle)
    /\ overlapped' = (overlapped \/ ~Idle)
    /\ UNCHANGED <<deployed, applied, up, counters>>

\* The run reads the recorded names; the files left, if any, are its work.
Start(r) ==
    /\ ~Busy(r)
    /\ up = (r # Boot)
    /\ IF Deployed \subseteq recorded
       THEN Return(r)
       ELSE /\ pc' = [pc EXCEPT ![r] = "run"]
            /\ todo' = [todo EXCEPT ![r] = Deployed \ recorded]
            /\ unit' = [unit EXCEPT ![r] = 1]
            /\ UNCHANGED up
    /\ interrupted' = (interrupted /\ ~Idle)
    /\ overlapped' = (overlapped \/ ~Idle)
    /\ UNCHANGED <<schema, counters>>

\* One unit comes into force, or runs again over itself.
Run(r) == \E f \in Files :
    /\ pc[r] = "run" /\ At(r, f)
    /\ applied[f] < unit[r] \/ <<f, unit[r]>> \in Repeatable
    /\ applied' = [applied EXCEPT ![f] = IF @ < unit[r] THEN unit[r] ELSE @]
    /\ IF unit[r] < Units[f]
       THEN unit' = [unit EXCEPT ![r] = @ + 1] /\ UNCHANGED pc
       ELSE pc' = [pc EXCEPT ![r] = "record"] /\ UNCHANGED unit
    /\ UNCHANGED <<deployed, recorded, up, todo, counters, interrupted, overlapped>>

\* Mutant: the error of a unit does not end the run.
RefusedPassedOver(r) == \E f \in Files :
    /\ pc[r] = "run" /\ At(r, f)
    /\ applied[f] >= unit[r]
    /\ <<f, unit[r]>> \notin Repeatable \/ \E q \in Runs \ {r} : At(q, f)
    /\ pc' = [pc EXCEPT ![r] = "record"]
    /\ UNCHANGED <<schema, up, todo, unit, counters, interrupted, overlapped>>

\* A unit in force is refused: it does not repeat, or it meets, in its
\* transaction, another run of the same file.  The run returns the error.
Refused(r) == \E f \in Files :
    /\ pc[r] = "run" /\ At(r, f)
    /\ applied[f] >= unit[r]
    /\ <<f, unit[r]>> \notin Repeatable \/ \E q \in Runs \ {r} : At(q, f)
    /\ Return(r)
    /\ UNCHANGED <<schema, counters, interrupted, overlapped>>

\* Mutant: a run returns with its first file.
RecordOne(r) == \E f \in Files :
    /\ pc[r] = "record" /\ At(r, f) /\ f \notin recorded
    /\ recorded' = recorded \cup {f}
    /\ Return(r)
    /\ UNCHANGED <<deployed, applied, counters, interrupted, overlapped>>

\* Mutant: INSERT ... ON CONFLICT DO NOTHING.
RecordAgain(r) == \E f \in Files :
    /\ pc[r] = "record" /\ At(r, f)
    /\ recorded' = recorded \cup {f}
    /\ IF todo[r] = {f}
       THEN Return(r)
       ELSE /\ pc' = [pc EXCEPT ![r] = "run"]
            /\ todo' = [todo EXCEPT ![r] = @ \ {f}]
            /\ unit' = [unit EXCEPT ![r] = 1]
            /\ UNCHANGED up
    /\ UNCHANGED <<deployed, applied, counters, interrupted, overlapped>>

\* INSERT INTO _migrations; the name is unique.
Record(r) == \E f \in Files :
    /\ pc[r] = "record" /\ At(r, f) /\ f \notin recorded
    /\ recorded' = recorded \cup {f}
    /\ IF todo[r] = {f}
       THEN Return(r)
       ELSE /\ pc' = [pc EXCEPT ![r] = "run"]
            /\ todo' = [todo EXCEPT ![r] = @ \ {f}]
            /\ unit' = [unit EXCEPT ![r] = 1]
            /\ UNCHANGED up
    /\ UNCHANGED <<deployed, applied, counters, interrupted, overlapped>>

Duplicate(r) == \E f \in Files :
    /\ pc[r] = "record" /\ At(r, f) /\ f \in recorded
    /\ Return(r)
    /\ UNCHANGED <<schema, counters, interrupted, overlapped>>

\* A statement fails: the connection is lost, or the minute it may take is over.
Fail(r) ==
    /\ Busy(r) /\ failures < MaxFailures
    /\ Return(r)
    /\ failures' = failures + 1
    /\ interrupted' = TRUE
    /\ UNCHANGED <<schema, crashes, overlapped>>

\* The server dies with every run under way.
Stop ==
    /\ pc' = [r \in Runs |-> "idle"]
    /\ todo' = [r \in Runs |-> {}]
    /\ unit' = [r \in Runs |-> 1]
    /\ up' = FALSE

Crash ==
    /\ crashes < MaxCrashes
    /\ Stop
    /\ crashes' = crashes + 1
    /\ UNCHANGED <<schema, failures, interrupted, overlapped>>

\* The next version of the server takes over, with a file more.
Deploy ==
    /\ up /\ Idle /\ deployed < Newest
    /\ Stop
    /\ deployed' = deployed + 1
    /\ UNCHANGED <<applied, recorded, counters, interrupted, overlapped>>

\* scripts/baseline_migrations.py --apply: every name that is missing, whatever
\* runs are under way or were refused before.  The script checks nothing; that
\* the files are in force is what its operator vouches for ("Registra migrações
\* já aplicadas", 34).
Baseline ==
    /\ \A f \in Deployed : InForce(f)
    /\ recorded' = recorded \cup Deployed
    /\ overlapped' = (overlapped \/ ~Idle)
    /\ UNCHANGED <<deployed, applied, up, runners, counters, interrupted>>

Next ==
    \/ \E r \in Runs : Start(r) \/ Run(r) \/ Refused(r) \/ Record(r) \/ Duplicate(r) \/ Fail(r)
    \/ Crash \/ Deploy \/ Baseline

Spec == Init /\ [][Next]_vars
-----------------------------------------------------------------------------
(* Properties. *)

TypeOK ==
    /\ deployed \in Files
    /\ applied \in [Files -> Nat] /\ \A f \in Files : applied[f] <= Units[f]
    /\ recorded \subseteq Deployed
    /\ up \in BOOLEAN
    /\ pc \in [Runs -> {"idle", "run", "record"}]
    /\ todo \in [Runs -> SUBSET Deployed]
    /\ unit \in [Runs -> Nat \ {0}]
    /\ failures \in Nat /\ crashes \in Nat
    /\ interrupted \in BOOLEAN /\ overlapped \in BOOLEAN

\* A recorded file is in force to its last statement and a file has begun only
\* when every older one is in force, whatever run died between a file and its
\* record (migration_service.py:181-194).
RecordedInForce ==
    /\ \A f \in recorded : InForce(f)
    /\ \A f, g \in Files : applied[f] > 0 /\ g < f => InForce(g)

\* The names recorded are the first ones, with no gap for a later run to fill
\* with an older file: run_migrations takes what is pending in the order of the
\* names and stops at the first that fails (166-204).
NoGaps == \A f \in recorded, g \in Files : g < f => g \in recorded

\* A file once recorded is over.  No run stands at it again, whatever failed,
\* died, was deployed or was recorded by the script in between, but for one that
\* had it in hand when another run, or the script, recorded it; and that one goes
\* on to no other file, so what it has left of this file is all that can run over
\* newer ones (160-204).
RecordedIsOver ==
    [][\A r \in Runs : \A f \in recorded :
        At(r, f) => overlapped /\ todo'[r] \in {todo[r], {}}]_vars

UpToDate == Deployed \subseteq recorded

\* The next file is in force in part, and that part does not repeat.
Held == \E f \in Deployed \ recorded :
    /\ \A g \in Files : g < f => g \in recorded
    /\ \E k \in 1..applied[f] : <<f, k>> \notin Repeatable

\* Whatever runs raced or died before, when those under way have returned and
\* none failed for a reason of its own, nothing is pending, unless the next file
\* is held (157-209): the runs that lose a race stop, and the one ahead goes on
\* to the last file.
CompleteOrHeld == up /\ Idle /\ ~interrupted => UpToDate \/ Held

Ledger == INSTANCE SchemaLedger
    WITH inForce <- {f \in Files : InForce(f)}, recorded <- recorded

\* The runs implement the ledger of SchemaLedger: whatever they race with, each
\* file comes into force after the older were recorded, and is recorded after it.
ImplementsLedger == Ledger!Spec
=============================================================================
