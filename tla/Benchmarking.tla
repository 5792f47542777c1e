---------------------------- MODULE Benchmarking -----------------------------
(***************************************************************************)
(* The run-once benchmarking of a model:                                   *)
(* src/app/services/benchmarking_service.py, called by                     *)
(* src/app/routers/benchmarking.py (process_model, process_question) and,  *)
(* after a model is inserted, by src/app/routers/ai_models.py              *)
(* (create_model), over the table benchmarking_runs of                     *)
(* src/docs/migrations/031_benchmarking_execution_lock.sql.                *)
(*                                                                         *)
(* An action is one SQL statement of a call with the Python that follows   *)
(* it.  The background task of create_model runs in the same call, after   *)
(* the response.  The evaluation itself is not configured in this backend: *)
(* run_model_once raises where it would start.                             *)
(*                                                                         *)
(* Names that CatalogueUse has too begin with Bench: one module proves the *)
(* theorems about both.                                                    *)
(***************************************************************************)
EXTENDS Naturals

CONSTANTS
    Models,       \* rows modelos can hold
    Seeded,       \* models a migration inserted: no run is registered for them
    BenchCalls,   \* in-flight calls
    NoModel,      \* the call is idle
    MaxRestarts,  \* bound: how many times the process restarts
    MaxFailures   \* bound: statements that fail

ASSUME NoModelAssumption == NoModel \notin Models
ASSUME SeedAssumption    == Seeded \subseteq Models
ASSUME BoundAssumption   == MaxRestarts \in Nat /\ MaxFailures \in Nat

VARIABLES
    created,    \* models inserted in modelos
    run,        \* benchmarking_runs.status, "none": no row
    claims,     \* times a run of the model was claimed
    pc,         \* next statement of a call
    model,      \* model_id of a call
    dropped,    \* models on which a call failed at a statement or died
    restarts,
    failures

call == <<pc, model>>
losses == <<dropped, restarts, failures>>
benchVars == <<created, run, claims, call, losses>>

Statuses  == {"none", "pending", "running", "completed", "failed"}
CallSteps == {"idle", "register_created", "read", "register", "claim", "fail",
              "register_question"}

BenchTypeOK ==
    /\ created \subseteq Models
    /\ run \in [Models -> Statuses]
    /\ claims \in [Models -> Nat]
    /\ pc \in [BenchCalls -> CallSteps]
    /\ model \in [BenchCalls -> Models \cup {NoModel}]
    /\ \A c \in BenchCalls : pc[c] # "idle" => model[c] \in created
    /\ dropped \subseteq created
    /\ restarts \in Nat /\ failures \in Nat

BenchInit ==
    /\ created = Seeded
    /\ run = [m \in Models |-> "none"]
    /\ claims = [m \in Models |-> 0]
    /\ pc = [c \in BenchCalls |-> "idle"]
    /\ model = [c \in BenchCalls |-> NoModel]
    /\ dropped = {}
    /\ restarts = 0
    /\ failures = 0

-----------------------------------------------------------------------------

\* Call c works on m and goes on with `step`.
Start(c, step, m) ==
    /\ pc' = [pc EXCEPT ![c] = step]
    /\ model' = [model EXCEPT ![c] = m]

Goto(c, step) ==
    /\ pc' = [pc EXCEPT ![c] = step]
    /\ UNCHANGED model

\* The call ends.
End(c) ==
    /\ pc' = [pc EXCEPT ![c] = "idle"]
    /\ model' = [model EXCEPT ![c] = NoModel]

\* The call ends with an exception, which the background task swallows.
Raise(c) == End(c)

\* Mutation: ON CONFLICT (model_id) DO UPDATE SET status = 'pending'.
RegisterAnew(m) == run' = [run EXCEPT ![m] = "pending"]

\* register_model_once: INSERT ... ON CONFLICT (model_id) DO NOTHING.
Register(m) ==
    run' = [run EXCEPT ![m] = IF run[m] = "none" THEN "pending" ELSE run[m]]

\* create_model: INSERT INTO modelos.
CreateModel(c) ==
    /\ pc[c] = "idle"
    /\ \E m \in Models \ created :
        /\ created' = created \cup {m}
        /\ Start(c, "register_created", m)
    /\ UNCHANGED <<run, claims, losses>>

\* create_model: ensure_registered_from_model_create; the background task follows.
RegisterCreated(c) ==
    /\ pc[c] = "register_created"
    /\ Register(model[c])
    /\ Goto(c, "read")
    /\ UNCHANGED <<created, claims, losses>>

\* process_model: its first id, which always ends the request with an exception.
\* The foreign key keeps benchmarking_runs to the inserted models.
ProcessModel(c) ==
    /\ pc[c] = "idle"
    /\ \E m \in created : Start(c, "read", m)
    /\ UNCHANGED <<created, run, claims, losses>>

\* run_model_once: get_run and what it decides.
ReadRun(c) ==
    /\ pc[c] = "read"
    /\ CASE run[model[c]] = "none"    -> Goto(c, "register")
         [] run[model[c]] = "pending" -> Goto(c, "claim")
         [] OTHER                     -> Raise(c)
    /\ UNCHANGED <<created, run, claims, losses>>

\* run_model_once: register_model_once.
RegisterRun(c) ==
    /\ pc[c] = "register"
    /\ Register(model[c])
    /\ Goto(c, "claim")
    /\ UNCHANGED <<created, claims, losses>>

\* Mutation: the status is not looked at when the run is claimed.
ClaimAny(c) ==
    /\ pc[c] = "claim"
    /\ run' = [run EXCEPT ![model[c]] = "running"]
    /\ claims' = [claims EXCEPT ![model[c]] = @ + 1]
    /\ Goto(c, "fail")
    /\ UNCHANGED <<created, losses>>

\* claim_pending_run: one conditional UPDATE; no row means somebody else has it.
Claim(c) ==
    /\ pc[c] = "claim"
    /\ IF run[model[c]] = "pending"
       THEN /\ run' = [run EXCEPT ![model[c]] = "running"]
            /\ claims' = [claims EXCEPT ![model[c]] = @ + 1]
            /\ Goto(c, "fail")
       ELSE Raise(c) /\ UNCHANGED <<run, claims>>
    /\ UNCHANGED <<created, losses>>

\* Mutation: the exception propagates without fail_run.
FailUnrecorded(c) ==
    /\ pc[c] = "fail"
    /\ Raise(c)
    /\ UNCHANGED <<created, run, claims, losses>>

\* The evaluation raises BenchmarkingNotConfigured: fail_run, then the exception.
Fail(c) ==
    /\ pc[c] = "fail"
    /\ run' = [run EXCEPT ![model[c]] = "failed"]
    /\ Raise(c)
    /\ UNCHANGED <<created, claims, losses>>

\* process_question of one question: get_run.  A finished run ends it with 409,
\* any other registered one with the evaluation that is not there: neither
\* changes anything.
ProcessQuestion(c) ==
    /\ pc[c] = "idle"
    /\ \E m \in created : run[m] = "none" /\ Start(c, "register_question", m)
    /\ UNCHANGED <<created, run, claims, losses>>

\* process_question: register_model_once, then the same exception.
RegisterQuestion(c) ==
    /\ pc[c] = "register_question"
    /\ Register(model[c])
    /\ Raise(c)
    /\ UNCHANGED <<created, claims, losses>>

\* A statement fails, or the minute it may take is over, or the task that waits
\* for it is cancelled: the exception of create_model or process_model goes to the
\* client and that of the background task to nobody, and what the call committed
\* stays.  Nothing takes the run up again.
StatementFails(c) ==
    /\ pc[c] # "idle"
    /\ failures < MaxFailures
    /\ Raise(c)
    /\ dropped' = dropped \cup {model[c]}
    /\ failures' = failures + 1
    /\ UNCHANGED <<created, run, claims, restarts>>

\* The process stops and starts again: calls and background tasks are gone.
Restart ==
    /\ restarts < MaxRestarts
    /\ pc' = [c \in BenchCalls |-> "idle"]
    /\ model' = [c \in BenchCalls |-> NoModel]
    /\ dropped' = dropped \cup {model[c] : c \in {d \in BenchCalls : pc[d] # "idle"}}
    /\ restarts' = restarts + 1
    /\ UNCHANGED <<created, run, claims, failures>>

Resume(c) ==
    \/ RegisterCreated(c) \/ ReadRun(c) \/ RegisterRun(c) \/ Claim(c) \/ Fail(c)
    \/ RegisterQuestion(c)

BenchNext ==
    \/ \E c \in BenchCalls : CreateModel(c) \/ ProcessModel(c) \/ ProcessQuestion(c)
    \/ \E c \in BenchCalls : Resume(c) \/ StatementFails(c)
    \/ Restart

BenchSpec == BenchInit /\ [][BenchNext]_benchVars

\* A call whose statement has returned is resumed by the event loop.
BenchFairSpec == BenchSpec /\ \A c \in BenchCalls : WF_benchVars(Resume(c))

-----------------------------------------------------------------------------
(* Properties *)

Started  == {"running", "completed", "failed"}
Finished == {"completed", "failed"}

\* A model's run is claimed at most once, by any number of racing creations,
\* process_model calls and restarts.
ClaimedOnce == \A m \in Models : claims[m] <= 1

\* A run that was claimed is never put back, and a finished one never changes.
RunNeverReopens ==
    [][\A m \in Models :
        /\ run[m] \in Started => run'[m] \in Started
        /\ run[m] \in Finished => run'[m] = run[m]]_benchVars

\* Every model created through the API gets its run finished, whichever of the
\* calls that race for it claims it and whatever happens to calls on other models,
\* unless a call on this one fails at a statement or dies in a restart: the
\* background task then returns and the run stays as it is, without the error that
\* its comment ("A falha ja fica persistida", 265) counts on.
CreatedIsRun ==
    \A m \in Models \ Seeded : m \in created ~> (run[m] \in Finished \/ m \in dropped)
=============================================================================
