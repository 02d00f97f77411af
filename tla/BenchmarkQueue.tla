--------------------------- MODULE BenchmarkQueue ---------------------------
(***************************************************************************)
(* The benchmark queue: runs are created by three statements, one task per *)
(* model and verified receipt is leased by the worker of the process,      *)
(* retried with a growing delay, and deleted when it is finished, together *)
(* with the summary of its model and the status of its run.                *)
(*                                                                         *)
(* The answer of the provider is joined to the database write it leads to. *)
(* The absence of a task's row is "none" before and "done" after its life. *)
(***************************************************************************)
EXTENDS Integers, FiniteSets

CONSTANTS
    Run,        \* runs and receipts are numbers: their UUIDs are ordered
    Model,
    Receipt,
    NoTask,
    Repeating,  \* runs whose request names an id twice
    Lease,      \* life of a lease (6 minutes)
    BaseDelay,  \* first retry delay (5 seconds)
    MaxDelay,   \* longest retry delay (300 seconds)
    MaxTries,   \* attempts are counted up to here: the delay grows no more
    HoldBound,  \* longest time a task is executed (request timeout)
    MaxFaults,  \* bound on database calls that raise
    MaxCrashes, \* bound on restarts of the process
    MaxOutages  \* bound on models that go away

ASSUME OrderAssumption == Run \subseteq Nat /\ Receipt \subseteq Nat
ASSUME FiniteAssumption == IsFiniteSet(Model) /\ IsFiniteSet(Receipt)
ASSUME RepeatingAssumption == Repeating \subseteq Run
ASSUME BoundAssumption ==
    {Lease, BaseDelay, MaxDelay, MaxTries, HoldBound, MaxFaults, MaxCrashes,
     MaxOutages} \subseteq Nat
ASSUME DelayAssumption == BaseDelay * 2 ^ MaxTries >= MaxDelay

Task == Run \X Model \X Receipt
RunOf(t) == t[1]
ModelOf(t) == t[2]
ReceiptOf(t) == t[3]

ASSUME NoTaskAssumption == NoTask \notin Task

VARIABLES
    made,       \* which of its three inserts a run has had
    creating,   \* runs whose create request is in flight
    chosen,     \* benchmark_runs.receipt_ids
    complete,   \* runs whose benchmark_runs.status is completed
    completed,  \* benchmark_summaries.completed of each run and model
    task,       \* benchmark_tasks.status
    tries,      \* benchmark_tasks.attempts
    lease,      \* time until leased_until
    wait,       \* time until retry_at
    uncounted,  \* tasks that finished when their summary was not there
    cur,        \* the task the worker executes, NoTask when it polls
    seen,       \* its attempts as the lease query returned them
    held,       \* time since it was leased
    verified,   \* receipts that exist
    away,       \* models the provider does not offer, or not as they were
    faults,
    crashes,
    outages

runVars    == <<made, creating, chosen>>
countVars  == <<complete, completed, uncounted>>
taskVars   == <<task, tries, lease, wait>>
workerVars == <<cur, seen, held>>
worldVars  == <<verified, away, outages>>
vars == <<runVars, countVars, taskVars, workerVars, worldVars, faults, crashes>>

Waiting == {"queued", "retrying"}
Live    == Waiting \cup {"running", "waiting_for_model"}

TypeOK ==
    /\ made \in [Run -> {"none", "row", "tasks", "ready"}]
    /\ creating \subseteq Run
    /\ chosen \in [Run -> SUBSET Receipt]
    /\ complete \subseteq Run
    /\ completed \in [Run \X Model -> Nat]
    /\ task \in [Task -> Live \cup {"none", "done"}]
    /\ tries \in [Task -> 0 .. MaxTries]
    /\ lease \in [Task -> 0 .. Lease]
    /\ wait \in [Task -> 0 .. MaxDelay]
    /\ uncounted \subseteq Task
    /\ cur \in Task \cup {NoTask}
    /\ seen \in 0 .. MaxTries
    /\ held \in 0 .. HoldBound
    /\ verified \subseteq Receipt
    /\ away \subseteq Model
    /\ faults \in 0 .. MaxFaults
    /\ crashes \in 0 .. MaxCrashes
    /\ outages \in 0 .. MaxOutages

Init ==
    /\ made = [r \in Run |-> "none"]
    /\ creating = {}
    /\ chosen = [r \in Run |-> {}]
    /\ complete = {}
    /\ completed = [rm \in Run \X Model |-> 0]
    /\ task = [t \in Task |-> "none"]
    /\ tries = [t \in Task |-> 0]
    /\ lease = [t \in Task |-> 0]
    /\ wait = [t \in Task |-> 0]
    /\ uncounted = {}
    /\ cur = NoTask
    /\ seen = 0
    /\ held = 0
    /\ verified = Receipt
    /\ away = {}
    /\ faults = 0
    /\ crashes = 0
    /\ outages = 0

-----------------------------------------------------------------------------
(* Creating a run: POST /benchmarks *)

\* The service checks the models of the request against those on offer,
\* selects verified receipts and reads them all.
SelectReceipts(r) ==
    /\ chosen[r] = {}
    /\ away = {}
    /\ \E s \in (SUBSET verified) \ {{}} : chosen' = [chosen EXCEPT ![r] = s]
    /\ creating' = creating \cup {r}
    /\ UNCHANGED <<made, countVars, taskVars, workerVars, worldVars, faults, crashes>>

InsertRun(r) ==
    /\ r \in creating
    /\ made[r] = "none"
    /\ made' = [made EXCEPT ![r] = "row"]
    /\ UNCHANGED <<creating, chosen, countVars, taskVars, workerVars, worldVars,
                   faults, crashes>>

TasksOf(r) == {t \in Task : RunOf(t) = r /\ ReceiptOf(t) \in chosen[r]}

\* Mutant: nothing keeps the receipts of the run.
InsertWithoutForeignKey(r) ==
    /\ r \in creating
    /\ made[r] = "row"
    /\ IF r \notin Repeating
       THEN /\ made' = [made EXCEPT ![r] = "tasks"]
            /\ task' = [t \in Task |-> IF t \in TasksOf(r) THEN "queued" ELSE task[t]]
            /\ UNCHANGED creating
       ELSE creating' = creating \ {r} /\ UNCHANGED <<made, task>>
    /\ UNCHANGED <<chosen, countVars, tries, lease, wait, workerVars, worldVars,
                   faults, crashes>>

\* executemany is one transaction: a repeated id violates the primary key and
\* a deleted receipt the foreign key of the whole, and the request fails.
InsertTasks(r) ==
    /\ r \in creating
    /\ made[r] = "row"
    /\ IF r \notin Repeating /\ chosen[r] \subseteq verified
       THEN /\ made' = [made EXCEPT ![r] = "tasks"]
            /\ task' = [t \in Task |-> IF t \in TasksOf(r) THEN "queued" ELSE task[t]]
            /\ UNCHANGED creating
       ELSE creating' = creating \ {r} /\ UNCHANGED <<made, task>>
    /\ UNCHANGED <<chosen, countVars, tries, lease, wait, workerVars, worldVars,
                   faults, crashes>>

InsertSummaries(r) ==
    /\ r \in creating
    /\ made[r] = "tasks"
    /\ made' = [made EXCEPT ![r] = "ready"]
    /\ creating' = creating \ {r}
    /\ UNCHANGED <<chosen, countVars, taskVars, workerVars, worldVars, faults, crashes>>

-----------------------------------------------------------------------------
(* The worker *)

\* Mutants: expired leases are not looked at; retries are taken before their
\* time, and so before the tasks that have not been tried.
QueuedOrRetried(t) == task[t] \in Waiting /\ wait[t] = 0
RetryAtOnce(t) ==
    \/ task[t] \in Waiting
    \/ task[t] = "running" /\ lease[t] = 0

\* The condition of the lease query.
Due(t) ==
    \/ task[t] \in Waiting /\ wait[t] = 0
    \/ task[t] = "running" /\ lease[t] = 0

\* ORDER BY run_id, receipt_id
Before(t, u) ==
    \/ RunOf(t) < RunOf(u)
    \/ RunOf(t) = RunOf(u) /\ ReceiptOf(t) < ReceiptOf(u)

First(t) == Due(t) /\ \A u \in Task : Due(u) => ~Before(u, t)

TakeLease(t) ==
    /\ cur = NoTask
    /\ First(t)
    /\ task' = [task EXCEPT ![t] = "running"]
    /\ tries' = [tries EXCEPT ![t] = IF @ < MaxTries THEN @ + 1 ELSE @]
    /\ lease' = [lease EXCEPT ![t] = Lease]
    /\ UNCHANGED <<runVars, countVars, wait, held, worldVars, crashes>>

LeaseTask(t) ==
    /\ TakeLease(t)
    /\ cur' = t
    /\ seen' = tries[t]
    /\ UNCHANGED faults

\* The worker is done with its task, for better or worse.
Release ==
    /\ cur' = NoTask
    /\ seen' = 0
    /\ held' = 0

\* Twice as long after each attempt, up to MaxDelay.
Delay(n) ==
    LET d == BaseDelay * 2 ^ n IN IF d \in 0 .. MaxDelay THEN d ELSE MaxDelay

\* retry_task
PutBack(t, status) ==
    /\ task' = [task EXCEPT ![t] = status]
    /\ wait' = [wait EXCEPT ![t] = Delay(seen)]
    /\ lease' = [lease EXCEPT ![t] = 0]
    /\ UNCHANGED tries

\* The provider does not answer, or the extraction ends with an error that
\* is neither the receipt's nor the image's: a timeout, an unreadable photo.
Transient(t) ==
    /\ cur = t
    /\ PutBack(t, "retrying")
    /\ Release
    /\ UNCHANGED <<runVars, countVars, worldVars, faults, crashes>>

\* The model is not offered, or has another digest than when the run began.
ModelMissing(t) ==
    /\ cur = t
    /\ ModelOf(t) \in away
    /\ PutBack(t, "waiting_for_model")
    /\ Release
    /\ UNCHANGED <<runVars, countVars, worldVars, faults, crashes>>

\* Mutant: the other models of the run are forgotten.
FinishModel(t) ==
    LET rm == <<RunOf(t), ModelOf(t)>>
        left == {u \in Task : <<RunOf(u), ModelOf(u)>> = rm /\ u # t /\ task[u] \in Live}
    IN
    /\ task' = [task EXCEPT ![t] = "done"]
    /\ tries' = [tries EXCEPT ![t] = 0]
    /\ lease' = [lease EXCEPT ![t] = 0]
    /\ wait' = [wait EXCEPT ![t] = 0]
    /\ IF made[RunOf(t)] = "ready"
       THEN completed' = [completed EXCEPT ![rm] = @ + 1] /\ UNCHANGED uncounted
       ELSE uncounted' = uncounted \cup {t} /\ UNCHANGED completed
    /\ complete' = IF left = {} THEN complete \cup {RunOf(t)} ELSE complete

\* finish_task, one transaction: the task's row goes, its summary is counted
\* if it has one, and the run without tasks is completed.
Finish(t) ==
    LET rm == <<RunOf(t), ModelOf(t)>>
        left == {u \in Task : RunOf(u) = RunOf(t) /\ u # t /\ task[u] \in Live}
    IN
    /\ task' = [task EXCEPT ![t] = "done"]
    /\ tries' = [tries EXCEPT ![t] = 0]
    /\ lease' = [lease EXCEPT ![t] = 0]
    /\ wait' = [wait EXCEPT ![t] = 0]
    /\ IF made[RunOf(t)] = "ready"
       THEN completed' = [completed EXCEPT ![rm] = @ + 1] /\ UNCHANGED uncounted
       ELSE uncounted' = uncounted \cup {t} /\ UNCHANGED completed
    /\ complete' = IF left = {} THEN complete \cup {RunOf(t)} ELSE complete

\* A score, or a failure that is final: no image, or no valid answer.
Conclude(t) ==
    /\ cur = t
    /\ ModelOf(t) \notin away
    /\ Finish(t)
    /\ Release
    /\ UNCHANGED <<runVars, worldVars, faults, crashes>>

-----------------------------------------------------------------------------
(* The world around the worker *)

\* DELETE /receipts/{id}: refused (409) while a task refers to the receipt.
DeleteReceipt(x) ==
    /\ x \in verified
    /\ \A t \in Task : ReceiptOf(t) = x => task[t] \notin Live
    /\ verified' = verified \ {x}
    /\ UNCHANGED <<runVars, countVars, taskVars, workerVars, away, faults, crashes,
                   outages>>

ModelLeaves(m) ==
    /\ outages < MaxOutages
    /\ outages' = outages + 1
    /\ away' = away \cup {m}
    /\ UNCHANGED <<runVars, countVars, taskVars, workerVars, verified, faults, crashes>>

ModelReturns(m) ==
    /\ m \in away
    /\ away' = away \ {m}
    /\ UNCHANGED <<runVars, countVars, taskVars, workerVars, verified, faults, crashes,
                   outages>>

CountDown(n) == IF n > 0 THEN n - 1 ELSE n

\* Mutant: the extraction has no timeout.
TickWithoutTimeout ==
    /\ cur = NoTask => \A t \in Task : ~Due(t)
    /\ held' = IF cur # NoTask THEN held + 1 ELSE held
    /\ wait' = [t \in Task |-> CountDown(wait[t])]
    /\ lease' = [t \in Task |-> CountDown(lease[t])]
    /\ UNCHANGED <<runVars, countVars, task, tries, cur, seen, worldVars, faults, crashes>>

\* An idle worker polls within a tick, and an execution ends before HoldBound:
\* wait_for bounds the extraction.
Tick ==
    /\ IF cur = NoTask THEN \A t \in Task : ~Due(t) ELSE held < HoldBound
    /\ held' = IF cur # NoTask THEN held + 1 ELSE held
    /\ wait' = [t \in Task |-> CountDown(wait[t])]
    /\ lease' = [t \in Task |-> CountDown(lease[t])]
    /\ UNCHANGED <<runVars, countVars, task, tries, cur, seen, worldVars, faults, crashes>>

Fault == faults < MaxFaults /\ faults' = faults + 1

\* lease_task commits and its answer is lost: the worker polls again.
LeaseLost(t) ==
    /\ Fault
    /\ TakeLease(t)
    /\ UNCHANGED <<cur, seen>>

\* A database call of _execute raises: the worker polls again, the task
\* keeps its lease.
ExecuteFails(t) ==
    /\ Fault
    /\ cur = t
    /\ Release
    /\ UNCHANGED <<runVars, countVars, taskVars, worldVars, crashes>>

\* Mutant: the summary is counted and the task put back.
CountAndRetry(t) ==
    /\ Fault
    /\ cur = t
    /\ PutBack(t, "retrying")
    /\ completed' = [completed EXCEPT ![<<RunOf(t), ModelOf(t)>>] = @ + 1]
    /\ Release
    /\ UNCHANGED <<complete, uncounted, runVars, worldVars, crashes>>

\* finish_task commits and its answer is lost: retry_task, whose UPDATE then
\* finds no row, ends the execution.
FinishLost(t) ==
    /\ Fault
    /\ cur = t
    /\ Finish(t)
    /\ Release
    /\ UNCHANGED <<runVars, worldVars, crashes>>

\* The process ends, with the worker and the requests in flight, and is
\* started again.
Crash ==
    /\ crashes < MaxCrashes
    /\ crashes' = crashes + 1
    /\ creating' = {}
    /\ Release
    /\ UNCHANGED <<made, chosen, countVars, taskVars, worldVars, faults>>

-----------------------------------------------------------------------------
Create(r) == InsertRun(r) \/ InsertTasks(r) \/ InsertSummaries(r)
Execute(t) == Transient(t) \/ ModelMissing(t) \/ Conclude(t)

Next ==
    \/ \E r \in Run : SelectReceipts(r) \/ Create(r)
    \/ \E t \in Task :
          \/ LeaseTask(t) \/ Execute(t)
          \/ LeaseLost(t) \/ ExecuteFails(t) \/ FinishLost(t)
    \/ \E x \in Receipt : DeleteReceipt(x)
    \/ \E m \in Model : ModelLeaves(m) \/ ModelReturns(m)
    \/ Tick
    \/ Crash

Spec == Init /\ [][Next]_vars

-----------------------------------------------------------------------------
(* Safety *)

DoneOf(r, m) == {t \in TasksOf(r) : ModelOf(t) = m /\ task[t] = "done"}

\* Each finished task is counted exactly once in the summary of its model,
\* whatever was retried, lost or interrupted, if the summary was there
\* (finish_task is one transaction).
AccountsBalance ==
    \A r \in Run, m \in Model :
        completed[<<r, m>>] = Cardinality(DoneOf(r, m) \ uncounted)

\* A run is not reported completed while a task of it is left (finish_task).
CompletedIsDone ==
    \A r \in complete : \A t \in TasksOf(r) : task[t] = "done"

\* A task never loses the receipt it compares with: deleting the receipt is
\* refused, and tasks for a deleted receipt are not created (the foreign key
\* delete_receipt of receipt_db.py speaks of).
TasksKeepReceipts == \A t \in Task : task[t] \in Live => ReceiptOf(t) \in verified

\* The worker's task is leased; a request in flight or begun has receipts.
WorkerRuns == cur # NoTask => task[cur] = "running"
RunsHaveReceipts == \A r \in Run : made[r] # "none" \/ r \in creating => chosen[r] # {}

\* The tasks of a run are there from the second insert on, and no others.
HasTasks(r) == made[r] \in {"tasks", "ready"}
TasksBelong ==
    \A t \in Task :
        task[t] # "none" <=> HasTasks(RunOf(t)) /\ ReceiptOf(t) \in chosen[RunOf(t)]
CompleteHasTasks == \A r \in complete : HasTasks(r)

\* The inductive invariant behind the theorems.
IInv ==
    /\ TypeOK
    /\ WorkerRuns
    /\ RunsHaveReceipts
    /\ TasksBelong
    /\ CompleteHasTasks
    /\ CompletedIsDone
    /\ TasksKeepReceipts

-----------------------------------------------------------------------------
(* Refinement *)

Ledger == INSTANCE BenchmarkLedger WITH
    due       <- {t \in Task : task[t] \in Live},
    closed    <- {t \in Task : task[t] = "done"},
    announced <- {r \in Run : made[r] = "ready"},
    counted   <- completed,
    stock     <- verified

\* Every behaviour of the queue is one of the ledger: leases, retries, lost
\* answers, missing models and restarts show in nothing a run reports
\* (docstring of benchmark_service.py: restart-safe; finish_task).
ImplementsLedger == Ledger!Spec

\* A run is reported completed just when its tasks are done, not before the
\* last of them and not later, whatever became of the worker (finish_task).
CompletedWhenDone ==
    \A r \in Run :
        r \in complete <=>
            /\ \E t \in Task : RunOf(t) = r /\ task[t] = "done"
            /\ \A t \in Task : RunOf(t) = r => task[t] \notin Live

-----------------------------------------------------------------------------
(* Liveness *)

\* Requests and executions get on while the process lives, time passes, and
\* the worker polls.
FairSpec ==
    /\ Spec
    /\ WF_vars(Tick)
    /\ WF_vars(\E t \in Task : LeaseTask(t))
    /\ \A t \in Task : WF_vars(Execute(t))
    /\ \A r \in Run : WF_vars(Create(r))

\* The executions of a task do not all end with a transient error, and a
\* model that went away returns.
Conclusive ==
    /\ \A t \in Task : SF_vars(Conclude(t))
    /\ \A m \in Model : WF_vars(ModelReturns(m))

\* The others cannot be executed one after another for as long as one of them
\* waits for its retry: of n tasks, all but that one and the one kept waiting.
FewTasks ==
    LET few == {n \in 0 .. Cardinality(Task) : (n - 2) * HoldBound < MaxDelay}
    IN  Cardinality({t \in Task : task[t] \in Live}) \in few

\* While there are few tasks each is tried in the end, whatever becomes of the
\* others (lease_task takes the first that is due, retry_task keeps a task
\* away for its delay).  With more of them, or three whose executions take as
\* long as the longest delay, those that fail each time keep out the rest.
QueuedIsTried == []FewTasks => \A t \in Task : task[t] = "queued" ~> task[t] # "queued"

\* Under the same condition a task whose worker died is leased again and let go
\* (the six minutes of lease_task).
RunningIsReleased == []FewTasks => \A t \in Task : task[t] = "running" ~> task[t] # "running"

\* Tasks once created, the run is completed if their executions are
\* conclusive: restarts and lost answers delay it only (docstring of
\* benchmark_service.py: restart-safe).
QueuedRunCompletes ==
    Conclusive => \A r \in Run : HasTasks(r) ~> r \in complete

\* It is, if no model goes away: lost leases and answers, retries and restarts
\* do not keep a task from its end (_execute, retry_task, lease_task).
RunWithModelsCompletes ==
    Conclusive /\ [](away = {}) => \A r \in Run : HasTasks(r) ~> r \in complete
=============================================================================
