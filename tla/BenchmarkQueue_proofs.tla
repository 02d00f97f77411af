------------------------ MODULE BenchmarkQueue_proofs ------------------------
(***************************************************************************)
(* Theorems about BenchmarkQueue, for any runs, models and receipts and    *)
(* any bounds.                                                             *)
(***************************************************************************)
EXTENDS BenchmarkQueue, FiniteSetTheorems, FunctionTheorems, TLAPS

USE BoundAssumption, NoTaskAssumption DEF BoundAssumption, NoTaskAssumption

-----------------------------------------------------------------------------
(* Types *)

LEMMA TaskParts ==
    ASSUME NEW t \in Task
    PROVE  RunOf(t) \in Run /\ ModelOf(t) \in Model /\ ReceiptOf(t) \in Receipt
BY DEF Task, RunOf, ModelOf, ReceiptOf

LEMMA TasksOfType == \A r : TasksOf(r) \subseteq Task
BY DEF TasksOf

LEMMA DelayType == \A n : Delay(n) \in 0 .. MaxDelay
BY DEF Delay

LEMMA CountDownType == ASSUME NEW b \in Nat, NEW n \in 0 .. b PROVE CountDown(n) \in 0 .. b
BY DEF CountDown

LEMMA InitType == Init => TypeOK
BY DEF Init, TypeOK

LEMMA TakeLeaseType ==
    ASSUME TypeOK, NEW t \in Task, TakeLease(t)
    PROVE  /\ task' \in [Task -> Live \cup {"none", "done"}]
           /\ tries' \in [Task -> 0 .. MaxTries]
           /\ lease' \in [Task -> 0 .. Lease]
<1>1. task' \in [Task -> Live \cup {"none", "done"}]
  BY DEF TypeOK, TakeLease, Live
<1>2. tries' \in [Task -> 0 .. MaxTries]
  BY DEF TypeOK, TakeLease
<1>3. lease' \in [Task -> 0 .. Lease]
  BY DEF TypeOK, TakeLease
<1> QED
  BY <1>1, <1>2, <1>3

LEMMA PutBackType ==
    ASSUME TypeOK, NEW t \in Task, NEW s \in Live, PutBack(t, s)
    PROVE  /\ task' \in [Task -> Live \cup {"none", "done"}]
           /\ tries' \in [Task -> 0 .. MaxTries]
           /\ lease' \in [Task -> 0 .. Lease]
           /\ wait' \in [Task -> 0 .. MaxDelay]
BY DelayType DEF TypeOK, PutBack

LEMMA FinishType ==
    ASSUME TypeOK, NEW t \in Task, Finish(t)
    PROVE  /\ task' \in [Task -> Live \cup {"none", "done"}]
           /\ tries' \in [Task -> 0 .. MaxTries]
           /\ lease' \in [Task -> 0 .. Lease]
           /\ wait' \in [Task -> 0 .. MaxDelay]
           /\ completed' \in [Run \X Model -> Nat]
           /\ uncounted' \subseteq Task
           /\ complete' \subseteq Run
<1>1. /\ task' \in [Task -> Live \cup {"none", "done"}]
      /\ tries' \in [Task -> 0 .. MaxTries]
      /\ lease' \in [Task -> 0 .. Lease]
      /\ wait' \in [Task -> 0 .. MaxDelay]
  BY DEF TypeOK, Finish
<1>2. completed' \in [Run \X Model -> Nat] /\ uncounted' \subseteq Task
  BY DEF TypeOK, Finish
<1>3. complete' \subseteq Run
  BY TaskParts DEF TypeOK, Finish
<1> QED
  BY <1>1, <1>2, <1>3

LEMMA ReleaseType == Release => cur' = NoTask /\ seen' = 0 /\ held' = 0
BY DEF Release

LEMMA StepType == TypeOK /\ [Next]_vars => TypeOK'
<1> SUFFICES ASSUME TypeOK, [Next]_vars
             PROVE  TypeOK'
  OBVIOUS
<1> USE DEF TypeOK, runVars, countVars, taskVars, workerVars, worldVars
<1>1. ASSUME NEW r \in Run, SelectReceipts(r) PROVE TypeOK'
  BY <1>1 DEF SelectReceipts
<1>2. ASSUME NEW r \in Run, InsertRun(r) PROVE TypeOK'
  BY <1>2 DEF InsertRun
<1>3. ASSUME NEW r \in Run, InsertTasks(r) PROVE TypeOK'
  <2>1. task' \in [Task -> Live \cup {"none", "done"}]
    BY <1>3 DEF InsertTasks, Live, Waiting
  <2>2. /\ made' \in [Run -> {"none", "row", "tasks", "ready"}]
        /\ creating' \subseteq Run
    BY <1>3 DEF InsertTasks
  <2> QED
    BY <1>3, <2>1, <2>2 DEF InsertTasks
<1>4. ASSUME NEW r \in Run, InsertSummaries(r) PROVE TypeOK'
  BY <1>4 DEF InsertSummaries
<1>5. ASSUME NEW t \in Task, LeaseTask(t) PROVE TypeOK'
  BY <1>5, TakeLeaseType DEF LeaseTask, TakeLease
<1>6. ASSUME NEW t \in Task, Transient(t) PROVE TypeOK'
  <2>1. "retrying" \in Live
    BY DEF Live, Waiting
  <2> QED
    BY <1>6, <2>1, PutBackType, ReleaseType DEF Transient
<1>7. ASSUME NEW t \in Task, ModelMissing(t) PROVE TypeOK'
  <2>1. "waiting_for_model" \in Live
    BY DEF Live, Waiting
  <2> QED
    BY <1>7, <2>1, PutBackType, ReleaseType DEF ModelMissing
<1>8. ASSUME NEW t \in Task, Conclude(t) PROVE TypeOK'
  BY <1>8, FinishType, ReleaseType DEF Conclude
<1>9. ASSUME NEW x \in Receipt, DeleteReceipt(x) PROVE TypeOK'
  BY <1>9 DEF DeleteReceipt
<1>10. ASSUME NEW m \in Model, ModelLeaves(m) \/ ModelReturns(m) PROVE TypeOK'
  BY <1>10 DEF ModelLeaves, ModelReturns
<1>11. CASE Tick
  <2>1. held' \in 0 .. HoldBound
    BY <1>11 DEF Tick
  <2>2. wait' \in [Task -> 0 .. MaxDelay] /\ lease' \in [Task -> 0 .. Lease]
    BY <1>11, CountDownType DEF Tick
  <2> QED
    BY <1>11, <2>1, <2>2 DEF Tick
<1>12. ASSUME NEW t \in Task, LeaseLost(t) PROVE TypeOK'
  <2>1. TakeLease(t) /\ faults' \in 0 .. MaxFaults /\ UNCHANGED <<cur, seen>>
    BY <1>12 DEF LeaseLost, Fault
  <2>2. /\ task' \in [Task -> Live \cup {"none", "done"}]
        /\ tries' \in [Task -> 0 .. MaxTries]
        /\ lease' \in [Task -> 0 .. Lease]
    BY <2>1, TakeLeaseType
  <2> QED
    BY <2>1, <2>2 DEF TakeLease
<1>13. ASSUME NEW t \in Task, ExecuteFails(t) PROVE TypeOK'
  BY <1>13, ReleaseType DEF ExecuteFails, Fault
<1>14. ASSUME NEW t \in Task, FinishLost(t) PROVE TypeOK'
  BY <1>14, FinishType, ReleaseType DEF FinishLost, Fault
<1>15. CASE Crash
  BY <1>15, ReleaseType DEF Crash
<1>16. CASE UNCHANGED vars
  BY <1>16 DEF vars
<1> QED
  BY <1>1, <1>2, <1>3, <1>4, <1>5, <1>6, <1>7, <1>8, <1>9, <1>10, <1>11, <1>12,
     <1>13, <1>14, <1>15, <1>16 DEF Next, Create, Execute

-----------------------------------------------------------------------------
(* The inductive invariant *)

\* Every part of IInv but TypeOK and the worker's.
Books ==
    /\ RunsHaveReceipts
    /\ TasksBelong
    /\ CompleteHasTasks
    /\ CompletedIsDone
    /\ TasksKeepReceipts

LEMMA InitInv == Init => IInv
<1> SUFFICES ASSUME Init PROVE IInv
  OBVIOUS
<1>1. TypeOK
  BY InitType
<1>2. WorkerRuns /\ RunsHaveReceipts /\ CompleteHasTasks /\ CompletedIsDone
  BY DEF Init, WorkerRuns, RunsHaveReceipts, CompleteHasTasks, CompletedIsDone
<1>3. TasksBelong /\ TasksKeepReceipts
  BY TaskParts DEF Init, TasksBelong, HasTasks, TasksKeepReceipts, Live, Waiting
<1> QED
  BY <1>1, <1>2, <1>3 DEF IInv

\* A task that changes between two live statuses disturbs no books.
LEMMA StatusChange ==
    ASSUME IInv, NEW t \in Task, task[t] \in Live, NEW s \in Live,
           task' = [task EXCEPT ![t] = s],
           UNCHANGED <<made, creating, chosen, complete, verified>>
    PROVE  Books'
<1> USE DEF IInv
<1>1. \A u \in Task : task'[u] = IF u = t THEN s ELSE task[u]
  BY DEF TypeOK
<1>2. RunsHaveReceipts' /\ CompleteHasTasks'
  BY DEF RunsHaveReceipts, CompleteHasTasks, HasTasks
<1>3. TasksBelong'
  <2>1. task[t] # "none" /\ s # "none"
    BY DEF Live, Waiting
  <2> QED
    BY <1>1, <2>1 DEF TasksBelong, HasTasks
<1>4. CompletedIsDone'
  <2>1. task[t] # "done"
    BY DEF Live, Waiting
  <2>2. \A r : t \in TasksOf(r) => r \notin complete
    BY <2>1 DEF CompletedIsDone
  <2>3. \A r : TasksOf(r)' = TasksOf(r)
    BY DEF TasksOf
  <2> QED
    BY <1>1, <2>2, <2>3, TasksOfType DEF CompletedIsDone
<1>5. TasksKeepReceipts'
  BY <1>1 DEF TasksKeepReceipts
<1> QED
  BY <1>2, <1>3, <1>4, <1>5 DEF Books

\* The books of a run are closed by its last task only.
LEMMA FinishBooks ==
    ASSUME IInv, NEW t \in Task, task[t] \in Live, Finish(t),
           UNCHANGED <<made, creating, chosen, verified>>
    PROVE  Books'
<1> USE DEF IInv
<1>1. \A u \in Task : task'[u] = IF u = t THEN "done" ELSE task[u]
  BY DEF TypeOK, Finish
<1>2. HasTasks(RunOf(t)) /\ RunOf(t) \in Run
  BY TaskParts DEF TasksBelong, Live, Waiting
<1>3. RunsHaveReceipts'
  BY DEF RunsHaveReceipts
<1>4. TasksBelong'
  <2>1. task[t] # "none"
    BY DEF Live, Waiting
  <2> QED
    BY <1>1, <2>1 DEF TasksBelong, HasTasks
<1>5. complete' \subseteq complete \cup {RunOf(t)}
  BY DEF Finish
<1>6. CompleteHasTasks'
  BY <1>2, <1>5 DEF CompleteHasTasks, HasTasks
<1>7. CompletedIsDone'
  <2> SUFFICES ASSUME NEW r \in complete', NEW u \in TasksOf(r)'
               PROVE  task'[u] = "done"
    BY DEF CompletedIsDone
  <2>1. u \in Task /\ u \in TasksOf(r) /\ RunOf(u) = r
    BY DEF TasksOf
  <2>2. CASE u = t
    BY <1>1, <2>1, <2>2
  <2>3. CASE r \in complete
    BY <1>1, <2>1, <2>3 DEF CompletedIsDone
  <2>4. CASE u # t /\ r \notin complete
    <3>1. r = RunOf(t) /\ task[u] \notin Live
      BY <1>5, <2>1, <2>4 DEF Finish
    <3>2. task[u] # "none"
      BY <1>2, <2>1, <3>1 DEF TasksBelong, TasksOf
    <3>3. task[u] = "done"
      BY <2>1, <3>1, <3>2 DEF TypeOK
    <3> QED
      BY <1>1, <2>1, <2>4, <3>3
  <2> QED
    BY <2>2, <2>3, <2>4
<1>8. TasksKeepReceipts'
  BY <1>1 DEF TasksKeepReceipts, Live, Waiting
<1> QED
  BY <1>3, <1>4, <1>6, <1>7, <1>8 DEF Books

\* Nothing the books speak of changes.
LEMMA SameBooks ==
    ASSUME IInv, UNCHANGED <<made, creating, chosen, complete, verified, task>>
    PROVE  Books'
<1> USE DEF IInv
<1>1. RunsHaveReceipts' /\ CompleteHasTasks' /\ TasksBelong' /\ TasksKeepReceipts'
  BY DEF RunsHaveReceipts, CompleteHasTasks, HasTasks, TasksBelong, TasksKeepReceipts
<1>2. CompletedIsDone'
  BY DEF CompletedIsDone, TasksOf
<1> QED
  BY <1>1, <1>2 DEF Books

\* Only requests in flight change, and they become fewer.
LEMMA FewerRequests ==
    ASSUME IInv, UNCHANGED <<made, chosen, complete, verified, task>>,
           creating' \subseteq creating
    PROVE  Books'
<1> USE DEF IInv
<1>1. RunsHaveReceipts' /\ CompleteHasTasks' /\ TasksBelong' /\ TasksKeepReceipts'
  BY DEF RunsHaveReceipts, CompleteHasTasks, HasTasks, TasksBelong, TasksKeepReceipts
<1>2. CompletedIsDone'
  BY DEF CompletedIsDone, TasksOf
<1> QED
  BY <1>1, <1>2 DEF Books

\* The worker's task is live: it is leased.
LEMMA WorkerLive == ASSUME IInv, NEW t \in Task, cur = t PROVE task[t] \in Live
BY DEF IInv, WorkerRuns, Live

LEMMA DueLive == \A t \in Task : Due(t) => task[t] \in Live
BY DEF Due, Live, Waiting

-----------------------------------------------------------------------------
(* Every step *)

\* Creating a run moves its books from one insert to the next.
LEMMA CreateBooks ==
    ASSUME IInv, NEW r \in Run, SelectReceipts(r) \/ Create(r)
    PROVE  Books'
<1> USE DEF IInv
<1>1. CASE SelectReceipts(r)
  <2>1. made[r] = "none" /\ r \notin creating /\ r \notin complete
    BY <1>1 DEF SelectReceipts, RunsHaveReceipts, CompleteHasTasks, HasTasks, TypeOK
  <2>2. UNCHANGED <<made, task, complete, verified>>
    BY <1>1 DEF SelectReceipts, countVars, taskVars, worldVars
  <2>3. /\ chosen'[r] # {} /\ creating' = creating \cup {r}
        /\ \A q \in Run : q # r => chosen'[q] = chosen[q]
    <3>1. PICK s \in (SUBSET verified) \ {{}} : chosen' = [chosen EXCEPT ![r] = s]
      BY <1>1 DEF SelectReceipts
    <3>2. s # {} /\ chosen \in [Run -> SUBSET Receipt]
      BY <3>1 DEF TypeOK
    <3> QED
      BY <1>1, <3>1, <3>2 DEF SelectReceipts
  <2>4. RunsHaveReceipts'
    BY <2>2, <2>3 DEF RunsHaveReceipts
  <2>5. TasksBelong'
    BY <2>1, <2>2, <2>3, TaskParts DEF TasksBelong, HasTasks
  <2>6. CompleteHasTasks' /\ TasksKeepReceipts'
    BY <2>2 DEF CompleteHasTasks, HasTasks, TasksKeepReceipts
  <2>7. CompletedIsDone'
    <3>1. \A q \in complete : q # r /\ TasksOf(q)' = TasksOf(q)
      BY <2>1, <2>3 DEF TasksOf, TypeOK
    <3> QED
      BY <2>2, <3>1 DEF CompletedIsDone
  <2> QED
    BY <2>4, <2>5, <2>6, <2>7 DEF Books
<1>2. CASE InsertRun(r) \/ InsertSummaries(r)
  <2>1. UNCHANGED <<chosen, task, complete, verified>> /\ creating' \subseteq creating
    BY <1>2 DEF InsertRun, InsertSummaries, countVars, taskVars, worldVars
  <2>2. r \in creating /\ \A q \in Run : HasTasks(q)' = HasTasks(q)
    BY <1>2 DEF InsertRun, InsertSummaries, HasTasks, TypeOK
  <2>3. \A q \in Run : q # r => made'[q] = made[q]
    BY <1>2 DEF InsertRun, InsertSummaries, TypeOK
  <2>4. RunsHaveReceipts'
    BY <2>1, <2>2, <2>3 DEF RunsHaveReceipts
  <2>5. TasksBelong'
    BY <2>1, <2>2, TaskParts DEF TasksBelong
  <2>6. CompleteHasTasks' /\ TasksKeepReceipts'
    BY <2>1, <2>2 DEF CompleteHasTasks, TasksKeepReceipts, TypeOK
  <2>7. CompletedIsDone'
    BY <2>1 DEF CompletedIsDone, TasksOf
  <2> QED
    BY <2>4, <2>5, <2>6, <2>7 DEF Books
<1>3. CASE InsertTasks(r)
  <2>1. UNCHANGED <<chosen, complete, verified>>
    BY <1>3 DEF InsertTasks, countVars, worldVars
  <2>2. CASE r \notin Repeating /\ chosen[r] \subseteq verified
    <3>1. /\ UNCHANGED creating /\ r \in creating /\ made[r] = "row" /\ made'[r] = "tasks"
          /\ \A q \in Run : q # r => made'[q] = made[q]
      BY <1>3, <2>2 DEF InsertTasks, TypeOK
    <3>2. \A t \in Task : task'[t] = IF t \in TasksOf(r) THEN "queued" ELSE task[t]
      BY <1>3, <2>2 DEF InsertTasks
    <3>3. r \notin complete
      BY <3>1 DEF CompleteHasTasks, HasTasks
    <3>4. RunsHaveReceipts'
      BY <2>1, <3>1 DEF RunsHaveReceipts
    <3>5. TasksBelong'
      <4> SUFFICES ASSUME NEW t \in Task
                   PROVE  task'[t] # "none" <=>
                            HasTasks(RunOf(t))' /\ ReceiptOf(t) \in chosen[RunOf(t)]
        BY <2>1 DEF TasksBelong
      <4>1. RunOf(t) \in Run
        BY TaskParts
      <4>2. CASE RunOf(t) = r
        BY <3>1, <3>2, <4>2 DEF TasksBelong, HasTasks, TasksOf
      <4>3. CASE RunOf(t) # r
        BY <3>1, <3>2, <4>1, <4>3 DEF TasksBelong, HasTasks, TasksOf
      <4> QED
        BY <4>2, <4>3
    <3>6. CompleteHasTasks'
      BY <2>1, <3>1, <3>3 DEF CompleteHasTasks, HasTasks, TypeOK
    <3>7. CompletedIsDone'
      BY <2>1, <3>2, <3>3 DEF CompletedIsDone, TasksOf
    <3>8. TasksKeepReceipts'
      BY <2>1, <2>2, <3>2 DEF TasksKeepReceipts, TasksOf
    <3> QED
      BY <3>4, <3>5, <3>6, <3>7, <3>8 DEF Books
  <2>3. CASE ~(r \notin Repeating /\ chosen[r] \subseteq verified)
    <3>1. UNCHANGED <<made, task>> /\ creating' \subseteq creating
      BY <1>3, <2>3 DEF InsertTasks
    <3> QED
      BY <2>1, <3>1, FewerRequests
  <2> QED
    BY <2>2, <2>3
<1> QED
  BY <1>1, <1>2, <1>3 DEF Create

LEMMA Step == IInv /\ [Next]_vars => IInv'
<1> SUFFICES ASSUME IInv, [Next]_vars PROVE IInv'
  OBVIOUS
<1> USE DEF runVars, countVars, taskVars, workerVars, worldVars
<1>1. TypeOK'
  BY StepType DEF IInv
<1>2. Books'
  <2>1. ASSUME NEW r \in Run, SelectReceipts(r) \/ Create(r) PROVE Books'
    BY <2>1, CreateBooks
  <2>2. ASSUME NEW t \in Task, LeaseTask(t) \/ LeaseLost(t) PROVE Books'
    <3>1. Due(t) /\ task' = [task EXCEPT ![t] = "running"]
          /\ UNCHANGED <<made, creating, chosen, complete, verified>>
      BY <2>2 DEF LeaseTask, LeaseLost, TakeLease, First
    <3>2. "running" \in Live
      BY DEF Live
    <3> QED
      BY <3>1, <3>2, DueLive, StatusChange
  <2>3. ASSUME NEW t \in Task, Transient(t) \/ ModelMissing(t) PROVE Books'
    <3>1. PICK s \in {"retrying", "waiting_for_model"} : PutBack(t, s)
      BY <2>3 DEF Transient, ModelMissing
    <3>2. cur = t /\ UNCHANGED <<made, creating, chosen, complete, verified>>
      BY <2>3 DEF Transient, ModelMissing
    <3>3. s \in Live
      BY DEF Live, Waiting
    <3> QED
      BY <3>1, <3>2, <3>3, WorkerLive, StatusChange DEF PutBack
  <2>4. ASSUME NEW t \in Task, Conclude(t) \/ FinishLost(t) PROVE Books'
    <3>1. cur = t /\ Finish(t) /\ UNCHANGED <<made, creating, chosen, verified>>
      BY <2>4 DEF Conclude, FinishLost
    <3> QED
      BY <3>1, WorkerLive, FinishBooks
  <2>5. ASSUME NEW x \in Receipt, DeleteReceipt(x) PROVE Books'
    <3>1. UNCHANGED <<made, creating, chosen, complete, task>>
      BY <2>5 DEF DeleteReceipt
    <3>2. TasksKeepReceipts'
      BY <2>5, <3>1, TaskParts DEF DeleteReceipt, TasksKeepReceipts, IInv
    <3>3. RunsHaveReceipts' /\ CompleteHasTasks' /\ TasksBelong'
      BY <3>1 DEF IInv, RunsHaveReceipts, CompleteHasTasks, HasTasks, TasksBelong
    <3>4. CompletedIsDone'
      BY <3>1 DEF IInv, CompletedIsDone, TasksOf
    <3> QED
      BY <3>2, <3>3, <3>4 DEF Books
  <2>6. CASE \/ Tick \/ UNCHANGED vars
             \/ \E m \in Model : ModelLeaves(m) \/ ModelReturns(m)
             \/ \E t \in Task : ExecuteFails(t)
    <3>1. UNCHANGED <<made, creating, chosen, complete, verified, task>>
      BY <2>6 DEF Tick, vars, ModelLeaves, ModelReturns, ExecuteFails
    <3> QED
      BY <3>1, SameBooks
  <2>7. CASE Crash
    BY <2>7, FewerRequests DEF Crash
  <2> QED
    BY <2>1, <2>2, <2>3, <2>4, <2>5, <2>6, <2>7 DEF Next, Execute
<1>3. WorkerRuns'
  <2>1. ASSUME Release PROVE WorkerRuns'
    BY <2>1 DEF Release, WorkerRuns
  <2>2. ASSUME NEW t \in Task, LeaseTask(t) PROVE WorkerRuns'
    BY <2>2 DEF LeaseTask, TakeLease, WorkerRuns, IInv, TypeOK
  <2>3. ASSUME NEW t \in Task, LeaseLost(t) PROVE WorkerRuns'
    BY <2>3 DEF LeaseLost, TakeLease, WorkerRuns
  <2>4. ASSUME NEW r \in Run, InsertTasks(r) PROVE WorkerRuns'
    <3>1. CASE UNCHANGED task
      BY <2>4, <3>1 DEF InsertTasks, WorkerRuns, IInv
    <3>2. CASE made[r] = "row" /\ task' = [t \in Task |-> IF t \in TasksOf(r)
                                                      THEN "queued" ELSE task[t]]
      <4> SUFFICES ASSUME cur # NoTask PROVE task'[cur] = "running"
        BY <2>4 DEF InsertTasks, WorkerRuns
      <4>1. cur \in Task /\ task[cur] = "running"
        BY DEF IInv, TypeOK, WorkerRuns
      <4>2. HasTasks(RunOf(cur))
        BY <4>1 DEF IInv, TasksBelong
      <4>3. cur \notin TasksOf(r)
        BY <3>2, <4>2 DEF HasTasks, TasksOf
      <4> QED
        BY <3>2, <4>1, <4>3
    <3> QED
      BY <2>4, <3>1, <3>2 DEF InsertTasks
  <2>5. CASE \/ Tick \/ UNCHANGED vars
             \/ \E r \in Run : SelectReceipts(r) \/ InsertRun(r) \/ InsertSummaries(r)
             \/ \E m \in Model : ModelLeaves(m) \/ ModelReturns(m)
             \/ \E x \in Receipt : DeleteReceipt(x)
    <3>1. UNCHANGED <<cur, task>>
      BY <2>5 DEF Tick, vars, SelectReceipts, InsertRun, InsertSummaries, ModelLeaves,
                  ModelReturns, DeleteReceipt
    <3> QED
      BY <3>1 DEF WorkerRuns, IInv
  <2>6. CASE \/ Crash
             \/ \E t \in Task : \/ Transient(t) \/ ModelMissing(t) \/ Conclude(t)
                               \/ ExecuteFails(t) \/ FinishLost(t)
    <3>1. Release
      BY <2>6 DEF Crash, Transient, ModelMissing, Conclude, ExecuteFails, FinishLost
    <3> QED
      BY <2>1, <3>1
  <2> QED
    BY <2>2, <2>3, <2>4, <2>5, <2>6 DEF Next, Create, Execute
<1> QED
  BY <1>1, <1>2, <1>3 DEF IInv, Books

LEMMA Inductive == Spec => []IInv
BY InitInv, Step, PTL DEF Spec

-----------------------------------------------------------------------------
(* The accounts *)

\* The tasks that a summary has counted: those that are done and were not
\* when the summary was not there.
Counted(r, m) ==
    {t \in Task : RunOf(t) = r /\ ModelOf(t) = m /\ task[t] = "done" /\ t \notin uncounted}

Accounts ==
    /\ \A t \in uncounted : task[t] = "done"
    /\ \A r \in Run, m \in Model : completed[<<r, m>>] = Cardinality(Counted(r, m))

LEMMA CountedFinite == ASSUME NEW r \in Run, NEW m \in Model
                       PROVE  IsFiniteSet(Counted(r, m))
<1> DEFINE All == {t \in Task : RunOf(t) = r /\ ModelOf(t) = m}
           f == [x \in Receipt |-> <<r, m, x>>]
<1>1. f \in [Receipt -> All]
  BY DEF Task, RunOf, ModelOf
<1>2. \A t \in All : \E x \in Receipt : f[x] = t
  BY DEF Task, RunOf, ModelOf
<1>3. f \in Surjection(Receipt, All)
  BY <1>1, <1>2, Fun_IsSurj
<1>4. IsFiniteSet(All)
  BY <1>3, FiniteAssumption, FS_Surjection DEF FiniteAssumption
<1>5. Counted(r, m) \in SUBSET All
  BY DEF Counted
<1> HIDE DEF All
<1> QED
  BY <1>4, <1>5, FS_Subset

LEMMA InitAccounts == Init => Accounts
<1> SUFFICES ASSUME Init, NEW r \in Run, NEW m \in Model
             PROVE  completed[<<r, m>>] = Cardinality(Counted(r, m))
  BY DEF Init, Accounts
<1>1. Counted(r, m) = {} /\ completed[<<r, m>>] = 0
  BY DEF Init, Counted
<1> QED
  BY <1>1, FS_EmptySet

\* A step by which no task becomes or ceases to be done writes no summary.
LEMMA SameAccounts ==
    ASSUME Accounts, UNCHANGED <<completed, uncounted>>,
           \A t \in Task : task'[t] = "done" <=> task[t] = "done", TypeOK
    PROVE  Accounts'
<1>1. \A r \in Run, m \in Model : Counted(r, m)' = Counted(r, m)
  BY DEF Counted
<1>2. \A t \in uncounted' : task'[t] = "done"
  BY DEF Accounts, TypeOK
<1> QED
  BY <1>1, <1>2 DEF Accounts

\* One task is done by one transaction, that counts it or says that it did not.
LEMMA FinishAccounts ==
    ASSUME Accounts, TypeOK, NEW t \in Task, task[t] # "done", Finish(t)
    PROVE  Accounts'
<1>1. /\ \A u \in Task : task'[u] = IF u = t THEN "done" ELSE task[u]
      /\ uncounted \subseteq Task /\ t \notin uncounted
      /\ RunOf(t) \in Run /\ ModelOf(t) \in Model
  BY TaskParts DEF TypeOK, Finish, Accounts
<1>2. \A u \in uncounted' : task'[u] = "done"
  BY <1>1 DEF Accounts, Finish
<1> SUFFICES ASSUME NEW r \in Run, NEW m \in Model
             PROVE  completed'[<<r, m>>] = Cardinality(Counted(r, m)')
  BY <1>2 DEF Accounts
<1>3. completed[<<r, m>>] = Cardinality(Counted(r, m))
  BY DEF Accounts
<1>4. CASE made[RunOf(t)] = "ready" /\ r = RunOf(t) /\ m = ModelOf(t)
  <2>1. Counted(r, m)' = Counted(r, m) \cup {t} /\ t \notin Counted(r, m)
    BY <1>1, <1>4 DEF Counted, Finish
  <2>2. completed'[<<r, m>>] = completed[<<r, m>>] + 1
    BY <1>4 DEF Finish, TypeOK
  <2> QED
    BY <1>3, <2>1, <2>2, CountedFinite, FS_AddElement
<1>5. CASE ~(made[RunOf(t)] = "ready" /\ r = RunOf(t) /\ m = ModelOf(t))
  <2>1. Counted(r, m)' = Counted(r, m)
    BY <1>1, <1>5 DEF Counted, Finish
  <2>2. completed'[<<r, m>>] = completed[<<r, m>>]
    BY <1>1, <1>5 DEF Finish, TypeOK
  <2> QED
    BY <1>3, <2>1, <2>2
<1> QED
  BY <1>4, <1>5

LEMMA StepAccounts == IInv /\ Accounts /\ [Next]_vars => Accounts'
<1> SUFFICES ASSUME IInv, Accounts, [Next]_vars PROVE Accounts'
  OBVIOUS
<1> USE DEF runVars, countVars, taskVars, workerVars, worldVars
<1>0. TypeOK
  BY DEF IInv
<1>1. ASSUME UNCHANGED <<completed, uncounted, task>> PROVE Accounts'
  BY <1>0, <1>1, SameAccounts
<1>2. ASSUME NEW r \in Run, InsertTasks(r) PROVE Accounts'
  <2>1. CASE made[r] = "row" /\ task' = [t \in Task |-> IF t \in TasksOf(r)
                                                    THEN "queued" ELSE task[t]]
    <3>1. \A t \in TasksOf(r) : task[t] = "none"
      BY <2>1 DEF IInv, TasksBelong, HasTasks, TasksOf
    <3>2. \A t \in Task : task'[t] = "done" <=> task[t] = "done"
      BY <2>1, <3>1
    <3> QED
      BY <1>0, <1>2, <3>2, SameAccounts DEF InsertTasks
  <2> QED
    BY <1>1, <1>2, <2>1 DEF InsertTasks
<1>3. ASSUME NEW t \in Task, task[t] \in Live, NEW s \in Live,
             task' = [task EXCEPT ![t] = s], UNCHANGED <<completed, uncounted>>
      PROVE  Accounts'
  <2>1. \A u \in Task : task'[u] = "done" <=> task[u] = "done"
    BY <1>0, <1>3 DEF Live, Waiting, TypeOK
  <2> QED
    BY <1>0, <1>3, <2>1, SameAccounts
<1>4. ASSUME NEW t \in Task, LeaseTask(t) \/ LeaseLost(t) PROVE Accounts'
  <2>1. Due(t) /\ task' = [task EXCEPT ![t] = "running"]
        /\ UNCHANGED <<completed, uncounted>>
    BY <1>4 DEF LeaseTask, LeaseLost, TakeLease, First
  <2>2. "running" \in Live
    BY DEF Live
  <2> QED
    BY <1>3, <2>1, <2>2, DueLive
<1>5. ASSUME NEW t \in Task, Transient(t) \/ ModelMissing(t) PROVE Accounts'
  <2>1. PICK s \in {"retrying", "waiting_for_model"} : PutBack(t, s)
    BY <1>5 DEF Transient, ModelMissing
  <2>2. cur = t /\ UNCHANGED <<completed, uncounted>> /\ s \in Live
    BY <1>5 DEF Transient, ModelMissing, Live, Waiting
  <2> QED
    BY <1>3, <2>1, <2>2, WorkerLive DEF PutBack
<1>6. ASSUME NEW t \in Task, Conclude(t) \/ FinishLost(t) PROVE Accounts'
  <2>1. cur = t /\ Finish(t)
    BY <1>6 DEF Conclude, FinishLost
  <2>2. task[t] # "done"
    BY <2>1, WorkerLive DEF Live, Waiting
  <2> QED
    BY <1>0, <2>1, <2>2, FinishAccounts
<1>7. CASE \/ Tick \/ Crash \/ UNCHANGED vars
           \/ \E r \in Run : SelectReceipts(r) \/ InsertRun(r) \/ InsertSummaries(r)
           \/ \E m \in Model : ModelLeaves(m) \/ ModelReturns(m)
           \/ \E x \in Receipt : DeleteReceipt(x)
           \/ \E t \in Task : ExecuteFails(t)
  <2>1. UNCHANGED <<completed, uncounted, task>>
    BY <1>7 DEF Tick, Crash, vars, SelectReceipts, InsertRun, InsertSummaries,
                ModelLeaves, ModelReturns, DeleteReceipt, ExecuteFails
  <2> QED
    BY <1>1, <2>1
<1> QED
  BY <1>2, <1>4, <1>5, <1>6, <1>7 DEF Next, Create, Execute

LEMMA InductiveAccounts == Spec => []Accounts
BY Inductive, InitAccounts, StepAccounts, PTL DEF Spec

-----------------------------------------------------------------------------
(* Theorems *)

\* Every row, the worker and the requests in flight stay in their types.
THEOREM TypeCorrect == Spec => []TypeOK
<1>1. IInv => TypeOK
  BY DEF IInv
<1> QED
  BY <1>1, Inductive, PTL

\* A run reported completed has no task left, whatever the worker, the
\* requests, lost answers and restarts did in between (finish_task).
THEOREM CompletedRunsAreDone == Spec => []CompletedIsDone
<1>1. IInv => CompletedIsDone
  BY DEF IInv
<1> QED
  BY <1>1, Inductive, PTL

\* A task that is left has its receipt, although receipts are deleted while
\* runs are created and executed (the foreign key of benchmark_tasks).
THEOREM TasksHaveReceipts == Spec => []TasksKeepReceipts
<1>1. IInv => TasksKeepReceipts
  BY DEF IInv
<1> QED
  BY <1>1, Inductive, PTL

\* Each finished task is counted exactly once in the summary of its model, if
\* that was there, through retries, lost answers and restarts (finish_task).
THEOREM EveryTaskCountsOnce == Spec => []AccountsBalance
<1>1. IInv /\ Accounts => AccountsBalance
  <2> SUFFICES ASSUME IInv, Accounts, NEW r \in Run, NEW m \in Model
               PROVE  Counted(r, m) = DoneOf(r, m) \ uncounted
    BY DEF Accounts, AccountsBalance
  <2> QED
    BY DEF Counted, DoneOf, TasksOf, IInv, TasksBelong
<1> QED
  BY <1>1, Inductive, InductiveAccounts, PTL

-----------------------------------------------------------------------------
(* The ledger *)

LEMMA InitLedger == Init => Ledger!Init
BY DEF Init, Ledger!Init, Live, Waiting

\* The books of the ledger stay as they are when no task begins or ends.
LEMMA LedgerStutters ==
    ASSUME UNCHANGED <<made, completed, complete, verified>>,
           \A t \in Task : task'[t] \in Live <=> task[t] \in Live,
           \A t \in Task : task'[t] = "done" <=> task[t] = "done"
    PROVE  UNCHANGED Ledger!ledger
<1>1. {t \in Task : task[t] \in Live}' = {t \in Task : task[t] \in Live}
  BY DEF Live
<1>2. {t \in Task : task[t] = "done"}' = {t \in Task : task[t] = "done"}
  OBVIOUS
<1>3. {r \in Run : made[r] = "ready"}' = {r \in Run : made[r] = "ready"}
  OBVIOUS
<1> QED
  BY <1>1, <1>2, <1>3 DEF Ledger!ledger

\* The second insert opens all tasks of a run: it had none.
LEMMA InsertOpens ==
    ASSUME IInv, NEW r \in Run, InsertTasks(r)
    PROVE  Ledger!Open(r) \/ UNCHANGED Ledger!ledger
<1>0. UNCHANGED <<completed, complete, verified, chosen>>
  BY DEF InsertTasks, countVars, worldVars
<1>1. CASE r \notin Repeating /\ chosen[r] \subseteq verified
  <2>1. /\ made[r] = "row" /\ made' = [made EXCEPT ![r] = "tasks"]
        /\ \A t \in Task : task'[t] = IF t \in TasksOf(r) THEN "queued" ELSE task[t]
    BY <1>1 DEF InsertTasks
  <2>2. \A t \in Task : RunOf(t) = r => task[t] = "none"
    BY <2>1 DEF IInv, TasksBelong, HasTasks
  <2>3. chosen[r] # {} /\ chosen[r] \in SUBSET verified
    BY <1>1, <2>1 DEF IInv, RunsHaveReceipts
  <2>4. TasksOf(r) = {r} \X Model \X chosen[r]
    <3>1. chosen[r] \subseteq Receipt
      BY DEF IInv, TypeOK
    <3> QED
      BY <3>1 DEF TasksOf, Task, RunOf, ReceiptOf
  <2>5. {t \in Task : task[t] \in Live}' = {t \in Task : task[t] \in Live} \cup TasksOf(r)
    BY <2>1, TasksOfType DEF Live, Waiting
  <2>6. {t \in Task : task[t] = "done"}' = {t \in Task : task[t] = "done"}
    BY <2>1, <2>2 DEF TasksOf
  <2>7. {q \in Run : made[q] = "ready"}' = {q \in Run : made[q] = "ready"}
    BY <2>1 DEF IInv, TypeOK
  <2>8. \A t \in {u \in Task : task[u] \in Live} \cup {u \in Task : task[u] = "done"} :
            t[1] # r
    BY <2>2 DEF Live, Waiting, RunOf
  <2> QED
    BY <1>0, <2>3, <2>4, <2>5, <2>6, <2>7, <2>8 DEF Ledger!Open
<1>2. CASE ~(r \notin Repeating /\ chosen[r] \subseteq verified)
  <2>1. UNCHANGED <<made, task>>
    BY <1>2 DEF InsertTasks
  <2> QED
    BY <1>0, <2>1, LedgerStutters
<1> QED
  BY <1>1, <1>2

LEMMA SummariesAnnounce ==
    ASSUME IInv, NEW r \in Run, InsertSummaries(r)
    PROVE  Ledger!Announce(r)
<1>1. /\ made[r] = "tasks" /\ made' = [made EXCEPT ![r] = "ready"]
      /\ UNCHANGED <<completed, complete, task, verified>>
  BY DEF InsertSummaries, countVars, taskVars, worldVars
<1>2. {q \in Run : made[q] = "ready"}' = {q \in Run : made[q] = "ready"} \cup {r}
  BY <1>1 DEF IInv, TypeOK
<1> QED
  BY <1>1, <1>2 DEF Ledger!Announce

\* finish_task is one entry of the ledger.
LEMMA FinishCloses ==
    ASSUME IInv, NEW t \in Task, task[t] \in Live, Finish(t), UNCHANGED <<made, verified>>
    PROVE  Ledger!Close(t)
<1> DEFINE due == {u \in Task : task[u] \in Live}
<1>1. \A u \in Task : task'[u] = IF u = t THEN "done" ELSE task[u]
  BY DEF IInv, TypeOK, Finish
<1>2. due' = due \ {t}
  BY <1>1 DEF Live, Waiting
<1>3. {u \in Task : task[u] = "done"}' = {u \in Task : task[u] = "done"} \cup {t}
  BY <1>1
<1>4. IF t[1] \in {r \in Run : made[r] = "ready"}
        THEN completed' = [completed EXCEPT ![<<t[1], t[2]>>] = @ + 1]
        ELSE UNCHANGED completed
  BY TaskParts DEF Finish, RunOf, ModelOf
<1>5. IF \A u \in due' : u[1] # t[1]
        THEN complete' = complete \cup {t[1]}
        ELSE UNCHANGED complete
  <2>1. (\A u \in due' : u[1] # t[1])
          <=> {u \in Task : RunOf(u) = RunOf(t) /\ u # t /\ task[u] \in Live} = {}
    BY <1>2 DEF RunOf
  <2> HIDE DEF due
  <2> QED
    BY <2>1 DEF Finish, RunOf
<1>6. {r \in Run : made[r] = "ready"}' = {r \in Run : made[r] = "ready"}
  OBVIOUS
<1> QED
  BY <1>2, <1>3, <1>4, <1>5, <1>6 DEF Ledger!Close

LEMMA StepLedger == IInv /\ [Next]_vars => [Ledger!Next]_(Ledger!ledger)
<1> SUFFICES ASSUME IInv, [Next]_vars PROVE Ledger!Next \/ UNCHANGED Ledger!ledger
  OBVIOUS
<1> USE DEF runVars, countVars, taskVars, workerVars, worldVars
<1>1. ASSUME NEW r \in Run, InsertTasks(r) PROVE Ledger!Next \/ UNCHANGED Ledger!ledger
  BY <1>1, InsertOpens DEF Ledger!Next
<1>2. ASSUME NEW r \in Run, InsertSummaries(r) PROVE Ledger!Next
  BY <1>2, SummariesAnnounce DEF Ledger!Next
<1>3. ASSUME NEW r \in Run, SelectReceipts(r) \/ InsertRun(r) PROVE UNCHANGED Ledger!ledger
  <2>1. {q \in Run : made[q] = "ready"}' = {q \in Run : made[q] = "ready"}
    BY <1>3 DEF SelectReceipts, InsertRun, IInv, TypeOK
  <2>2. UNCHANGED <<completed, complete, task, verified>>
    BY <1>3 DEF SelectReceipts, InsertRun
  <2> QED
    BY <2>1, <2>2 DEF Ledger!ledger
<1>4. ASSUME NEW t \in Task, task[t] \in Live, NEW s \in Live,
             task' = [task EXCEPT ![t] = s], UNCHANGED <<made, completed, complete, verified>>
      PROVE  UNCHANGED Ledger!ledger
  <2>1. \A u \in Task : /\ task'[u] \in Live <=> task[u] \in Live
                        /\ task'[u] = "done" <=> task[u] = "done"
    BY <1>4 DEF Live, Waiting, IInv, TypeOK
  <2> QED
    BY <1>4, <2>1, LedgerStutters
<1>5. ASSUME NEW t \in Task, LeaseTask(t) \/ LeaseLost(t) PROVE UNCHANGED Ledger!ledger
  <2>1. Due(t) /\ task' = [task EXCEPT ![t] = "running"]
        /\ UNCHANGED <<made, completed, complete, verified>>
    BY <1>5 DEF LeaseTask, LeaseLost, TakeLease, First
  <2>2. "running" \in Live
    BY DEF Live
  <2> QED
    BY <1>4, <2>1, <2>2, DueLive
<1>6. ASSUME NEW t \in Task, Transient(t) \/ ModelMissing(t) PROVE UNCHANGED Ledger!ledger
  <2>1. PICK s \in {"retrying", "waiting_for_model"} : PutBack(t, s)
    BY <1>6 DEF Transient, ModelMissing
  <2>2. cur = t /\ UNCHANGED <<made, completed, complete, verified>> /\ s \in Live
    BY <1>6 DEF Transient, ModelMissing, Live, Waiting
  <2> QED
    BY <1>4, <2>1, <2>2, WorkerLive DEF PutBack
<1>7. ASSUME NEW t \in Task, Conclude(t) \/ FinishLost(t) PROVE Ledger!Next
  <2>1. cur = t /\ Finish(t) /\ UNCHANGED <<made, verified>>
    BY <1>7 DEF Conclude, FinishLost
  <2>2. Ledger!Close(t)
    BY <2>1, WorkerLive, FinishCloses
  <2> QED
    BY <2>2 DEF Ledger!Next, Ledger!Task, Task
<1>8. ASSUME NEW x \in Receipt, DeleteReceipt(x) PROVE Ledger!Next
  <2>1. /\ x \in verified /\ verified' = verified \ {x}
        /\ \A t \in {u \in Task : task[u] \in Live} : t[3] # x
        /\ UNCHANGED <<made, completed, complete, task>>
    BY <1>8 DEF DeleteReceipt, ReceiptOf
  <2>2. Ledger!Withdraw(x)
    BY <2>1 DEF Ledger!Withdraw
  <2> QED
    BY <2>2 DEF Ledger!Next
<1>9. CASE \/ Tick \/ Crash \/ UNCHANGED vars
           \/ \E m \in Model : ModelLeaves(m) \/ ModelReturns(m)
           \/ \E t \in Task : ExecuteFails(t)
  <2>1. UNCHANGED <<made, completed, complete, task, verified>>
    BY <1>9 DEF Tick, Crash, vars, ModelLeaves, ModelReturns, ExecuteFails
  <2> QED
    BY <2>1, LedgerStutters
<1> QED
  BY <1>1, <1>2, <1>3, <1>5, <1>6, <1>7, <1>8, <1>9 DEF Next, Create, Execute

\* What a run reports is what the ledger allows: tasks due at once, each
\* closed and counted once, the run completed with the last of them, and
\* receipts that stay while they are needed (restart-safe, finish_task).
THEOREM LedgerIsKept == Spec => ImplementsLedger
BY Inductive, InitLedger, StepLedger, PTL DEF Spec, ImplementsLedger, Ledger!Spec

LEMMA LedgerBegins == Ledger!Init => Ledger!BooksBalance
BY DEF Ledger!Init, Ledger!BooksBalance

\* Every entry leaves the books of the ledger balanced.
LEMMA LedgerBalances ==
    Ledger!BooksBalance /\ [Ledger!Next]_(Ledger!ledger) => Ledger!BooksBalance'
<1> DEFINE due == {t \in Task : task[t] \in Live}
           closed == {t \in Task : task[t] = "done"}
<1> SUFFICES ASSUME Ledger!BooksBalance, Ledger!Next \/ UNCHANGED Ledger!ledger
             PROVE  Ledger!BooksBalance'
  OBVIOUS
<1>0. /\ due \cap closed = {}
      /\ \A t \in due : t[3] \in verified
      /\ \A r \in Run :
            r \in complete <=> (\E t \in closed : t[1] = r) /\ (\A t \in due : t[1] # r)
  BY DEF Ledger!BooksBalance
<1>1. ASSUME NEW r \in Run, Ledger!Open(r) PROVE Ledger!BooksBalance'
  <2>1. /\ \A t \in due \cup closed : t[1] # r
        /\ UNCHANGED <<closed, complete, verified>>
    BY <1>1 DEF Ledger!Open
  <2>2. PICK xs \in SUBSET verified : due' = due \cup ({r} \X Model \X xs)
    BY <1>1 DEF Ledger!Open
  <2>3. \A t \in {r} \X Model \X xs : t[1] = r /\ t[3] \in xs
    OBVIOUS
  <2> HIDE DEF due, closed
  <2>4. due' \cap closed' = {} /\ \A t \in due' : t[3] \in verified'
    BY <1>0, <2>1, <2>2, <2>3
  <2>5. ASSUME NEW q \in Run
        PROVE  q \in complete' <=> (\E t \in closed' : t[1] = q) /\ (\A t \in due' : t[1] # q)
    <3>1. CASE q = r
      BY <1>0, <2>1, <3>1
    <3>2. CASE q # r
      <4>1. (\A t \in due' : t[1] # q) <=> (\A t \in due : t[1] # q)
        BY <2>2, <2>3, <3>2
      <4> QED
        BY <1>0, <2>1, <4>1
    <3> QED
      BY <3>1, <3>2
  <2> QED
    BY <2>4, <2>5 DEF Ledger!BooksBalance, due, closed
<1>2. ASSUME NEW t \in Task, Ledger!Close(t) PROVE Ledger!BooksBalance'
  <2>1. /\ t \in due /\ due' = due \ {t} /\ closed' = closed \cup {t} /\ UNCHANGED verified
        /\ IF \A u \in due' : u[1] # t[1]
             THEN complete' = complete \cup {t[1]}
             ELSE UNCHANGED complete
    BY <1>2 DEF Ledger!Close
  <2>2. t[1] \in Run
    BY DEF Task
  <2> HIDE DEF due, closed
  <2>3. due' \cap closed' = {} /\ \A u \in due' : u[3] \in verified'
    BY <1>0, <2>1
  <2>4. ASSUME NEW q \in Run
        PROVE  q \in complete' <=> (\E u \in closed' : u[1] = q) /\ (\A u \in due' : u[1] # q)
    <3>1. CASE q = t[1]
      BY <1>0, <2>1, <2>2, <3>1
    <3>2. CASE q # t[1]
      <4>1. q \in complete' <=> q \in complete
        BY <2>1, <3>2
      <4>2. (\A u \in due' : u[1] # q) <=> (\A u \in due : u[1] # q)
        BY <2>1, <3>2
      <4>3. (\E u \in closed' : u[1] = q) <=> (\E u \in closed : u[1] = q)
        BY <2>1, <3>2
      <4> QED
        BY <1>0, <4>1, <4>2, <4>3
    <3> QED
      BY <3>1, <3>2
  <2> QED
    BY <2>3, <2>4 DEF Ledger!BooksBalance, due, closed
<1>3. ASSUME NEW x \in Receipt, Ledger!Withdraw(x) PROVE Ledger!BooksBalance'
  <2>1. /\ \A t \in due : t[3] # x
        /\ verified' = verified \ {x} /\ UNCHANGED <<due, closed, complete>>
    BY <1>3 DEF Ledger!Withdraw
  <2> HIDE DEF due, closed
  <2> QED
    BY <1>0, <2>1 DEF Ledger!BooksBalance, due, closed
<1>4. CASE UNCHANGED Ledger!ledger \/ \E r \in Run : Ledger!Announce(r)
  <2>1. UNCHANGED <<due, closed, complete, verified>>
    BY <1>4 DEF Ledger!Announce, Ledger!ledger
  <2> HIDE DEF due, closed
  <2> QED
    BY <1>0, <2>1 DEF Ledger!BooksBalance, due, closed
<1> QED
  BY <1>1, <1>2, <1>3, <1>4 DEF Ledger!Next, Ledger!Task, Task

\* What the ledger promises of completed runs, the queue keeps: proved of the
\* abstract specification and brought here by the refinement (finish_task).
THEOREM CompletedJustWhenDone == Spec => []CompletedWhenDone
<1>1. Ledger!Spec => []Ledger!BooksBalance
  BY LedgerBegins, LedgerBalances, PTL DEF Ledger!Spec
<1>2. Ledger!BooksBalance => CompletedWhenDone
  BY DEF Ledger!BooksBalance, CompletedWhenDone, RunOf
<1> QED
  BY <1>1, <1>2, LedgerIsKept, PTL DEF ImplementsLedger
=============================================================================
