# A TLA+ model of VisionBill

VisionBill turns photos of receipts into reviewed, structured records: photos
are uploaded, a background scheduler has a vision model extract them, users
verify or edit the result, and administrators measure models against the
verified receipts. The server is one asyncio process over PostgreSQL (asyncpg)
and a directory of files. Almost every statement is its own transaction, and
every `await` is a point where another request, the scheduler or the benchmark
worker runs. What can go wrong is therefore in the order of small database and
file steps, in what a step remembers from before an `await`, and in what is left
when the process or a call stops half-way. That is what these modules model.

Paths below are relative to `src/src/vision_bill/` unless they start with `src/`.

## Inventory

| Component | State | Operations | Interacts with | What is hard | What makes it correct |
|---|---|---|---|---|---|
| Image analysis queue: `service/analysis_scheduler.py`, `provider/db/image_db.py`, `api/images.py`, `persist_receipt` and `delete_receipt` of `provider/db/receipt_db.py`, `api/receipts.py` | `images` (status, processing_at, receipt_id), `receipts` (status, image_id), the scheduler's event and lock, what each coroutine holds | upload with optional inline analysis, list, claim under a 15-minute lease, LLM call, persist, mark, delete image, verify, delete receipt | LLM provider; the files; benchmark tasks (foreign key) | upload requests, cycles and manual triggers claim the same rows; two transactions per result; leases; takeover after a crash; deletes in between | one worker per image; settled images stay settled, unless the one who settled them did not hear of it; a cycle never overwrites a receipt; no wake-up is lost; every upload is attempted and settled |
| Receipt photos: `service/image_service.py`, `move_additional_images` of `service/receipt_service.py` | files in the temporary and permanent directories, `images.image_path`, `images.additional_images` | store on upload and clean up when it fails, move on verify or on bypass, delete with the receipt or while queued | queue rows, upload, verify and delete requests | disk and row change in two steps; each request works on its own copy of the row | no photo of a living receipt is lost; verified means permanent; the row finds its photos; nothing is left after a delete |
| Benchmark queue: `service/benchmark_service.py`, `provider/db/benchmark_db.py` | `benchmark_runs`, `benchmark_tasks`, `benchmark_summaries`, the worker | create a run (three inserts), lease, execute, retry, wait for a model, finish | LLM provider, receipts | creation is not atomic; endless retries ordered by id; lost answers | a task is counted once; completed means done; tasks keep their receipts; every task is tried; runs complete |
| Collections: `provider/db/collection_db.py`, `service/collection_service.py`, `api/collections.py` | `collections`, `receipt_collections` | create, rename, delete, activate, deactivate, assign, unassign, replace a receipt's links | receipts (captured when persisted, links deleted with them) | two statements to switch the active one, under a partial unique index; checks before awaits; links replaced one by one | at most one active per user; a switch is done wholly or not at all; owners cannot reach each other; the active collection captures |
| Receipt editing: `update_receipt`, `persist_receipt`, `verify_receipt`, `delete_receipt` of `provider/db/receipt_db.py`, `model/item_category.py` | `receipts`, `receipt_items`, `category_aliases`, PostgreSQL's row locks | edit with decisions per line and categories to remember, store an analysis, verify, delete | analyses look up what edits remember; statistics | one transaction per request over several rows; which statement waits for which lock; what is read before and after the lock; rollback half-way; two edits that wait for each other | every request is one whole correction of the receipt as it is; a line keeps the text it was read with; only what the user asked to remember is remembered; no request waits for ever |
| Extraction: `model/receipt_extraction.py`, `helper/duplicates.py`, `provider/llm/`, `extract_receipt_all_models` of `service/receipt_service.py` | the conversation with a model, a temporary file | ask, repair invalid answers up to a limit, reconcile the photos of one receipt, ask all models | both queues, the extraction endpoint | the rows that overlapping photos show twice; models that answer nonsense or nothing; deadlines | no row is lost; every photo is shown whole; at most three attempts; a process that runs on leaves no temporary file |
| Settings: `config.py`, `api/system/main.py`, `provider/factory.py` | `config.yaml`, the process's settings, the provider's copy of the temperature, the identity recorded at start | load, create the file, replace, mark for restart | providers, registration | file, process, provider and environment change in steps that fail or are cut off | they agree between updates; what was answered survives a restart |
| Users and start: `api/auth.py`, `provider/db/user_db.py`, `main.py` | `users`, owners of rows, `db_ready` | start, stop, bootstrap the first admin, adopt rows without an owner, register, log in | owners of rows, settings (admins only, open or closed registration) | check then insert; statements that land after their process died; a start cut off between two statements | an account belongs to whoever was told so; one administrator, unless one landed late; no row is without an owner |
| Search, tags, statistics, scoring | none of their own | queries, aggregation | all tables | pure | sums agree |
| Frontend, migrations, scripts, stubs | - | - | - | - | - |

`PROJECT.json` lists the same components with their status, and under
`hazards` every place of the code where one of the hard behaviours bites, with
the property that would notice.

## Modules

`ImageQueue.tla` is the core: one action per database statement or await of the
upload request, the scheduler's loop and cycle, the manual trigger, and the
delete and verify requests. An upload request is named like its image; `Runner`
holds the callers of `process_pending`. `status`, `age` and `link` are the
columns of `images` (`age` is the time since `processing_at`, counted up to just
past the lease), `receipt` and `serial` tell whether the image's receipt exists
and which of several successive ones it is, and `pc`, `cur`, `held`, `rid`,
`todo` are the locals of each coroutine. `Claimable` is the condition both the
listing and the claiming `UPDATE` use. The result of the LLM is joined to the
write it leads to (`LlmTerminal`, `LlmFails`, `Persist`), because the call itself
touches no shared state. `Tick` lets time pass; it may not pass while a claim is
`HoldBound` old, which is the extraction deadline of `config.py`. `WriteFault` and
`CycleFault` are calls that raise inside and outside the `try` blocks: after the first
(`Raises`) a cycle writes `mark_failed` in a step of its own (`MarkFailed`) and an upload
request leaves its claim; the second ends the cycle. `MarkLost` is a `mark_analyzed` that
is committed and whose answer is lost: the image is analyzed, and then the `MarkFailed` of
its cycle, whose `UPDATE` has no condition on the status, makes it `failed`; the link to the
receipt stays, and a later cycle marks it again without asking the LLM. `DeleteFault` is
the second call of a receipt's deletion raising, `Crash` a restart. All of these count as
`failures`.

`SubmissionLifecycle.tla` states what a client that polls a submission may rely
on: it is accepted once, analysed by one worker at a time (`attempts`, pairs of a submission
and a worker), settled by the worker that has it, and then keeps its outcome until it is
removed. The exception is `TakeBack`: a worker that has settled a submission without hearing so
(`SettleUnheard`) still has it, and only that worker may put it back.
`ImageQueueLifecycle.tla` maps the queue to it: `pending`, `processing` and
`failed` are one phase, and the attempts are the claims that agents hold (`Claims`).
Leases, retries, takeovers, faults and restarts disappear in the mapping.

`ReceiptFiles.tla` is the disk and the paths of one submission, from the upload
(`Store` per photo, then `InsertRow`; `UploadFails` and `CleanUp` are the two
`except BaseException` of `upload_image`) to its deletion, with its receipt (`DeleteStart`) or while it is queued
(`DiscardStart`, `DELETE /images/{id}`). Requests to
verify and to delete, and the analysis that bypasses review, each read the row
once and then move, write and unlink from that copy. `Destination` is the choice
between `receipt_<id>` and a name with a new uuid. An `INSERT` whose answer is lost
(`InsertLost`) or whose request dies is `adrift` and may land at any time (`InsertLands`);
the upload that did not hear of it unlinks the photos in a later step (`CleanUp`), and the
row may be claimed and analysed before, in between or after. Of the analysis there is what
decides who may touch the files: its claim, the reading of the photos (`ReadPhotos`, all of
them or it fails), and, when the model has answered and nobody looks at the files
any more, its receipt (`Persist`, or `MoverStart` when the review is bypassed) and its
marks, also those of attempts whose claim was taken over. `cleaned` is history: an upload
has unlinked photos of its row that had been read. `Dies` ends a request
anywhere. `overlapped` is a history variable: whether a request ever began while
another was running.

`BenchmarkQueue.tla` is the benchmark queue: `InsertRun`, `InsertTasks` and
`InsertSummaries` are the three statements of `create_run`, `LeaseTask` the lease
query with its order, `Transient`, `ModelMissing` and `Conclude` the ways an
execution ends, `LeaseLost`, `ExecuteFails` and `FinishLost` database calls that
raise before or after their commit. Tasks are deleted when they finish; the model
keeps them as `done` to be able to speak of them. Times are counted down instead
of being compared with a clock. `uncounted` remembers tasks that finished when the
summary they should be added to was not inserted yet.

`BenchmarkLedger.tla` states what the page that polls a run may rely on: its tasks become
due all at once and for receipts that are there (`Open`), its progress is shown from some
moment on (`Announce`), each task is closed once and counted if progress is shown, the last
one completes the run (`Close`), and a receipt goes only while no task of it is due
(`Withdraw`). The queue maps to it at its end (`Ledger`): live tasks are due, done ones
closed; leases, retries, delays, missing models, lost answers and restarts disappear.

`Collections.tla` has one action per statement of `CollectionDB` and of the checks
before it. `req` holds the locals of each request: where it is (`at`), its user,
collection and receipt, the collections it was given (`chosen`) and those it has
yet to link (`todo`). Requests of a single statement (`Deactivate`, `Delete`,
`Unassign`, `DeleteReceipt`) begin and end in one step (`Once`). The worker that
persists a receipt captures it in two more statements (`ReadActive`, `Capture`).
`Owner` is a constant, because no statement of the API changes an owner; ids are drawn once.
`Clashes` is the unique index, `Linked` the foreign keys and `ON CONFLICT`,
`Sees` the scope that the owner fragment of each statement gives. `before`,
`alone` and `actor` are history: what was active when a switch began, whether
another request has run since, and who made the last step.

`ReceiptBook.tla` states what a user may rely on when receipts are corrected, with
no transaction in it: `Edit`, `Extract`, `Verify` and `Delete` each take the
receipt as it is in one step. A line of an edited receipt either continues an old
one (its id and its text as read, and its category unless the user chose) or was
added by the user; a category is remembered only for a line of the user's choice
(`Taught`); an analysis is told what was remembered when it looked (`Note`). What follows
from these steps stands at the end: ids of lines are unique (`IdsAreUnique`), and a stored
line stays on its receipt and keeps its text as read and the user's choice
(`LinesContinue`).

`ReceiptEditing.tla` is how `ReceiptDB` does it, statement by statement under
READ COMMITTED. `holder` is the row lock of a receipt, which the first `UPDATE`
takes and the end of the transaction gives back; `old`, `decided`, `left` and
`draft` are what an editor has read, decided line by line, has yet to write to
`category_aliases` and has written without committing. `Keep`, `Add` and `Reject`
are the cases of `update_receipt` for one submitted item, including its rule for
clients that send no ids (`Legacy`). `Teach` waits for another transaction's write to
the same key, as an upsert does (`WaitsFor`); `Victim` is the transaction PostgreSQL
ends when some wait for each other. `Fails` ends a request anywhere. Taxes, tags and
amounts travel along and are left out. The refinement needs no mapping: the
variables of the book are the committed rows.

`Extraction.tla` is one request for an extraction: the loop of the providers, which
is the same in both (`Asks`, `AskAgain`, `Reject`, `Repair`, `GiveUp`), the deadline,
the temporary file, all models side by side, and `reconciled` (`CheckRows`,
`CheckOverlap`, `Accept`). A row is a photo number and a value; `Same` is
`verify_duplicate` with the tolerances of zero that all callers use. `Of`, `IsOverlap`
and `AllSame` are the three conditions under which the rows of an overlap are left out.

`Settings.tla` is the life of the settings: `Load` with the precedence of environment
over file over default, the steps of `write_config_file` (`OpenTemporary`,
`DumpSettings`, `ReplaceFile`) shared by the first start and by `PUT
/system/settings`, `ApplySettings` after it, and `WriteFails` and `LoseProcess`
between any two. `update_settings` never awaits, so no other request runs in between.
`model_name` is left out because it goes the way of `temperature`.

`Server.tla` extends it with everything around: the phases of `lifespan` and
`bootstrap_admin` (`OpenDatabase` to `AdoptImages`), each of which may fail and be
logged (`StartFails`) or be the last (`Stop`), and registration with its look-up and
its `INSERT`. `BootstrapEnds` is what either leaves of a statement on its way. A
registration's `INSERT` that has lost its request is `adrift` and may still land (`Land`); so is
the first administrator's, in `sent`, which may land under a later start (`LandAdmin`).
History are `late`, the administrators that did, and `interrupted`: there was an
administrator without the rows it should own, as its start had ended.

Each `MC` module names the model values of an instance; each `.cfg` is one instance.

## Runs

| Run | Instance | Shows |
|---|---|---|
| `ImageQueueWorkers` | 2 images (one bypassing review, one of several photos), loop and manual trigger, lease and hold bound 1, 1 failed call, lost answer or restart, 1 receipt deletion | `ExclusiveAnalysis`, `CycleNeverOverwrites`, `TriggerNotLost`, `SettledStays`, `AnalyzedHasReceipt`, `TypeOK`, and that the queue implements `SubmissionLifecycle` |
| `ImageQueueLive` | 2 images, loop, 2 failed calls, lost answers or restarts, fair | `PendingIsAttempted`, `ProcessingIsReleased`, `UploadSettles` |
| `ImageQueueDeleteRace` | 1 image | violation of `ActiveImagesAreKept` |
| `ReceiptFilesFaults` | 3 photos, an upload, two verifications (symmetric), a deletion of the receipt and one of the submission, a bypassing analysis, 2 deaths or lost answers | `PhotosSurvive`, `VerifiedIsPermanent`, `RowFindsPhotos`, `NothingLeft`, `TypeOK` |
| `ReceiptFilesVerifyDelete` | 2 photos, an upload, a verification and a deletion, no deaths | violation of `DeletedLeavesNothing` |
| `BenchmarkQueueLive` | 1 run of 3 models and 1 receipt, longest delay twice as long as an execution, 1 fault, 1 restart, 1 outage, receipts deleted, fair | `AccountsBalance`, `TasksKeepReceipts`, `TypeOK`, and that the queue implements `BenchmarkLedger`; `QueuedIsTried`, `RunningIsReleased`, `RunWithModelsCompletes` |
| `BenchmarkQueueModelAway` | 1 task, 1 outage | violation of `QueuedRunCompletes` |
| `CollectionsFaults` | a user with 2 collections, an administrator with 1, 1 receipt of the user, 2 names, 2 requests, any deaths | `SwitchIsAllOrNothing`, `OwnersSwitch`, `OthersUntouched`, `LinksWithinOwner`, `TypeOK` |
| `CollectionsAdminActivates` | the same with 1 request | violation of `ActivationSwitches` |
| `ReceiptEditing` | 2 receipts of a user, one edited by them and one by an administrator, 3 analyses (two of the first receipt, one of these bypassing review), 6 bodies (kept, renamed, recategorised, added, foreign and repeated ids, without ids), any failures, fair | editing implements `ReceiptBook`; `RequestsEnd`, `TypeOK` |
| `Extraction` | 2 models, up to 3 photos, every answer of 4 rows with up to 2 candidates, of 5 rows with 3, with and without equal and nameless rows, fair | `NothingLost`, `ShowsEveryPhoto`, `RequestEnds`, `TypeOK` |
| `Server` | 3 starts, 2 edits of environment or credentials, 2 updates out of 3, 1 fault, 2 registrations, 2 names, 2 environments | `SettingsAgree`, `PutIsDurable`, `OneOwner`, `AtMostOneAdmin`, `OrphansAdopted`, `TypeOK` |

Why the bounds are enough: a conflict over a claim needs two agents and one
image; a second image is there to let a listing go stale and a cycle go on after
a failure. One failure reaches every handler, and the
actions after it are the same as before; two of them let a retry fail as well. The lease of 1 tick with a hold
bound of the same length is the tightest case `LeaseAssumption` admits. Two
photos distinguish the primary path from the additional list; the third shows
that several additional photos do not share a name. Three tasks of one run compete
for the worker, the fewest of which two can keep out the third; with a longest delay no
longer than an execution they do, which `FewTasks` excludes. No run names an id
twice (`Repeating`): such a request fails as one does whose receipt is deleted, which the run has,
and the theorems hold for any. Two collections are what a switch is between and what replaced
links differ by; the administrator's third is what the user must not reach. Two
requests make every pair of statements interleave, and a request that ends or
dies may begin anew as any other, so there is no bound on their number. The user's collections, the names
and the requests are symmetric; `View` leaves out `actor`, whose value no action
reads and the properties only ask for in the next state. In `ReceiptEditing` the two
edits share the merchant and the texts, so that they write the same two remembered
categories in opposite orders; an analysis and an edit share a receipt, so that each
meets the other's lock; six ids are as many as the lines of all requests can hold at once. Three photos
are the fewest with two borders, five rows the fewest with overlaps of two rows at
one of them. Three starts are one that creates the file, one that reads it after an update
and one that reads it after an update cut off; the two edits set and unset what the
environment overrides.

Each property of a passing run is known to depend on the code: for each, a mutant
definition stands in its module next to the original (marked `Mutant:`), and
`PROJECT.json` lists which definition it replaces. With the mutant in place TLC
finds that property violated.
The properties that are only proved fail for such mutants too: `FilesAreKept` with
`OneName`, `OnlyAdvances` with `AskAnew`, `CompletedWhenDone` with `FinishModel`,
`IdsAreUnique` and `LinesContinue` with `ReadThenLock`.

### What the violations are

- `delete_image` refuses active and analyzed submissions on the strength of a row
  it read before an await; the `DELETE` that follows has no status condition, and
  a worker may have claimed or analysed the image in between.
- A deletion unlinks the paths it read. A verification that moves a photo at the
  same time leaves the moved file behind.
- A task in `waiting_for_model` matches no branch of the lease condition: it stays
  there when the model is back.
- `activate` deactivates the siblings of a caller who sees their own collections
  only. An administrator's request goes straight to the second statement, which the
  unique index refuses when the owner has another active collection.

Some related gaps are visible in the modules and stated as exceptions in their
properties instead of runs of their own: a restart between the two deletes of a
receipt, or a second one that fails, leaves the image row (`failures > 0` in
`AnalyzedHasReceipt`); an analyzed image whose `mark_analyzed` was not heard of becomes
failed (the exception in `SettledStays`, `TakeBack` in the lifecycle); a task that
finishes before its summary is inserted is not counted (`uncounted` in
`AccountsBalance`); a run whose second insert fails is listed without tasks and never
completes (`RunWithModelsCompletes` is about runs that have tasks); overlapping verifications, or one that dies between moving a
file and writing its path, leave paths in the row that have no file
(`RowFindsPhotos` is claimed for requests that neither overlap nor die);
overlapping creations make two collections of one name, overlapping switches may
leave none active, and a request that dies between two statements leaves what the
first did (the properties of `Collections` that speak of a whole request are about
requests that are alone and come to their end). Of two registrations of one name
the second is answered 500 and not 409, because nothing catches the unique
constraint. A start that is cut off between the first administrator and the rows
without an owner leaves them to nobody: the next start finds a user and does not come
back (`interrupted` in `OrphansAdopted`). The first administrator's `INSERT` may land after its
process died; if the operator has changed the bootstrap credentials and a start has counted
the users before that, there are two administrators (`late` in `AtMostOneAdmin`). An administrator may save a provider
that `get_llm_provider` cannot build; the running server goes on and the next start
ends with a `ValueError` (`BuildProvider`). `PUT /receipts/{id}` with an unknown
collection answers 404 after the edit is committed. An upload whose `INSERT` is
committed without an answer unlinks its photos and leaves the row, which then fails
at every attempt (`InsertLost`, `CleanUp`); if an analysis has read them by then, its receipt is
stored and the photos are gone (`cleaned` in `PhotosSurvive`); a bypassed review whose process stops between the
receipt and the moves leaves its photos temporary, because the next attempt only marks
the image (`MarkAnalyzed`, the exception in `VerifiedIsPermanent`). With three benchmark tasks and
executions as long as the longest retry delay, two tasks that always time out are due
in turn and a third is never tried if it is queued, nor leased again if its worker died.
The default timeout of an execution is as long as that delay (300 seconds), so
`QueuedIsTried` and `RunningIsReleased` promise it only while there are few tasks (`FewTasks`: two with
the defaults, more with shorter timeouts), whatever becomes of the others. A process
that is killed during an extraction leaves its temporary file (`Fails`).

### Fairness

`ImageQueue`: `WF` of `Tick` and of each agent's next step, because awaited calls
return and coroutines are scheduled; `WF` of `LoopWakes`, because the loop waits
with a timeout; `SF` of `BeginCycle(Loop)`, because the lock is FIFO and the
provider is assumed to answer infinitely often, though it may be away at any
time. Nothing is assumed about manual triggers, deletes, faults or restarts.
`UploadSettles` adds, as its premise, that the attempts on an image are not all
failures: without it a photo that always raises is retried for ever, which is what
the code intends.

`BenchmarkQueue`: `WF` of `Tick`, of polling, of each execution and of each create
request. `QueuedRunCompletes` and `RunWithModelsCompletes` have as their premise that
the executions of a task do not all end in transient errors and that models
return; the second also that none goes away. `QueuedIsTried` and `RunningIsReleased` assume nothing
of the executions, and that there are few tasks (`FewTasks`).

`ReceiptEditing`: `WF` of each request's statements, because awaited statements
return when their lock is free and PostgreSQL detects deadlocks by itself; nothing
makes a request begin. `Extraction`: `WF` of what the process does by itself,
the deadline included, and of the request's end; models need never answer. `RequestsEnd`
is about transactions under way: an `UPDATE` that waits for a receipt's row has done nothing
yet and counts as not begun; that who holds the row ends is what it shows, with `LocksBelong`.

`ReceiptFiles`, `Collections` and `Server` have no liveness: nothing in them waits. In
`ReceiptFiles`, `ReceiptEditing`, `Extraction` and `Server` all requests end or the bounds
are used up, so their runs do not look for deadlock.

## Proofs

All proofs are checked by TLAPS for any constants that satisfy the assumptions the
modules name. `ImageQueue` assumes that the hold bound is at most the lease, which is
what the bound on `analysis_timeout_seconds` in `config.py` is for;
`BenchmarkQueue` that ids are ordered and that enough attempts are counted for
the delay to reach its maximum; `ReceiptFiles` that at most one analysis moves the
photos and one request uploads them; `Collections` that ids are distinct and that a collection has an owner;
`ReceiptEditing`, `Extraction` and `Server` that the values that stand for nothing are
none of the others, and that the inputs are of their types.

`ImageQueue_proofs.tla`: `TypeCorrect`, `Exclusion` (`ExclusiveAnalysis`),
`NoOverwriting` (`CycleNeverOverwrites`), `OutcomesStand` (`SettledStays`),
`TriggersArrive` (`TriggerNotLost`) and `AnalyzedIsReceipted` (`AnalyzedHasReceipt`). The
inductive invariant is `IInv`. Exclusion alone is not inductive: a claim takes any
row that is queued or whose lease has expired, so one must know that no such row
has a holder. `ClaimsHeld` says why: the row of every claim in progress is still
`processing` and exactly as old as the claim (or deleted, or marked by a cycle that did not
hear so), and a claim is not
older than `HoldBound`, so its lease has not expired (`ClaimableIsFree`). That a
row is not written by anybody but its holder (`LeaveInv`, `DoneInv`) closes the
circle. For `CycleNeverOverwrites`, `ReceiptsNumbered` excludes the receipt with
number 0, which `Lookup` would take for none; that a receipt is not inserted under
a cycle's feet follows from exclusion. `TriggerNotLost` is inductive with the types: the
loop clears the event as it queues for the lock, and leaves the queue only by looking.
`AnalyzedHasReceipt` needs `ClaimsHeld`: an agent that inserts or updates a receipt holds
its claim, so the image whose receipt changes is not analyzed yet.

`ImageQueueLifecycle_proofs.tla`: `Refinement`, `Spec => Lifecycle!Spec`. Every action
maps to one step of the lifecycle or to a stutter: a write that ends a claim to one that ends
the attempt (`WriteStep`), a lost answer to `SettleUnheard` or, for an upload request, to
`Settle` (`LostStep`), a claim to `Take` (`TakeStep`, whose submission has no other worker by
`ExclusiveAnalysis`).

`BenchmarkQueue_proofs.tla`: `TypeCorrect`, `CompletedRunsAreDone`
(`CompletedIsDone`), `TasksHaveReceipts` (`TasksKeepReceipts`),
`EveryTaskCountsOnce` (`AccountsBalance`), `LedgerIsKept` (`ImplementsLedger`) and
`CompletedJustWhenDone` (`CompletedWhenDone`). The
inductive invariant adds that the tasks of a run exist from its second insert on
and for its chosen receipts only (`TasksBelong`), that only a run with tasks is
completed, that a begun run has receipts, so that they are not chosen again, and
that the worker's task is leased. The lemmas follow the shape of the writes:
`StatusChange` for a task that stays, `FinishBooks` for one that goes, `SameBooks`
for steps that touch neither. The accounts are kept beside it: `Accounts` says that a
summary is the number of tasks it has counted and that only tasks that are done are
`uncounted`; a task that finishes was not done, as the worker's task is live, so it is
one element more. The sets counted are finite because the receipts are.
`LedgerIsKept` takes each step to one of the ledger: the second insert opens (`InsertOpens`),
the third announces (`SummariesAnnounce`), `Conclude` and `FinishLost` close (`FinishCloses`),
a deleted receipt is withdrawn, and every other step leaves the ledger as it is
(`LedgerStutters`). `CompletedJustWhenDone` is then proved of the ledger alone
(`LedgerBalances`) and holds of the queue through the refinement: it says the other half of
`CompletedIsDone`, that a run whose last task goes is completed at that very step.

`ReceiptFiles_proofs.tla`: `TypeCorrect`, `NoPhotoIsLost` (`PhotosSurvive`),
`NothingStaysTemporary` (`VerifiedIsPermanent`), `RowsFindPhotos` (`RowFindsPhotos`),
`NothingIsLeft` (`NothingLeft`) and `NoFileIsOverwritten` (`FilesAreKept`). A move
keeps its photo because its destination is free (`DestinationFree`), which needs
that uuid names are given in order (`SparesGiven`); temporary files have the photo they
were written for (`TempNames`), files are unlinked when the row is gone (`RowFirst`), and
nobody but the upload knows of the submission until there is a row (`Uploading`), so that
a clean-up before the row disturbs no one; photos that were read are there from then on,
in a file of their own, until the upload or a deletion unlinks them (`PhotosStay`). The same facts make `FilesAreKept` hold of each step,
whoever else has begun or died. `InOrder` says that a request that moves
is at some photo, `NotMoved` that the row has the paths of the upload until there is a
receipt. Two more invariants build on `IInv`. `ClearInv`: the row, and every copy of it that
is still moved from, knows the files that are still temporary (`Knows`), and a request has
cleared the photos before the one it is at (`Cleared`, `Moving`). `OneByOne`: until requests have overlapped or died, the files
are the photos under the row's paths, or none without a row (`Match`, `Left`), but
for what the one request in flight is in the middle of (`Within`).

`Collections_proofs.tla`: `TypeCorrect`, which includes the unique index and the
foreign keys, `SwitchesWhole` (`SwitchIsAllOrNothing`), `OwnersGetTheirs`
(`OwnersSwitch`), `OwnersAreSafe` (`OthersUntouched`) and `LinksStayWithinOwner`
(`LinksWithinOwner`). The inductive invariant `IInv` adds to the types that every
request holds what its caller's checks let through (`Scoped`): the checks are awaits
before the statements, and owners do not change. `SoloInv` says
of a request that has been alone that nobody else is in flight and that the active
collections are the ones it read when it began or, between its two statements, those
without its user's.

`ReceiptEditing_proofs.tla`: `TypeCorrect`, `Implementation` (`ImplementsBook`),
`LineIdsAreUnique` (`IdsAreUnique`), `LinesAreContinued` (`LinesContinue`),
`LocksAreReleased` (`LocksBelong`), `WritersAreAlone` (`OneWriter`), `NobodyWaitsInVain`
(`NobodyHangs`) and `Invariance`, on which all rest. Only the commits change the book, and a commit
writes what was decided some statements ago, so `IInv` must say that the decisions still
fit: a transaction under way has locked its receipt, which is there (`Locked`);
what an editor has read is what is committed (`DecidesOnBook`); every line decided
on continues one of those or is new, none twice (`DecisionsSound`); what is written
or yet to be written is for such a line (`WritesSound`). The drafts of other
editors matter to nobody, as they are not committed. The two theorems about lines speak of
the book only: `BookSteps` says what one of its steps can do to the lines of a receipt,
`UniqueStep` that this keeps ids apart and continues each line, and `StepRefines` brings
both down to the statements. `LocksBelong`, `OneWriter` and `NobodyHangs` are the safety
behind `RequestsEnd`, and are stated in the proof module. Edits do wait for each other in circles, as they write remembered
categories in any order while they hold their receipts. `NobodyHangs` takes a set of
transactions together with all that they wait for: if each of them waits, those that wait for
a remembered category are all waiting for one another, which is when the database ends one,
because a transaction that waits to insert holds no lock (`LocksBelong`) and one that has
written a remembered category has not ended (`WritesSound`). It would be false if a request
left a lock behind.

`Extraction_proofs.tla`: `TypeCorrect`, by which no model is asked more often than the
limit, `NoRowIsLost` (`NothingLost`), `PhotosAreShown` (`ShowsEveryPhoto`) and
`ExtractionsOnlyAdvance` (`OnlyAdvances`). That a row left out has an equal earlier row
is preserved by every step (`OutSound`), but the earlier one may have been left out
itself, as over three photos; `TwinIsKept` takes the least of the equal rows (`Least`),
which has none before it and is therefore kept. `PhotosAreShown` needs more of what is left
out: it is made of whole overlaps, each verified row by row (`OutWhole`). The rows of an
overlap are then the first ones of their photo and stand, one by one, for the last ones of
the photo before (`OverlapAtBoundary`, by counting an interval). By induction over the photos,
as a least photo for which it fails (`EveryPhotoEnds`, from `FirstPhotoStays` and
`NextPhotoFollows`), the rows of each photo are shown in one piece at the end of the rows that
are kept up to it, so that the next overlap finds them there. `OnlyAdvances` is what makes
`RequestEnds` true once the process runs: each step ends an extraction, spends one of a
bounded number of attempts, or goes on within the attempt.

`Server_proofs.tla`: `TypeCorrect`, `Agreement` (`SettingsAgree`), `Durability`
(`PutIsDurable`), `Ownership` (`OneOwner`), `SingleAdmin` (`AtMostOneAdmin`) and
`Adoption` (`OrphansAdopted`). The invariant `SettingsInv` says where a write can be under
way and what the temporary file and the file hold at each of its steps (`StageSound`),
that the process runs with the file or its environment at start (`FileSound`), and
that the file is always the last promise, an unanswered update or the one under way
(`PromiseSound`). `AdminSound` and `OrphanSound` say how far the bootstrap is. For
`SingleAdmin` one must know that between the count of the users and the `INSERT` no administrator comes up but
one that lands late (`EnterCreating`, `AdminsGrow`).

Every invariant and every action property that a run checks is proved, and so are the three
refinements. Some properties are proved and have no run of their own, as they follow from what
the runs check or from the same invariants: `CompletedWhenDone`, `FilesAreKept`,
`IdsAreUnique`, `LinesContinue`, `LocksBelong`, `OneWriter`, `NobodyHangs` and `OnlyAdvances`. Only model-checked: all liveness, as
TLAPS does not reason about fairness and `ENABLED`. No theorem is about a counterexample:
the four violated properties are false.

## What is left out

- Thumbnails move and disappear with their photo. Why an upload is refused
  (type, size, a client that goes away) is left out, and that it fails at any photo is not.
- In `ReceiptFiles`, a second receipt: a submission whose receipt was deleted before
  the analysis marked it is analysed again.
- The contents of receipts other than their lines, texts and categories; ownership and
  visibility of rows outside `Collections` and `ReceiptEditing`. `Server` gives rows
  without an owner to the first administrator; elsewhere owners are constant.
- Login, logout and the session are reads of the users table and a signed cookie;
  passwords are hashed by a library.
- Search, tags, statistics and benchmark scoring read only; the frontend is a client; the
  migrations are straight-line DDL, of which the constraints are in the actions that
  meet them; scripts and stubs are not part of the running system.
- More than one server process: the scheduler's lock and the single benchmark
  worker are per process, and the deployment runs one.
- The components marked `not_modelled` in `PROJECT.json`.

## Plan

The safety of every component is proved, and its liveness model-checked. What would add most
from here is more model rather than more proof:

1. The weighting of benchmark scores and of statistics as pure operators, against
   reference definitions over bounded inputs.
2. The settings as an abstract register that `Settings` implements: what a PUT answered is
   what the process runs with and what a start finds. `FileSound`, `PromiseSound` and
   `PutIsDurable` say it now, one field at a time.
3. A second receipt of a submission in `ReceiptFiles`, whose analysis moves the photos again.
