----------------------------- MODULE ImageQueue -----------------------------
(***************************************************************************)
(* The image analysis queue: the images table used as a durable work       *)
(* queue, the scheduler cycles and upload requests that claim its rows     *)
(* under a lease, and the requests that verify and delete what they        *)
(* produce.                                                                *)
(*                                                                         *)
(* Every awaited database call is one step, so requests and cycles         *)
(* interleave exactly at the awaits.  The outcome of the LLM call is       *)
(* joined to the database write it leads to: the call reads and writes no  *)
(* shared state.  Files on disk are the subject of ReceiptFiles.           *)
(***************************************************************************)
EXTENDS Naturals, FiniteSets

CONSTANTS
    Image,      \* submissions; the upload request of image i is named i too
    Runner,     \* callers of process_pending: the loop and manual triggers
    Loop,       \* the background task of the scheduler
    NoImage,
    Multi,      \* submissions of several photos (never analysed in-request)
    Bypass,     \* submissions uploaded with bypass_review
    Lease,      \* age after which a claim may be taken over (15 minutes)
    HoldBound,  \* longest time between a claim and the write that ends it
    MaxFailures, \* bound on failed database calls and restarts of the process
    MaxDeletes  \* bound on the receipts of one image that users delete

ASSUME LoopAssumption == Loop \in Runner /\ Image \cap Runner = {}
ASSUME NoImageAssumption == NoImage \notin Image \cup Runner
ASSUME SubmissionAssumption == Multi \subseteq Image /\ Bypass \subseteq Image
ASSUME BoundAssumption ==
    /\ Lease \in Nat
    /\ HoldBound \in Nat
    /\ MaxFailures \in Nat
    /\ MaxDeletes \in Nat
\* "Keep the complete extraction deadline below the 15-minute image claim
\* lease" (config.py); the database calls around it share the difference.
ASSUME LeaseAssumption == HoldBound <= Lease

VARIABLES
    status,     \* images.status, or "unborn" / "deleted" when there is no row
    age,        \* time since images.processing_at, counted up to Lease + 1
    link,       \* images.receipt_id: a receipt serial, 0 for NULL
    serial,     \* serial of the last receipt inserted for the image
    receipt,    \* status of that receipt, "none" when there is none
    pc,         \* where each upload request and each runner is
    cur,        \* the image an agent has claimed
    held,       \* time since the agent's claim
    rid,        \* the receipt an agent found or persisted, 0 for none
    todo,       \* the rest of the queue a cycle listed
    wake,       \* AnalysisScheduler._wake
    unseen,     \* triggered submissions no cycle has looked for since
    deleting,   \* images whose delete request passed its status check
    orphaning,  \* images whose receipt was deleted, image row to follow
    failures    \* failed database calls and restarts so far

imageVars   == <<status, age, link>>
receiptVars == <<serial, receipt>>
agentVars   == <<pc, cur, held, rid>>
requestVars == <<deleting, orphaning>>
vars == <<imageVars, receiptVars, agentVars, todo, wake, unseen, requestVars,
          failures>>

Agent == Image \cup Runner

Queued   == {"pending", "failed"}
Terminal == {"timed_out", "unreadable"}
Absent   == {"unborn", "deleted"}
Status   == Queued \cup Terminal \cup Absent \cup {"processing", "analyzed"}

\* The points between a claim and the write that ends it.
Working == {"held", "llm", "mark", "resume", "fail"}
Place   == {"idle", "queued", "scan", "claim"} \cup Working

TypeOK ==
    /\ status \in [Image -> Status]
    /\ age \in [Image -> 0 .. Lease + 1]
    /\ link \in [Image -> Nat]
    /\ serial \in [Image -> Nat]
    /\ receipt \in [Image -> {"none", "unverified", "verified"}]
    /\ pc \in [Agent -> Place]
    /\ cur \in [Agent -> Image \cup {NoImage}]
    /\ held \in [Agent -> 0 .. HoldBound]
    /\ rid \in [Agent -> Nat]
    /\ todo \in [Runner -> SUBSET Image]
    /\ wake \in BOOLEAN
    /\ unseen \subseteq Image
    /\ deleting \subseteq Image
    /\ orphaning \subseteq Image
    /\ failures \in 0 .. MaxFailures

Init ==
    /\ status = [i \in Image |-> "unborn"]
    /\ age = [i \in Image |-> 0]
    /\ link = [i \in Image |-> 0]
    /\ serial = [i \in Image |-> 0]
    /\ receipt = [i \in Image |-> "none"]
    /\ pc = [a \in Agent |-> "idle"]
    /\ cur = [a \in Agent |-> NoImage]
    /\ held = [a \in Agent |-> 0]
    /\ rid = [a \in Agent |-> 0]
    /\ todo = [r \in Runner |-> {}]
    /\ wake = TRUE
    /\ unseen = {}
    /\ deleting = {}
    /\ orphaning = {}
    /\ failures = 0

-----------------------------------------------------------------------------
(* Rows and writes shared by the handlers *)

Exists(i) == status[i] \notin Absent

\* Mutant: the lease ends a tick early.
LeaseEndsEarly(i) == age[i] >= Lease

LeaseExpired(i) == age[i] > Lease

\* Mutants of the condition below: verdicts are retried, dead claims are never
\* taken over, failed images are not tried again.
RetriesTerminal(i) ==
    \/ status[i] \in Queued \cup Terminal
    \/ status[i] = "processing" /\ LeaseExpired(i)
NoTakeover(i) == status[i] \in Queued
ForgetsFailed(i) ==
    \/ status[i] = "pending"
    \/ status[i] = "processing" /\ LeaseExpired(i)

\* The condition of the claim UPDATE and of the queue listing.
Claimable(i) ==
    \/ status[i] \in Queued
    \/ status[i] = "processing" /\ LeaseExpired(i)

Holds(a, i) == pc[a] \in Working /\ cur[a] = i

\* Mutant: the write brings a deleted row back.
UpsertStatus(i, s) ==
    /\ status' = [status EXCEPT ![i] = s]
    /\ age' = [age EXCEPT ![i] = 0]

\* UPDATE images SET status, processing_at = NULL WHERE id: no row, no effect.
WriteStatus(i, s) ==
    /\ status' = IF Exists(i) THEN [status EXCEPT ![i] = s] ELSE status
    /\ age' = [age EXCEPT ![i] = 0]

\* Mutant: the foreign key is missing.
NoForeignKey(i, s) == TRUE

\* images.receipt_id -> receipts.id: the receipt must still be there.
ReceiptAlive(i, s) == receipt[i] # "none" /\ serial[i] = s

\* The agent goes on to p and forgets its claim.
Leave(a, p) ==
    /\ pc' = [pc EXCEPT ![a] = p]
    /\ cur' = [cur EXCEPT ![a] = NoImage]
    /\ held' = [held EXCEPT ![a] = 0]
    /\ rid' = [rid EXCEPT ![a] = 0]

\* A cycle goes on to its next image, an upload request answers.
Done(a) == Leave(a, IF a \in Runner THEN "scan" ELSE "idle")

\* An exception leaves process_pending: the cycle is over.
Abort(a) ==
    /\ Leave(a, "idle")
    /\ todo' = [r \in Runner |-> IF r = a THEN {} ELSE todo[r]]

\* An exception of persist or mark_analyzed takes a cycle to mark_failed; an
\* upload request answers 500 and writes nothing more.
Raises(a) ==
    IF a \in Runner
    THEN pc' = [pc EXCEPT ![a] = "fail"] /\ UNCHANGED <<cur, held, rid>>
    ELSE Leave(a, "idle")

-----------------------------------------------------------------------------
(* Upload request *)

\* The row is inserted; a submission of several photos wakes the scheduler,
\* one of a single photo is claimed next if the provider answered.
Upload(i) ==
    /\ status[i] = "unborn"
    /\ status' = [status EXCEPT ![i] = "pending"]
    /\ IF i \in Multi
       THEN /\ wake' = TRUE
            /\ unseen' = unseen \cup {i}
            /\ UNCHANGED pc
       ELSE /\ \E providerAvailable \in BOOLEAN :
                 pc' = IF providerAvailable THEN [pc EXCEPT ![i] = "claim"]
                                            ELSE pc
            /\ UNCHANGED <<wake, unseen>>
    /\ UNCHANGED <<age, link, receiptVars, cur, held, rid, todo, requestVars,
                   failures>>

\* claim_for_analysis: one UPDATE, so check and write are one step.
TakeClaim(a, i, p) ==
    /\ status' = [status EXCEPT ![i] = "processing"]
    /\ age' = [age EXCEPT ![i] = 0]
    /\ pc' = [pc EXCEPT ![a] = p]
    /\ cur' = [cur EXCEPT ![a] = i]
    /\ held' = [held EXCEPT ![a] = 0]
    /\ rid' = [rid EXCEPT ![a] = link[i]]
    /\ UNCHANGED link

UploadClaim(i) ==
    /\ pc[i] = "claim"
    /\ IF Claimable(i) THEN TakeClaim(i, i, "llm")
                       ELSE Leave(i, "idle") /\ UNCHANGED imageVars
    /\ UNCHANGED <<receiptVars, todo, wake, unseen, requestVars, failures>>

-----------------------------------------------------------------------------
(* Scheduler cycle *)

\* _run_forever: the event or the interval ends the wait, then clear().
LoopWakes ==
    /\ pc[Loop] = "idle"
    /\ pc' = [pc EXCEPT ![Loop] = "queued"]
    /\ wake' = FALSE
    /\ UNCHANGED <<imageVars, receiptVars, cur, held, rid, todo, unseen,
                   requestVars, failures>>

\* POST /images/analyze
ManualTrigger(r) ==
    /\ r # Loop
    /\ pc[r] = "idle"
    /\ pc' = [pc EXCEPT ![r] = "queued"]
    /\ UNCHANGED <<imageVars, receiptVars, cur, held, rid, todo, wake, unseen,
                   requestVars, failures>>

\* asyncio.Lock: at most one runner is past "queued".
LockFree == \A r \in Runner : pc[r] \in {"idle", "queued"}

\* Mutant: only failed images and expired claims are listed.
ListWithoutPending(r) ==
    /\ pc[r] = "queued"
    /\ LockFree
    /\ pc' = [pc EXCEPT ![r] = "scan"]
    /\ todo' = [todo EXCEPT ![r] =
                   {i \in Image : Claimable(i) /\ status[i] # "pending"}]
    /\ unseen' = {}
    /\ UNCHANGED <<imageVars, receiptVars, cur, held, rid, wake, requestVars,
                   failures>>

\* The provider answers with a model: the queue is listed.
BeginCycle(r) ==
    /\ pc[r] = "queued"
    /\ LockFree
    /\ pc' = [pc EXCEPT ![r] = "scan"]
    /\ todo' = [todo EXCEPT ![r] = {i \in Image : Claimable(i)}]
    /\ unseen' = {}
    /\ UNCHANGED <<imageVars, receiptVars, cur, held, rid, wake, requestVars,
                   failures>>

\* No database, no answer within five seconds, or no model: nothing is done.
SkipCycle(r) ==
    /\ pc[r] = "queued"
    /\ LockFree
    /\ pc' = [pc EXCEPT ![r] = "idle"]
    /\ unseen' = {}
    /\ UNCHANGED <<imageVars, receiptVars, cur, held, rid, todo, wake,
                   requestVars, failures>>

\* The row of the listing may be stale: the claim decides.
RunnerClaim(r, i) ==
    /\ pc[r] = "scan"
    /\ i \in todo[r]
    /\ todo' = [todo EXCEPT ![r] = @ \ {i}]
    /\ IF Claimable(i) THEN TakeClaim(r, i, "held")
                       ELSE UNCHANGED <<imageVars, agentVars>>
    /\ UNCHANGED <<receiptVars, wake, unseen, requestVars, failures>>

\* Mutant: only the link of the row is looked at.
LookupLinkOnly(r) ==
    /\ pc[r] = "held"
    /\ pc' = [pc EXCEPT ![r] = IF rid[r] # 0 THEN "resume" ELSE "llm"]
    /\ UNCHANGED <<imageVars, receiptVars, cur, held, rid, todo, wake, unseen,
                   requestVars, failures>>

\* _analyze_one: a receipt linked to the row, or found by image id, ends the
\* work without an LLM call.
Lookup(r) ==
    LET i == cur[r] IN
    /\ pc[r] = "held"
    /\ IF rid[r] = 0 /\ receipt[i] # "none" /\ Exists(i)
       THEN rid' = [rid EXCEPT ![r] = serial[i]]
       ELSE UNCHANGED rid
    /\ pc' = [pc EXCEPT ![r] = IF rid'[r] # 0 THEN "resume" ELSE "llm"]
    /\ UNCHANGED <<imageVars, receiptVars, cur, held, todo, wake, unseen,
                   requestVars, failures>>

\* mark_analyzed of the early returns.  A receipt deleted meanwhile is a
\* foreign key violation nothing catches: the cycle ends, the claim stays.
Resume(r) ==
    LET i == cur[r] IN
    /\ pc[r] = "resume"
    /\ IF Exists(i) /\ ~ReceiptAlive(i, rid[r])
       THEN Abort(r) /\ UNCHANGED imageVars
       ELSE /\ Done(r)
            /\ WriteStatus(i, "analyzed")
            /\ link' = IF Exists(i) THEN [link EXCEPT ![i] = rid[r]] ELSE link
            /\ UNCHANGED todo
    /\ UNCHANGED <<receiptVars, wake, unseen, requestVars, failures>>

\* Mutant: the event is cleared after the cycle, not before it.
ClearAfterCycle(r) ==
    /\ pc[r] = "scan"
    /\ todo[r] = {}
    /\ pc' = [pc EXCEPT ![r] = "idle"]
    /\ wake' = IF r = Loop THEN FALSE ELSE wake
    /\ UNCHANGED <<imageVars, receiptVars, cur, held, rid, todo, unseen,
                   requestVars, failures>>

EndCycle(r) ==
    /\ pc[r] = "scan"
    /\ todo[r] = {}
    /\ pc' = [pc EXCEPT ![r] = "idle"]
    /\ UNCHANGED <<imageVars, receiptVars, cur, held, rid, todo, wake, unseen,
                   requestVars, failures>>

-----------------------------------------------------------------------------
(* Analysis, by an upload request or a cycle *)

\* AnalysisTimeoutError, UnreadableReceiptError: mark_terminal.
LlmTerminal(a) ==
    /\ pc[a] = "llm"
    /\ \E s \in Terminal : WriteStatus(cur[a], s)
    /\ Done(a)
    /\ UNCHANGED <<link, receiptVars, todo, wake, unseen, requestVars, failures>>

\* Any other exception, or a missing file: mark_failed, tried again later.
LlmFails(a) ==
    /\ pc[a] = "llm"
    /\ WriteStatus(cur[a], "failed")
    /\ Done(a)
    /\ UNCHANGED <<link, receiptVars, todo, wake, unseen, requestVars, failures>>

\* The extraction succeeded and is persisted in one transaction: the image's
\* receipt is overwritten if it has one, else inserted.
Persist(a) ==
    LET i == cur[a] IN
    /\ pc[a] = "llm"
    /\ Exists(i)
    /\ serial' = [serial EXCEPT ![i] = IF receipt[i] = "none" THEN @ + 1 ELSE @]
    /\ receipt' = [receipt EXCEPT
                     ![i] = IF i \in Bypass THEN "verified" ELSE "unverified"]
    /\ rid' = [rid EXCEPT ![a] = serial'[i]]
    /\ pc' = [pc EXCEPT ![a] = "mark"]
    /\ UNCHANGED <<imageVars, cur, held, todo, wake, unseen, requestVars, failures>>

\* The image row is gone: the insert violates its foreign key.
PersistOrphan(a) ==
    /\ pc[a] = "llm"
    /\ ~Exists(cur[a])
    /\ Raises(a)
    /\ UNCHANGED <<imageVars, receiptVars, todo, wake, unseen, requestVars, failures>>

\* The UPDATE of mark_analyzed is committed.
Marks(a) ==
    LET i == cur[a] IN
    /\ pc[a] = "mark"
    /\ ~Exists(i) \/ ReceiptAlive(i, rid[a])
    /\ WriteStatus(i, "analyzed")
    /\ link' = IF Exists(i) THEN [link EXCEPT ![i] = rid[a]] ELSE link

MarkAnalyzed(a) ==
    /\ Marks(a)
    /\ Done(a)
    /\ UNCHANGED <<receiptVars, todo, wake, unseen, requestVars, failures>>

\* The receipt was deleted since: the update violates its foreign key.
MarkOrphan(a) ==
    /\ pc[a] = "mark"
    /\ Exists(cur[a]) /\ ~ReceiptAlive(cur[a], rid[a])
    /\ Raises(a)
    /\ UNCHANGED <<imageVars, receiptVars, todo, wake, unseen, requestVars, failures>>

\* mark_failed of the except clause around both writes, whatever the row says.
MarkFailed(r) ==
    /\ pc[r] = "fail"
    /\ WriteStatus(cur[r], "failed")
    /\ Done(r)
    /\ UNCHANGED <<link, receiptVars, todo, wake, unseen, requestVars, failures>>

-----------------------------------------------------------------------------
(* Requests on images and receipts *)

\* DELETE /images/{id} reads the row, refuses an active or analyzed one ...
DeleteImageCheck(i) ==
    /\ status[i] \in Queued \cup Terminal
    /\ deleting' = deleting \cup {i}
    /\ UNCHANGED <<imageVars, receiptVars, agentVars, todo, wake, unseen,
                   orphaning, failures>>

\* DELETE FROM images, whatever the row has become.
DropRow(i) ==
    /\ status' = [status EXCEPT ![i] = "deleted"]
    /\ age' = [age EXCEPT ![i] = 0]
    /\ link' = [link EXCEPT ![i] = 0]

\* ... and deletes it with a second statement.
DeleteImageRow(i) ==
    /\ i \in deleting
    /\ DropRow(i)
    /\ deleting' = deleting \ {i}
    /\ UNCHANGED <<receiptVars, agentVars, todo, wake, unseen, orphaning, failures>>

\* POST /receipts/{id}/verify
Verify(i) ==
    /\ receipt[i] = "unverified"
    /\ receipt' = [receipt EXCEPT ![i] = "verified"]
    /\ UNCHANGED <<imageVars, serial, agentVars, todo, wake, unseen, requestVars,
                   failures>>

\* DELETE /receipts/{id}: the receipt row goes first, images.receipt_id
\* becomes NULL with it ...
DeleteReceipt(i) ==
    /\ receipt[i] # "none"
    /\ serial[i] <= MaxDeletes
    /\ receipt' = [receipt EXCEPT ![i] = "none"]
    /\ link' = [link EXCEPT ![i] = 0]
    /\ orphaning' = IF Exists(i) THEN orphaning \cup {i} ELSE orphaning
    /\ UNCHANGED <<status, age, serial, agentVars, todo, wake, unseen, deleting,
                   failures>>

\* ... and the image row after it, in any status.
DeleteReceiptImage(i) ==
    /\ i \in orphaning
    /\ DropRow(i)
    /\ orphaning' = orphaning \ {i}
    /\ UNCHANGED <<receiptVars, agentVars, todo, wake, unseen, deleting, failures>>

-----------------------------------------------------------------------------
(* Time and failures *)

\* Mutant: the extraction has no deadline.
TickWithoutDeadline ==
    /\ age' = [i \in Image |->
                 IF status[i] = "processing" /\ age[i] <= Lease
                 THEN age[i] + 1 ELSE age[i]]
    /\ held' = [a \in Agent |->
                  IF pc[a] \in Working THEN held[a] + 1 ELSE held[a]]
    /\ UNCHANGED <<status, link, receiptVars, pc, cur, rid, todo, wake, unseen,
                   requestVars, failures>>

\* A claim that is held ends before HoldBound: the extraction deadline plus
\* the database calls around it.
Tick ==
    /\ \A a \in Agent : pc[a] \in Working => held[a] < HoldBound
    /\ age' = [i \in Image |->
                 IF status[i] = "processing" /\ age[i] <= Lease
                 THEN age[i] + 1 ELSE age[i]]
    /\ held' = [a \in Agent |->
                  IF pc[a] \in Working THEN held[a] + 1 ELSE held[a]]
    /\ UNCHANGED <<status, link, receiptVars, pc, cur, rid, todo, wake, unseen,
                   requestVars, failures>>

Failure == failures < MaxFailures /\ failures' = failures + 1

\* persist or mark_analyzed raises for a reason of the database's own ...
WriteFault(a) ==
    /\ Failure
    /\ pc[a] \in {"llm", "mark"}
    /\ Raises(a)
    /\ UNCHANGED <<imageVars, receiptVars, todo, wake, unseen, requestVars>>

\* ... or because the answer of a committed mark_analyzed is lost.
MarkLost(a) ==
    /\ Failure
    /\ Marks(a)
    /\ Raises(a)
    /\ UNCHANGED <<receiptVars, todo, wake, unseen, requestVars>>

\* A database call outside the try blocks raises, or mark_failed does.
CycleFault(r) ==
    /\ Failure
    /\ pc[r] \in Working \cup {"scan"}
    /\ Abort(r)
    /\ UNCHANGED <<imageVars, receiptVars, wake, unseen, requestVars>>

\* The second database call of DELETE /receipts/{id} raises.
DeleteFault(i) ==
    /\ Failure
    /\ i \in orphaning
    /\ orphaning' = orphaning \ {i}
    /\ UNCHANGED <<imageVars, receiptVars, agentVars, todo, wake, unseen, deleting>>

\* The process dies and is started again: tables survive, start() sets the
\* event.
Crash ==
    /\ Failure
    /\ pc' = [a \in Agent |-> "idle"]
    /\ cur' = [a \in Agent |-> NoImage]
    /\ held' = [a \in Agent |-> 0]
    /\ rid' = [a \in Agent |-> 0]
    /\ todo' = [r \in Runner |-> {}]
    /\ wake' = TRUE
    /\ deleting' = {}
    /\ orphaning' = {}
    /\ UNCHANGED <<imageVars, receiptVars, unseen>>

-----------------------------------------------------------------------------
Analysis(a) ==
    \/ LlmTerminal(a)
    \/ LlmFails(a)
    \/ Persist(a)
    \/ PersistOrphan(a)
    \/ MarkAnalyzed(a)
    \/ MarkOrphan(a)

Request(i) ==
    \/ Upload(i)
    \/ DeleteImageCheck(i)
    \/ DeleteImageRow(i)
    \/ Verify(i)
    \/ DeleteReceipt(i)
    \/ DeleteReceiptImage(i)

Cycle(r) ==
    \/ \E i \in Image : RunnerClaim(r, i)
    \/ Lookup(r)
    \/ Resume(r)
    \/ MarkFailed(r)
    \/ EndCycle(r)

Next ==
    \/ \E i \in Image : Request(i) \/ UploadClaim(i)
    \/ LoopWakes
    \/ \E r \in Runner : ManualTrigger(r) \/ BeginCycle(r) \/ SkipCycle(r)
    \/ \E r \in Runner : Cycle(r)
    \/ \E a \in Agent : Analysis(a)
    \/ Tick
    \/ \E a \in Agent : WriteFault(a) \/ MarkLost(a)
    \/ \E r \in Runner : CycleFault(r)
    \/ \E i \in Image : DeleteFault(i)
    \/ Crash

Spec == Init /\ [][Next]_vars

-----------------------------------------------------------------------------
(* Safety *)

\* No image is analysed by two agents at a time: claims are atomic and a
\* lease outlives the analysis it covers (image_db.py claim_for_analysis).
ExclusiveAnalysis ==
    \A i \in Image : \A a, b \in Agent : Holds(a, i) /\ Holds(b, i) => a = b

\* An agent knows its image exactly while it holds a claim.
ClaimsRecorded ==
    \A a \in Agent : pc[a] \in Working <=> cur[a] \in Image

\* The row of a claimed image stays processing, as old as the claim, unless
\* a request drops it or its cycle has marked it without hearing so; an upload
\* request claims its own image only.
ClaimsHeld ==
    \A a \in Agent : pc[a] \in Working =>
        /\ a \in Image => cur[a] = a
        /\ \/ status[cur[a]] = "processing" /\ age[cur[a]] = held[a]
           \/ status[cur[a]] = "deleted"
           \/ pc[a] = "fail" /\ status[cur[a]] = "analyzed"

\* An analyzed, timed out or unreadable image is never queued, claimed or
\* re-marked again: it only ever goes away (mark_terminal, mark_analyzed).
\* The one exception: the answer of mark_analyzed was lost, and the cycle
\* that wrote it writes "failed" next; the link to the receipt stays.
SettledStays ==
    [][\A i \in Image : status[i] \in Terminal \cup {"analyzed"} =>
          \/ status'[i] \in {status[i], "deleted"}
          \/ /\ status[i] = "analyzed" /\ status'[i] = "failed"
             /\ link'[i] = link[i]
             /\ \E r \in Runner : pc[r] = "fail" /\ cur[r] = i]_vars

\* A cycle runs the LLM only for an image without a receipt, so a cycle never
\* overwrites a receipt its user may have edited or verified (_analyze_one).
CycleNeverOverwrites ==
    \A r \in Runner : pc[r] = "llm" /\ Exists(cur[r]) => receipt[cur[r]] = "none"

\* A request that is about to delete an image row has read that row.
RequestsHaveRows == \A i \in deleting \cup orphaning : status[i] # "unborn"

\* Receipts are numbered from 1.
ReceiptsNumbered == \A i \in Image : receipt[i] # "none" => serial[i] # 0

\* The inductive invariant behind the theorems.
IInv ==
    /\ RequestsHaveRows
    /\ ReceiptsNumbered
    /\ TypeOK
    /\ ClaimsRecorded
    /\ ClaimsHeld
    /\ ExclusiveAnalysis
    /\ CycleNeverOverwrites

\* An analyzed image is linked to its receipt.  It has neither link nor
\* receipt only between the two steps of deleting them, or for good when the
\* process or the request ended between the two (mark_analyzed,
\* delete_receipt).
AnalyzedHasReceipt ==
    \A i \in Image : status[i] = "analyzed" =>
        \/ receipt[i] # "none" /\ link[i] = serial[i]
        \/ /\ link[i] = 0 /\ receipt[i] = "none"
           /\ i \in orphaning \/ failures > 0

\* A wake-up is never lost: a triggered submission no cycle has looked for
\* yet finds the event set or the loop on its way (trigger, _run_forever).
TriggerNotLost == unseen # {} => wake \/ pc[Loop] = "queued"

\* A delete request never removes the row of an active or analyzed image
\* (the refusal of delete_image in api/images.py).
ActiveImagesAreKept ==
    [][\A i \in deleting : i \notin deleting' /\ status[i] \in {"processing", "analyzed"}
          => status'[i] = status[i]]_vars

-----------------------------------------------------------------------------
(* Liveness *)

\* Each awaited call of a request or a cycle returns.
Progress(a) ==
    IF a \in Runner THEN Cycle(a) \/ Analysis(a) ELSE UploadClaim(a) \/ Analysis(a)

\* Time passes, the loop wakes at its interval, and of the cycles it starts
\* infinitely many get the (FIFO) lock and find the provider reachable.
FairSpec ==
    /\ Spec
    /\ WF_vars(Tick)
    /\ WF_vars(LoopWakes)
    /\ SF_vars(BeginCycle(Loop))
    /\ \A a \in Agent : WF_vars(Progress(a))

\* The LLM's answer settles the image: an extraction, or a terminal verdict.
Conclude(i) == \E a \in Agent : cur[a] = i /\ (LlmTerminal(a) \/ Persist(a))

\* No upload is forgotten: the loop claims it, whatever else happened
\* (docstring of AnalysisScheduler: images stay pending and are retried).
PendingIsAttempted ==
    \A i \in Image : status[i] = "pending" ~> status[i] # "pending"

\* A claim whose holder died is taken over (the lease of claim_for_analysis).
ProcessingIsReleased ==
    \A i \in Image : status[i] = "processing" ~> status[i] # "processing"

\* Every upload whose attempts do not all fail reaches an outcome its client
\* can poll, or is deleted (_analyze_one: failed images are tried again).
UploadSettles ==
    \A i \in Image : SF_vars(Conclude(i)) =>
        (Exists(i) ~> status[i] \in Terminal \cup {"analyzed", "deleted"})
=============================================================================
