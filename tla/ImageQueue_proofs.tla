-------------------------- MODULE ImageQueue_proofs --------------------------
(***************************************************************************)
(* Theorems about ImageQueue, for any sets of images and runners and any   *)
(* bounds.                                                                 *)
(***************************************************************************)
EXTENDS ImageQueue, TLAPS

USE LoopAssumption, NoImageAssumption, SubmissionAssumption, BoundAssumption,
    LeaseAssumption DEF LoopAssumption, NoImageAssumption, SubmissionAssumption,
    BoundAssumption, LeaseAssumption

-----------------------------------------------------------------------------
(* Types *)

LEMMA InitType == Init => TypeOK
BY DEF Init, TypeOK, Agent, Status, Absent, Queued, Terminal, Place, Working

\* The shared tail of the handlers keeps the agents' variables typed.
LEMMA LeaveType ==
    ASSUME TypeOK, NEW a \in Agent, NEW p \in Place, Leave(a, p)
    PROVE  /\ pc' \in [Agent -> Place]
           /\ cur' \in [Agent -> Image \cup {NoImage}]
           /\ held' \in [Agent -> 0 .. HoldBound]
           /\ rid' \in [Agent -> Nat]
BY DEF TypeOK, Leave

LEMMA DoneType ==
    ASSUME TypeOK, NEW a \in Agent, Done(a)
    PROVE  /\ pc' \in [Agent -> Place]
           /\ cur' \in [Agent -> Image \cup {NoImage}]
           /\ held' \in [Agent -> 0 .. HoldBound]
           /\ rid' \in [Agent -> Nat]
BY LeaveType DEF Done, Place

LEMMA WriteStatusType ==
    ASSUME TypeOK, NEW i, NEW s \in Status, WriteStatus(i, s)
    PROVE  /\ status' \in [Image -> Status]
           /\ age' \in [Image -> 0 .. Lease + 1]
<1>1. status' \in [Image -> Status]
  BY DEF TypeOK, WriteStatus
<1>2. 0 \in 0 .. Lease + 1
  OBVIOUS
<1>3. age' \in [Image -> 0 .. Lease + 1]
  BY <1>2 DEF TypeOK, WriteStatus
<1> QED
  BY <1>1, <1>3

LEMMA RaisesType ==
    ASSUME TypeOK, NEW a \in Agent, Raises(a)
    PROVE  /\ pc' \in [Agent -> Place]
           /\ cur' \in [Agent -> Image \cup {NoImage}]
           /\ held' \in [Agent -> 0 .. HoldBound]
           /\ rid' \in [Agent -> Nat]
<1>1. {"fail", "idle"} \subseteq Place
  BY DEF Place, Working
<1>2. CASE a \in Runner
  BY <1>1, <1>2 DEF Raises, TypeOK
<1>3. CASE a \notin Runner
  BY <1>1, <1>3, LeaveType DEF Raises
<1> QED
  BY <1>2, <1>3

LEMMA MarksType ==
    ASSUME TypeOK, NEW a \in Agent, Marks(a)
    PROVE  /\ status' \in [Image -> Status]
           /\ age' \in [Image -> 0 .. Lease + 1]
           /\ link' \in [Image -> Nat]
<1>1. link' \in [Image -> Nat]
  BY DEF Marks, TypeOK
<1>2. "analyzed" \in Status
  BY DEF Status
<1> QED
  BY <1>1, <1>2, WriteStatusType DEF Marks

LEMMA TakeClaimType ==
    ASSUME TypeOK, NEW a \in Agent, NEW i \in Image, NEW p \in Place,
           TakeClaim(a, i, p)
    PROVE  /\ status' \in [Image -> Status]
           /\ age' \in [Image -> 0 .. Lease + 1]
           /\ link' \in [Image -> Nat]
           /\ pc' \in [Agent -> Place]
           /\ cur' \in [Agent -> Image \cup {NoImage}]
           /\ held' \in [Agent -> 0 .. HoldBound]
           /\ rid' \in [Agent -> Nat]
BY DEF TypeOK, TakeClaim, Status

LEMMA StepType == TypeOK /\ ClaimsRecorded /\ [Next]_vars => TypeOK'
<1> SUFFICES ASSUME TypeOK, ClaimsRecorded, [Next]_vars
             PROVE  TypeOK'
  OBVIOUS
<1> USE DEF imageVars, receiptVars, agentVars, requestVars
<1>0. /\ Image \subseteq Agent
      /\ Runner \subseteq Agent
      /\ Status = {"pending", "failed", "timed_out", "unreadable", "unborn",
                   "deleted", "processing", "analyzed"}
      /\ Place = {"idle", "queued", "scan", "claim", "held", "llm", "mark",
                  "resume", "fail"}
  BY DEF Agent, Status, Queued, Terminal, Absent, Place, Working
<1>1. ASSUME NEW i \in Image, Upload(i) PROVE TypeOK'
  BY <1>0, <1>1 DEF TypeOK, Upload
<1>2. ASSUME NEW i \in Image, UploadClaim(i) PROVE TypeOK'
  <2>1. CASE Claimable(i)
    BY <1>0, <1>2, <2>1, TakeClaimType DEF UploadClaim, TypeOK
  <2>2. CASE ~Claimable(i)
    BY <1>0, <1>2, <2>2, LeaveType DEF UploadClaim, TypeOK
  <2> QED BY <2>1, <2>2
<1>3. ASSUME NEW i \in Image,
             DeleteImageCheck(i) \/ DeleteImageRow(i) \/ Verify(i)
             \/ DeleteReceipt(i) \/ DeleteReceiptImage(i)
      PROVE  TypeOK'
  BY <1>0, <1>3 DEF TypeOK, DeleteImageCheck, DeleteImageRow, Verify,
                    DeleteReceipt, DeleteReceiptImage, DropRow
<1>4. CASE LoopWakes
  BY <1>0, <1>4 DEF TypeOK, LoopWakes
<1>5. ASSUME NEW r \in Runner, ManualTrigger(r) \/ BeginCycle(r) \/ SkipCycle(r)
      PROVE  TypeOK'
  BY <1>0, <1>5 DEF TypeOK, ManualTrigger, BeginCycle, SkipCycle
<1>6. ASSUME NEW r \in Runner, NEW i \in Image, RunnerClaim(r, i) PROVE TypeOK'
  <2>1. todo' \in [Runner -> SUBSET Image]
    BY <1>6 DEF TypeOK, RunnerClaim
  <2>2. CASE Claimable(i)
    BY <1>0, <1>6, <2>1, <2>2, TakeClaimType DEF RunnerClaim, TypeOK
  <2>3. CASE ~Claimable(i)
    BY <1>0, <1>6, <2>1, <2>3 DEF RunnerClaim, TypeOK
  <2> QED BY <2>2, <2>3
<1>7. ASSUME NEW r \in Runner, Lookup(r) PROVE TypeOK'
  <2>1. cur[r] \in Image
    BY <1>0, <1>7 DEF Lookup, ClaimsRecorded, Working
  <2>2. rid' \in [Agent -> Nat]
    BY <1>0, <1>7, <2>1 DEF Lookup, TypeOK
  <2>3. pc' \in [Agent -> Place]
    BY <1>0, <1>7 DEF Lookup, TypeOK
  <2> QED BY <1>7, <2>2, <2>3 DEF Lookup, TypeOK
<1>8. ASSUME NEW r \in Runner, Resume(r) PROVE TypeOK'
  <2>1. CASE Exists(cur[r]) /\ ~ReceiptAlive(cur[r], rid[r])
    <3>1. Leave(r, "idle") /\ todo' \in [Runner -> SUBSET Image]
      BY <1>8, <2>1 DEF Resume, Abort, TypeOK
    <3> QED BY <1>0, <1>8, <2>1, <3>1, LeaveType DEF Resume, TypeOK
  <2>2. CASE ~(Exists(cur[r]) /\ ~ReceiptAlive(cur[r], rid[r]))
    <3>1. link' \in [Image -> Nat]
      BY <1>0, <1>8, <2>2 DEF Resume, TypeOK
    <3> QED BY <1>0, <1>8, <2>2, <3>1, DoneType, WriteStatusType DEF Resume, TypeOK
  <2> QED BY <2>1, <2>2
<1>9. ASSUME NEW r \in Runner, EndCycle(r) PROVE TypeOK'
  BY <1>0, <1>9 DEF TypeOK, EndCycle
<1>10. ASSUME NEW a \in Agent, LlmTerminal(a) \/ LlmFails(a) \/ MarkFailed(a)
       PROVE  TypeOK'
  <2>1. Done(a) /\ \E s \in Status : WriteStatus(cur[a], s)
    BY <1>0, <1>10 DEF LlmTerminal, LlmFails, MarkFailed, Terminal
  <2> QED BY <1>10, <2>1, DoneType, WriteStatusType
          DEF LlmTerminal, LlmFails, MarkFailed, TypeOK
<1>11. ASSUME NEW a \in Agent, Persist(a) PROVE TypeOK'
  <2>1. cur[a] \in Image
    BY <1>11 DEF Persist, ClaimsRecorded, Working
  <2>2. serial' \in [Image -> Nat]
    BY <1>11, <2>1 DEF Persist, TypeOK
  <2>3. rid' \in [Agent -> Nat] /\ pc' \in [Agent -> Place]
    BY <1>0, <1>11, <2>1, <2>2 DEF Persist, TypeOK
  <2>4. receipt' \in [Image -> {"none", "unverified", "verified"}]
    BY <1>11, <2>1 DEF Persist, TypeOK
  <2> QED BY <1>11, <2>2, <2>3, <2>4 DEF Persist, TypeOK
<1>12. ASSUME NEW a \in Agent, PersistOrphan(a) \/ MarkOrphan(a) PROVE TypeOK'
  BY <1>12, RaisesType DEF PersistOrphan, MarkOrphan, TypeOK
<1>13. ASSUME NEW a \in Agent, MarkAnalyzed(a) PROVE TypeOK'
  BY <1>13, DoneType, MarksType DEF MarkAnalyzed, TypeOK
<1>14. CASE Tick
  <2>1. age' \in [Image -> 0 .. Lease + 1]
    BY <1>14 DEF Tick, TypeOK
  <2>2. held' \in [Agent -> 0 .. HoldBound]
    BY <1>14 DEF Tick, TypeOK
  <2> QED BY <1>14, <2>1, <2>2 DEF Tick, TypeOK
<1>19. ASSUME Failure PROVE failures' \in 0 .. MaxFailures
  BY <1>19 DEF Failure, TypeOK
<1>15. ASSUME NEW a \in Agent, WriteFault(a) PROVE TypeOK'
  BY <1>15, <1>19, RaisesType DEF WriteFault, TypeOK
<1>20. ASSUME NEW a \in Agent, MarkLost(a) PROVE TypeOK'
  BY <1>20, <1>19, RaisesType, MarksType DEF MarkLost, TypeOK
<1>16. ASSUME NEW r \in Runner, CycleFault(r) PROVE TypeOK'
  <2>1. Leave(r, "idle") /\ todo' \in [Runner -> SUBSET Image]
    BY <1>16 DEF CycleFault, Abort, TypeOK
  <2> QED BY <1>0, <1>16, <1>19, <2>1, LeaveType DEF CycleFault, TypeOK
<1>21. ASSUME NEW i \in Image, DeleteFault(i) PROVE TypeOK'
  BY <1>19, <1>21 DEF DeleteFault, TypeOK
<1>17. CASE Crash
  BY <1>0, <1>17, <1>19 DEF Crash, TypeOK
<1>18. CASE UNCHANGED vars
  BY <1>18 DEF TypeOK, vars
<1> QED
  BY <1>0, <1>1, <1>2, <1>3, <1>4, <1>5, <1>6, <1>7, <1>8, <1>9, <1>10, <1>11, <1>12,
     <1>13, <1>14, <1>15, <1>16, <1>17, <1>18, <1>20, <1>21
     DEF Next, Request, Cycle, Analysis

-----------------------------------------------------------------------------
(* Claims *)

\* The part of the inductive invariant that speaks of claims.
ClaimsInv ==
    ClaimsRecorded /\ ClaimsHeld /\ ExclusiveAnalysis /\ CycleNeverOverwrites

\* Why the lease works: a row that can be claimed has no holder, because the
\* holder of a processing row is not older than HoldBound, and so than Lease.
LEMMA ClaimableIsFree ==
    ASSUME TypeOK, ClaimsHeld, NEW i \in Image, Claimable(i), NEW a \in Agent
    PROVE  ~Holds(a, i)
<1> SUFFICES ASSUME Holds(a, i) PROVE FALSE
  OBVIOUS
<1>1. status[i] = "processing" /\ age[i] = held[a]
  BY DEF Holds, ClaimsHeld, Claimable, Queued
<1>2. LeaseExpired(i)
  BY <1>1 DEF Claimable, Queued
<1>3. age[i] <= HoldBound
  BY <1>1 DEF TypeOK
<1> QED
  BY <1>2, <1>3 DEF LeaseExpired, TypeOK

LEMMA TakeClaimInv ==
    ASSUME TypeOK, ClaimsInv, NEW a \in Agent, NEW i \in Image,
           pc[a] \notin Working, Claimable(i), UNCHANGED receipt,
           NEW p \in Working, a \in Image => i = a, a \in Runner => p # "llm",
           TakeClaim(a, i, p)
    PROVE  ClaimsInv'
<1> USE DEF ClaimsInv
<1>1. /\ pc'[a] = p /\ cur'[a] = i /\ held'[a] = 0
      /\ status'[i] = "processing" /\ age'[i] = 0
  BY DEF TakeClaim, TypeOK
<1>2. ASSUME NEW b \in Agent, b # a
      PROVE  pc'[b] = pc[b] /\ cur'[b] = cur[b] /\ held'[b] = held[b]
  BY <1>2 DEF TakeClaim, TypeOK
<1>3. ASSUME NEW j \in Image, j # i
      PROVE  status'[j] = status[j] /\ age'[j] = age[j]
  BY <1>3 DEF TakeClaim, TypeOK
<1>4. ASSUME NEW b \in Agent, b # a, pc[b] \in Working PROVE cur[b] \in Image \ {i}
  BY <1>4, ClaimableIsFree DEF Holds, ClaimsRecorded
<1>5. ClaimsRecorded'
  BY <1>1, <1>2 DEF ClaimsRecorded
<1>6. ClaimsHeld'
  BY <1>1, <1>2, <1>3, <1>4 DEF ClaimsHeld
<1>7. ExclusiveAnalysis'
  BY <1>1, <1>2, <1>4 DEF ExclusiveAnalysis, Holds
<1>8. CycleNeverOverwrites'
  <2> SUFFICES ASSUME NEW r \in Runner, pc'[r] = "llm", Exists(cur[r])'
               PROVE  receipt'[cur'[r]] = "none"
    BY DEF CycleNeverOverwrites
  <2>1. r # a /\ r \in Agent
    BY <1>1 DEF Agent
  <2>2. pc[r] = "llm" /\ cur'[r] = cur[r] /\ cur[r] \in Image \ {i}
    BY <1>2, <1>4, <2>1 DEF Working
  <2>3. Exists(cur[r])
    BY <1>3, <2>2 DEF Exists
  <2> QED BY <2>2, <2>3 DEF CycleNeverOverwrites
<1> QED
  BY <1>5, <1>6, <1>7, <1>8

\* An agent that ends its claim, or had none, disturbs no other claim: the
\* only row it may have written is the one it held.
LEMMA LeaveInv ==
    ASSUME TypeOK, ClaimsInv, NEW a \in Agent, NEW p \in Place \ Working,
           Leave(a, p), UNCHANGED receipt,
           \A j \in Image : ~Holds(a, j) =>
               status'[j] = status[j] /\ age'[j] = age[j]
    PROVE  ClaimsInv'
<1> USE DEF ClaimsInv
<1>1. pc'[a] \notin Working /\ cur'[a] = NoImage
  BY DEF Leave, TypeOK
<1>2. ASSUME NEW b \in Agent, b # a
      PROVE  pc'[b] = pc[b] /\ cur'[b] = cur[b] /\ held'[b] = held[b]
  BY <1>2 DEF Leave, TypeOK
<1>3. ASSUME NEW b \in Agent, b # a, pc[b] \in Working
      PROVE  /\ cur[b] \in Image
             /\ status'[cur[b]] = status[cur[b]]
             /\ age'[cur[b]] = age[cur[b]]
  <2>1. cur[b] \in Image
    BY <1>3 DEF ClaimsRecorded
  <2>2. ~Holds(a, cur[b])
    BY <1>3, <2>1 DEF ExclusiveAnalysis, Holds
  <2> QED BY <2>1, <2>2
<1>4. ClaimsRecorded'
  BY <1>1, <1>2 DEF ClaimsRecorded
<1>5. ClaimsHeld'
  BY <1>1, <1>2, <1>3 DEF ClaimsHeld
<1>6. ExclusiveAnalysis'
  BY <1>1, <1>2 DEF ExclusiveAnalysis, Holds
<1>7. CycleNeverOverwrites'
  <2> SUFFICES ASSUME NEW r \in Runner, pc'[r] = "llm", Exists(cur[r])'
               PROVE  receipt'[cur'[r]] = "none"
    BY DEF CycleNeverOverwrites
  <2>1. r # a /\ r \in Agent
    BY <1>1 DEF Agent, Working
  <2>2. pc[r] = "llm" /\ cur'[r] = cur[r]
    BY <1>2, <2>1
  <2>3. Exists(cur[r])
    BY <1>3, <2>1, <2>2 DEF Exists, Working
  <2> QED BY <2>2, <2>3 DEF CycleNeverOverwrites
<1> QED
  BY <1>4, <1>5, <1>6, <1>7

LEMMA DoneInv ==
    ASSUME TypeOK, ClaimsInv, NEW a \in Agent, Done(a), UNCHANGED receipt,
           pc[a] \in Working,
           \/ UNCHANGED <<status, age>>
           \/ \E s : WriteStatus(cur[a], s)
    PROVE  ClaimsInv'
<1>1. ASSUME NEW j \in Image, ~Holds(a, j)
      PROVE  status'[j] = status[j] /\ age'[j] = age[j]
  BY <1>1 DEF Holds, WriteStatus, TypeOK
<1>2. PICK p \in Place \ Working : Leave(a, p)
  BY DEF Done, Place, Working
<1> QED
  BY <1>1, <1>2, LeaveInv

\* An agent that raises leaves its claim, or goes to mark_failed with it; if its
\* mark was committed before, the row it holds is analyzed.
LEMMA RaisesInv ==
    ASSUME TypeOK, ClaimsInv, NEW a \in Agent, Raises(a), UNCHANGED receipt,
           pc[a] \in Working,
           \/ UNCHANGED <<status, age>>
           \/ WriteStatus(cur[a], "analyzed")
    PROVE  ClaimsInv'
<1> USE DEF ClaimsInv
<1>1. ASSUME NEW j \in Image, ~Holds(a, j)
      PROVE  status'[j] = status[j] /\ age'[j] = age[j]
  BY <1>1 DEF Holds, WriteStatus, TypeOK
<1>2. CASE a \notin Runner
  <2>1. "idle" \in Place \ Working
    BY DEF Place, Working
  <2> QED BY <1>1, <1>2, <2>1, LeaveInv DEF Raises
<1>3. CASE a \in Runner
  <2>1. /\ pc'[a] = "fail" /\ UNCHANGED <<cur, held>>
        /\ \A b \in Agent : b # a => pc'[b] = pc[b]
    BY <1>3 DEF Raises, TypeOK
  <2>2. /\ cur[a] \in Image
        /\ a \in Image => cur[a] = a
        /\ \/ status[cur[a]] = "processing" /\ age[cur[a]] = held[a]
           \/ status[cur[a]] = "deleted"
           \/ status[cur[a]] = "analyzed"
    BY DEF ClaimsRecorded, ClaimsHeld
  <2>3. \/ UNCHANGED <<status, age>>
        \/ status'[cur[a]] \in {"analyzed", "deleted"}
    BY <2>2 DEF WriteStatus, Exists, Absent, TypeOK
  <2>4. ASSUME NEW b \in Agent, b # a, pc[b] \in Working
        PROVE  /\ cur[b] \in Image /\ cur[b] # cur[a]
               /\ status'[cur[b]] = status[cur[b]]
               /\ age'[cur[b]] = age[cur[b]]
    <3>1. cur[b] \in Image /\ ~Holds(a, cur[b])
      BY <2>4 DEF ClaimsRecorded, ExclusiveAnalysis, Holds
    <3> QED BY <1>1, <3>1 DEF Holds
  <2>5. ClaimsRecorded'
    BY <2>1 DEF ClaimsRecorded, Working
  <2>6. ClaimsHeld'
    <3> SUFFICES ASSUME NEW b \in Agent, pc'[b] \in Working
                 PROVE  /\ b \in Image => cur[b] = b
                        /\ \/ status'[cur[b]] = "processing" /\ age'[cur[b]] = held[b]
                           \/ status'[cur[b]] = "deleted"
                           \/ pc'[b] = "fail" /\ status'[cur[b]] = "analyzed"
      BY <2>1 DEF ClaimsHeld
    <3>1. CASE b = a
      BY <2>1, <2>2, <2>3, <3>1
    <3>2. CASE b # a
      BY <2>1, <2>4, <3>2 DEF ClaimsHeld
    <3> QED BY <3>1, <3>2
  <2>7. ExclusiveAnalysis'
    BY <2>1, <2>4 DEF ExclusiveAnalysis, Holds
  <2>8. CycleNeverOverwrites'
    <3> SUFFICES ASSUME NEW r \in Runner, pc'[r] = "llm", Exists(cur[r])'
                 PROVE  receipt'[cur[r]] = "none"
      BY <2>1 DEF CycleNeverOverwrites
    <3>1. r \in Agent /\ r # a /\ pc[r] = "llm"
      BY <2>1 DEF Agent
    <3> QED BY <2>1, <2>4, <3>1 DEF CycleNeverOverwrites, Exists, Working
  <2> QED BY <2>5, <2>6, <2>7, <2>8
<1> QED BY <1>2, <1>3

\* A step of a request moves no agent: it may only bring a first row to life,
\* drop a row, or change a receipt into anything but a new one.
LEMMA RequestInv ==
    ASSUME TypeOK, ClaimsInv, UNCHANGED <<cur, held>>,
           \A a \in Agent : pc[a] \in Working \/ pc'[a] \in Working => pc'[a] = pc[a],
           \A i \in Image :
               \/ status'[i] = status[i] /\ age'[i] = age[i]
               \/ status[i] = "unborn"
               \/ status'[i] = "deleted",
           \A i \in Image : receipt'[i] \in {receipt[i], "none"} \/ receipt[i] # "none"
    PROVE  ClaimsInv'
<1> USE DEF ClaimsInv
<1>1. ClaimsRecorded'
  BY DEF ClaimsRecorded
<1>2. ClaimsHeld'
  BY DEF ClaimsHeld, ClaimsRecorded
<1>3. ExclusiveAnalysis'
  BY DEF ExclusiveAnalysis, Holds
<1>4. CycleNeverOverwrites'
  <2> SUFFICES ASSUME NEW r \in Runner, pc'[r] = "llm", Exists(cur[r])'
               PROVE  receipt'[cur'[r]] = "none"
    BY DEF CycleNeverOverwrites
  <2>1. r \in Agent /\ pc[r] = "llm" /\ cur[r] \in Image
    BY DEF Agent, Working, ClaimsRecorded
  <2>2. Exists(cur[r])
    BY <2>1 DEF Exists, Absent, ClaimsHeld, Working
  <2> QED BY <2>1, <2>2 DEF CycleNeverOverwrites
<1> QED
  BY <1>1, <1>2, <1>3, <1>4

LEMMA LookupInv ==
    ASSUME TypeOK, ReceiptsNumbered, ClaimsInv, NEW r \in Runner, Lookup(r)
    PROVE  ClaimsInv'
<1> USE DEF ClaimsInv
<1>1. r \in Agent /\ pc[r] \in Working /\ cur[r] \in Image
  BY DEF Agent, Lookup, Working, ClaimsRecorded
<1>2. /\ pc'[r] \in Working
      /\ \A a \in Agent : a # r => pc'[a] = pc[a]
      /\ UNCHANGED <<cur, held, status, age, receipt>>
  BY <1>1 DEF Lookup, Working, TypeOK, imageVars, receiptVars
<1>3. ClaimsRecorded'
  BY <1>1, <1>2 DEF ClaimsRecorded
<1>4. ClaimsHeld'
  BY <1>1, <1>2 DEF ClaimsHeld, Lookup
<1>5. ExclusiveAnalysis'
  BY <1>1, <1>2 DEF ExclusiveAnalysis, Holds
<1>6. CycleNeverOverwrites'
  <2> SUFFICES ASSUME NEW q \in Runner, pc'[q] = "llm", Exists(cur[q])
               PROVE  receipt[cur[q]] = "none"
    BY <1>2 DEF CycleNeverOverwrites, Exists
  <2>1. CASE q = r
    <3>1. rid'[r] = 0
      BY <1>1, <2>1 DEF Lookup, TypeOK
    <3>2. SUFFICES ASSUME receipt[cur[r]] # "none" PROVE FALSE
      BY <2>1
    <3>3. Exists(cur[r])
      BY <2>1
    <3>4. serial[cur[r]] = 0
      BY <1>1, <3>1, <3>2, <3>3 DEF Lookup, TypeOK
    <3> QED BY <1>1, <3>2, <3>4 DEF ReceiptsNumbered
  <2>2. CASE q # r
    BY <1>2, <2>2 DEF CycleNeverOverwrites, Agent
  <2> QED BY <2>1, <2>2
<1> QED
  BY <1>3, <1>4, <1>5, <1>6

LEMMA PersistInv ==
    ASSUME TypeOK, ClaimsInv, NEW a \in Agent, Persist(a)
    PROVE  ClaimsInv'
<1> USE DEF ClaimsInv
<1>1. pc[a] \in Working /\ cur[a] \in Image
  BY DEF Persist, Working, ClaimsRecorded
<1>2. /\ pc'[a] = "mark" /\ pc'[a] \in Working
      /\ \A b \in Agent : b # a => pc'[b] = pc[b]
      /\ UNCHANGED <<cur, held, status, age>>
  BY <1>1 DEF Persist, Working, TypeOK, imageVars
<1>3. \A i \in Image : i # cur[a] => receipt'[i] = receipt[i]
  BY DEF Persist, TypeOK
<1>4. ClaimsRecorded'
  BY <1>1, <1>2 DEF ClaimsRecorded
<1>5. ClaimsHeld'
  BY <1>1, <1>2 DEF ClaimsHeld, Persist
<1>6. ExclusiveAnalysis'
  BY <1>1, <1>2 DEF ExclusiveAnalysis, Holds
<1>7. CycleNeverOverwrites'
  <2> SUFFICES ASSUME NEW r \in Runner, pc'[r] = "llm", Exists(cur[r])
               PROVE  receipt'[cur[r]] = "none"
    BY <1>2 DEF CycleNeverOverwrites, Exists
  <2>1. r # a /\ r \in Agent /\ pc[r] = "llm"
    BY <1>2 DEF Agent
  <2>2. cur[r] \in Image /\ cur[r] # cur[a]
    BY <1>1, <2>1 DEF ExclusiveAnalysis, Holds, ClaimsRecorded, Working
  <2> QED BY <1>3, <2>1, <2>2 DEF CycleNeverOverwrites
<1> QED
  BY <1>4, <1>5, <1>6, <1>7

LEMMA TickInv ==
    ASSUME TypeOK, ClaimsInv, Tick
    PROVE  ClaimsInv'
<1> USE DEF ClaimsInv
<1>1. UNCHANGED <<pc, cur, status, receipt>>
  BY DEF Tick, receiptVars
<1>2. ClaimsRecorded' /\ ExclusiveAnalysis' /\ CycleNeverOverwrites'
  BY <1>1 DEF ClaimsRecorded, ExclusiveAnalysis, Holds, CycleNeverOverwrites, Exists
<1>3. ClaimsHeld'
  <2> SUFFICES ASSUME NEW a \in Agent, pc[a] \in Working,
                      status[cur[a]] = "processing"
               PROVE  age'[cur[a]] = held'[a]
    BY <1>1 DEF ClaimsHeld
  <2>1. /\ cur[a] \in Image
        /\ status[cur[a]] = "processing"
        /\ age[cur[a]] = held[a]
    BY DEF ClaimsHeld, ClaimsRecorded
  <2>2. held[a] < HoldBound /\ held'[a] = held[a] + 1
    BY DEF Tick
  <2>3. age[cur[a]] <= Lease
    BY <2>1, <2>2 DEF TypeOK
  <2> QED BY <2>1, <2>2, <2>3 DEF Tick
<1> QED
  BY <1>2, <1>3

-----------------------------------------------------------------------------
(* Every step *)

LEMMA ClaimsStep ==
    TypeOK /\ ReceiptsNumbered /\ ClaimsInv /\ [Next]_vars => ClaimsInv'
<1> SUFFICES ASSUME TypeOK, ReceiptsNumbered, ClaimsInv, [Next]_vars
             PROVE  ClaimsInv'
  OBVIOUS
<1> USE DEF imageVars, receiptVars, agentVars
<1>0. /\ Image \subseteq Agent /\ Runner \subseteq Agent
      /\ {"idle", "scan"} \subseteq Place \ Working
  BY DEF Agent, Place, Working
<1>1. ASSUME NEW i \in Image, Upload(i) PROVE ClaimsInv'
  <2>1. \A a \in Agent : pc[a] \in Working \/ pc'[a] \in Working => pc'[a] = pc[a]
    BY <1>0, <1>1 DEF Upload, TypeOK, ClaimsInv, ClaimsHeld, Working
  <2>2. \A j \in Image : \/ status'[j] = status[j] /\ age'[j] = age[j]
                         \/ status[j] = "unborn"
    BY <1>1 DEF Upload, TypeOK
  <2> QED BY <1>1, <2>1, <2>2, RequestInv DEF Upload
<1>2. ASSUME NEW i \in Image, UploadClaim(i) PROVE ClaimsInv'
  <2>1. CASE Claimable(i)
    BY <1>0, <1>2, <2>1, TakeClaimInv DEF UploadClaim, Working
  <2>2. CASE ~Claimable(i)
    BY <1>0, <1>2, <2>2, LeaveInv DEF UploadClaim
  <2> QED BY <2>1, <2>2
<1>3. ASSUME NEW i \in Image,
             DeleteImageCheck(i) \/ DeleteImageRow(i) \/ Verify(i)
             \/ DeleteReceipt(i) \/ DeleteReceiptImage(i) \/ DeleteFault(i)
      PROVE  ClaimsInv'
  <2>1. UNCHANGED <<pc, cur, held>>
    BY <1>3 DEF DeleteImageCheck, DeleteImageRow, Verify, DeleteReceipt,
                DeleteReceiptImage, DeleteFault
  <2>2. \A j \in Image : \/ status'[j] = status[j] /\ age'[j] = age[j]
                         \/ status'[j] = "deleted"
    BY <1>3 DEF TypeOK, DeleteImageCheck, DeleteImageRow, Verify, DeleteReceipt,
                DeleteReceiptImage, DeleteFault, DropRow
  <2>3. \A j \in Image : receipt'[j] \in {receipt[j], "none"} \/ receipt[j] # "none"
    BY <1>3 DEF TypeOK, DeleteImageCheck, DeleteImageRow, Verify, DeleteReceipt,
                DeleteReceiptImage, DeleteFault
  <2> QED BY <2>1, <2>2, <2>3, RequestInv
<1>4. CASE LoopWakes \/ \E r \in Runner : \/ ManualTrigger(r) \/ BeginCycle(r)
                                         \/ SkipCycle(r) \/ EndCycle(r)
  <2>1. UNCHANGED <<cur, held, status, age, receipt>>
    BY <1>4 DEF LoopWakes, ManualTrigger, BeginCycle, SkipCycle, EndCycle
  <2>2. \A a \in Agent : pc[a] \in Working \/ pc'[a] \in Working => pc'[a] = pc[a]
    BY <1>0, <1>4 DEF LoopWakes, ManualTrigger, BeginCycle, SkipCycle, EndCycle,
                      TypeOK, Working
  <2> QED BY <2>1, <2>2, RequestInv
<1>5. ASSUME NEW r \in Runner, NEW i \in Image, RunnerClaim(r, i) PROVE ClaimsInv'
  <2>1. CASE Claimable(i)
    BY <1>0, <1>5, <2>1, TakeClaimInv DEF RunnerClaim, Working
  <2>2. CASE ~Claimable(i)
    BY <1>5, <2>2, RequestInv DEF RunnerClaim
  <2> QED BY <2>1, <2>2
<1>6. ASSUME NEW r \in Runner, Lookup(r) PROVE ClaimsInv'
  BY <1>6, LookupInv
<1>7. ASSUME NEW r \in Runner, Resume(r) PROVE ClaimsInv'
  <2>1. pc[r] \in Working
    BY <1>7 DEF Resume, Working
  <2>2. CASE Exists(cur[r]) /\ ~ReceiptAlive(cur[r], rid[r])
    BY <1>0, <1>7, <2>2, LeaveInv DEF Resume, Abort
  <2>3. CASE ~(Exists(cur[r]) /\ ~ReceiptAlive(cur[r], rid[r]))
    BY <1>0, <1>7, <2>1, <2>3, DoneInv DEF Resume
  <2> QED BY <2>2, <2>3
<1>8. ASSUME NEW a \in Agent,
             LlmTerminal(a) \/ LlmFails(a) \/ MarkFailed(a) \/ MarkAnalyzed(a)
      PROVE  ClaimsInv'
  <2>1. /\ pc[a] \in Working /\ Done(a) /\ UNCHANGED receipt
        /\ \E s : WriteStatus(cur[a], s)
    BY <1>8 DEF LlmTerminal, LlmFails, MarkFailed, MarkAnalyzed, Marks, Working
  <2> QED BY <2>1, DoneInv
<1>9. ASSUME NEW a \in Agent, Persist(a) PROVE ClaimsInv'
  BY <1>9, PersistInv
<1>10. ASSUME NEW a \in Agent, PersistOrphan(a) \/ MarkOrphan(a) \/ WriteFault(a)
       PROVE  ClaimsInv'
  <2>1. pc[a] \in Working /\ Raises(a) /\ UNCHANGED <<receipt, status, age>>
    BY <1>10 DEF PersistOrphan, MarkOrphan, WriteFault, Working
  <2> QED BY <2>1, RaisesInv
<1>15. ASSUME NEW a \in Agent, MarkLost(a) PROVE ClaimsInv'
  BY <1>15, RaisesInv DEF MarkLost, Marks, Working
<1>11. CASE Tick
  BY <1>11, TickInv
<1>12. ASSUME NEW r \in Runner, CycleFault(r) PROVE ClaimsInv'
  BY <1>0, <1>12, LeaveInv DEF CycleFault, Abort
<1>13. CASE Crash
  BY <1>13 DEF Crash, ClaimsInv, ClaimsRecorded, ClaimsHeld, ExclusiveAnalysis,
               Holds, CycleNeverOverwrites, Working, Agent
<1>14. CASE UNCHANGED vars
  BY <1>14, RequestInv DEF vars
<1> QED
  BY <1>0, <1>1, <1>2, <1>3, <1>4, <1>5, <1>6, <1>7, <1>8, <1>9, <1>10, <1>11, <1>12,
     <1>13, <1>14, <1>15
     DEF Next, Request, Cycle, Analysis

\* No write brings a row back to "unborn".
LEMMA RequestsStep == TypeOK /\ RequestsHaveRows /\ [Next]_vars => RequestsHaveRows'
<1> SUFFICES ASSUME TypeOK, RequestsHaveRows, [Next]_vars
             PROVE  RequestsHaveRows'
  OBVIOUS
<1> USE DEF imageVars, receiptVars, agentVars, requestVars
<1>1. \A i \in Image : status[i] # "unborn" => status'[i] # "unborn"
  <2>1. ASSUME NEW j, NEW s, s # "unborn", WriteStatus(j, s)
        PROVE  \A i \in Image : status[i] # "unborn" => status'[i] # "unborn"
    BY <2>1 DEF WriteStatus, TypeOK
  <2>3. ASSUME NEW i \in Image, Request(i) \/ UploadClaim(i) \/ DeleteFault(i)
        PROVE  \A j \in Image : status[j] # "unborn" => status'[j] # "unborn"
    BY <2>3 DEF Request, Upload, DeleteImageCheck, DeleteImageRow, Verify,
                DeleteReceipt, DeleteReceiptImage, DropRow, DeleteFault, UploadClaim,
                TakeClaim, TypeOK
  <2>4. ASSUME NEW r \in Runner, Cycle(r)
        PROVE  \A j \in Image : status[j] # "unborn" => status'[j] # "unborn"
    BY <2>1, <2>4 DEF Cycle, RunnerClaim, Lookup, Resume, MarkFailed, EndCycle,
                      TakeClaim, TypeOK
  <2>5. ASSUME NEW a \in Agent, Analysis(a) \/ WriteFault(a) \/ MarkLost(a)
        PROVE  \A j \in Image : status[j] # "unborn" => status'[j] # "unborn"
    <3>1. CASE LlmTerminal(a)
      BY <2>1, <3>1 DEF LlmTerminal, Terminal
    <3>2. CASE LlmFails(a) \/ MarkAnalyzed(a) \/ MarkLost(a)
      BY <2>1, <3>2 DEF LlmFails, MarkAnalyzed, MarkLost, Marks
    <3>3. CASE Persist(a)
      BY <3>3 DEF Persist
    <3>4. CASE PersistOrphan(a) \/ MarkOrphan(a) \/ WriteFault(a)
      BY <3>4 DEF PersistOrphan, MarkOrphan, WriteFault
    <3> QED BY <2>5, <3>1, <3>2, <3>3, <3>4 DEF Analysis
  <2>6. CASE \/ LoopWakes \/ Tick \/ Crash \/ UNCHANGED vars
             \/ \E r \in Runner : \/ ManualTrigger(r) \/ BeginCycle(r) \/ SkipCycle(r)
                                  \/ CycleFault(r)
    BY <2>6 DEF LoopWakes, Tick, Crash, vars, ManualTrigger, BeginCycle, SkipCycle,
                CycleFault
  <2> QED BY <2>3, <2>4, <2>5, <2>6 DEF Next
<1>2. \A i \in deleting' \cup orphaning' :
         i \in Image /\ (i \in deleting \cup orphaning \/ status[i] # "unborn")
  <2>1. ASSUME NEW i \in Image, Request(i)
        PROVE  \A j \in deleting' \cup orphaning' :
                  j \in Image /\ (j \in deleting \cup orphaning \/ status[j] # "unborn")
    BY <2>1 DEF Request, Upload, DeleteImageCheck, DeleteImageRow, Verify,
                DeleteReceipt, DeleteReceiptImage, TypeOK, Exists, Absent, Queued,
                Terminal
  <2>2. CASE Crash \/ \E i \in Image : DeleteFault(i)
    BY <2>2 DEF Crash, DeleteFault, TypeOK
  <2>3. ASSUME UNCHANGED requestVars
        PROVE  \A j \in deleting' \cup orphaning' :
                  j \in Image /\ (j \in deleting \cup orphaning \/ status[j] # "unborn")
    BY <2>3 DEF TypeOK
  <2>4. CASE \/ LoopWakes \/ Tick \/ UNCHANGED vars
             \/ \E i \in Image : UploadClaim(i)
             \/ \E r \in Runner : ManualTrigger(r) \/ BeginCycle(r) \/ SkipCycle(r)
             \/ \E r \in Runner : Cycle(r) \/ CycleFault(r)
             \/ \E a \in Agent : Analysis(a) \/ WriteFault(a) \/ MarkLost(a)
    <3>1. UNCHANGED requestVars
      BY <2>4 DEF LoopWakes, Tick, vars, UploadClaim, ManualTrigger, BeginCycle,
           SkipCycle, Cycle, RunnerClaim, Lookup, Resume, MarkFailed, EndCycle,
           CycleFault, Analysis, LlmTerminal, LlmFails, Persist, PersistOrphan,
           MarkAnalyzed, MarkOrphan, WriteFault, MarkLost
    <3> QED BY <2>3, <3>1
  <2> QED BY <2>1, <2>2, <2>4 DEF Next
<1> QED
  BY <1>1, <1>2 DEF RequestsHaveRows

\* A receipt is inserted with the next number.
LEMMA ReceiptsStep ==
    TypeOK /\ ClaimsRecorded /\ ReceiptsNumbered /\ [Next]_vars => ReceiptsNumbered'
<1> SUFFICES ASSUME TypeOK, ClaimsRecorded, ReceiptsNumbered, [Next]_vars
             PROVE  ReceiptsNumbered'
  OBVIOUS
<1>1. ASSUME NEW a \in Agent, Persist(a) PROVE ReceiptsNumbered'
  <2>1. cur[a] \in Image
    BY <1>1 DEF Persist, ClaimsRecorded, Working
  <2> QED BY <1>1, <2>1 DEF Persist, ReceiptsNumbered, TypeOK
<1>2. ASSUME NEW i \in Image, Verify(i) \/ DeleteReceipt(i) PROVE ReceiptsNumbered'
  BY <1>2 DEF Verify, DeleteReceipt, ReceiptsNumbered, TypeOK
<1>3. ASSUME UNCHANGED receiptVars PROVE ReceiptsNumbered'
  BY <1>3 DEF ReceiptsNumbered, receiptVars
<1>4. ASSUME NEW i \in Image,
             \/ Upload(i) \/ DeleteImageCheck(i) \/ DeleteImageRow(i)
             \/ DeleteReceiptImage(i) \/ DeleteFault(i) \/ UploadClaim(i)
      PROVE  UNCHANGED receiptVars
  BY <1>4 DEF Upload, DeleteImageCheck, DeleteImageRow, DeleteReceiptImage,
              DeleteFault, UploadClaim
<1>5. ASSUME NEW r \in Runner,
             \/ ManualTrigger(r) \/ BeginCycle(r) \/ SkipCycle(r) \/ Cycle(r)
             \/ CycleFault(r)
      PROVE  UNCHANGED receiptVars
  BY <1>5 DEF ManualTrigger, BeginCycle, SkipCycle, Cycle, RunnerClaim, Lookup,
              Resume, MarkFailed, EndCycle, CycleFault
<1>6. ASSUME NEW a \in Agent,
             \/ LlmTerminal(a) \/ LlmFails(a) \/ PersistOrphan(a)
             \/ MarkAnalyzed(a) \/ MarkOrphan(a) \/ WriteFault(a) \/ MarkLost(a)
      PROVE  UNCHANGED receiptVars
  BY <1>6 DEF LlmTerminal, LlmFails, PersistOrphan, MarkAnalyzed, MarkOrphan,
              WriteFault, MarkLost
<1>7. CASE LoopWakes \/ Tick \/ Crash \/ UNCHANGED vars
  BY <1>3, <1>7 DEF LoopWakes, Tick, Crash, vars
<1> QED
  BY <1>1, <1>2, <1>3, <1>4, <1>5, <1>6, <1>7 DEF Next, Request, Cycle, Analysis

LEMMA InitInv == Init => IInv
BY InitType DEF Init, IInv, RequestsHaveRows, ReceiptsNumbered, ClaimsRecorded,
                ClaimsHeld, ExclusiveAnalysis, Holds, CycleNeverOverwrites, Working, Agent

LEMMA InvStep == IInv /\ [Next]_vars => IInv'
BY StepType, ClaimsStep, RequestsStep, ReceiptsStep DEF IInv, ClaimsInv

LEMMA Inductive == Spec => []IInv
BY InitInv, InvStep, PTL DEF Spec

-----------------------------------------------------------------------------
(* Theorems *)

\* Every variable stays in its type (the rows and the agents' local state).
THEOREM TypeCorrect == Spec => []TypeOK
<1>1. IInv => TypeOK
  BY DEF IInv
<1> QED
  BY <1>1, Inductive, PTL

\* Of all upload requests, cycles and manual triggers, through faults and
\* restarts, at most one analyses an image (claim_for_analysis).
THEOREM Exclusion == Spec => []ExclusiveAnalysis
<1>1. IInv => ExclusiveAnalysis
  BY DEF IInv
<1> QED
  BY <1>1, Inductive, PTL

\* A cycle that reaches the LLM works for an image without a receipt, so its
\* result cannot replace one (_analyze_one).
THEOREM NoOverwriting == Spec => []CycleNeverOverwrites
<1>1. IInv => CycleNeverOverwrites
  BY DEF IInv
<1> QED
  BY <1>1, Inductive, PTL

\* What may become of a settled image in a step.
Stands(i) ==
    \/ status'[i] \in {status[i], "deleted"}
    \/ /\ status[i] = "analyzed" /\ status'[i] = "failed"
       /\ link'[i] = link[i]
       /\ \E r \in Runner : pc[r] = "fail" /\ cur[r] = i

\* The row an agent writes is the row it holds, and that one is not settled,
\* unless the agent has marked it without hearing so.
LEMMA SettledStep ==
    ASSUME IInv, [Next]_vars, NEW i \in Image,
           status[i] \in Terminal \cup {"analyzed"}
    PROVE  Stands(i)
<1> USE DEF imageVars, receiptVars, agentVars
<1>1. \A a \in Agent : pc[a] # "fail" => ~Holds(a, i)
  BY DEF IInv, ClaimsHeld, Holds, Terminal
<1>2. ~Claimable(i) /\ status[i] # "unborn"
  BY DEF Claimable, Queued, Terminal
<1>3. ASSUME NEW a \in Agent, pc[a] \in Working \ {"fail"}, NEW s, WriteStatus(cur[a], s)
      PROVE  Stands(i)
  BY <1>1, <1>3 DEF Holds, WriteStatus, IInv, TypeOK, Stands
<1>4. ASSUME NEW a \in Agent, NEW j \in Image, NEW p, Claimable(j), TakeClaim(a, j, p)
      PROVE  Stands(i)
  BY <1>2, <1>4 DEF TakeClaim, IInv, TypeOK, Stands
<1>5. Runner \subseteq Agent /\ Image \subseteq Agent
  BY DEF Agent
<1>6. ASSUME NEW j \in Image, Upload(j) PROVE Stands(i)
  BY <1>2, <1>6 DEF Upload, IInv, TypeOK, Stands
<1>7. ASSUME NEW j \in Image,
             DeleteImageCheck(j) \/ DeleteImageRow(j) \/ Verify(j)
             \/ DeleteReceipt(j) \/ DeleteReceiptImage(j) \/ DeleteFault(j)
      PROVE  Stands(i)
  BY <1>7 DEF DeleteImageCheck, DeleteImageRow, Verify, DeleteReceipt,
              DeleteReceiptImage, DeleteFault, DropRow, IInv, TypeOK, Stands
<1>13. ASSUME UNCHANGED status PROVE Stands(i)
  BY <1>13 DEF Stands
<1>8. ASSUME NEW j \in Image, UploadClaim(j) PROVE Stands(i)
  BY <1>4, <1>5, <1>8, <1>13 DEF UploadClaim
<1>9. ASSUME NEW r \in Runner, NEW j \in Image, RunnerClaim(r, j) PROVE Stands(i)
  BY <1>4, <1>5, <1>9, <1>13 DEF RunnerClaim
<1>10. ASSUME NEW r \in Runner, Resume(r) PROVE Stands(i)
  BY <1>3, <1>5, <1>10, <1>13 DEF Resume, Working
<1>11. ASSUME NEW a \in Agent, LlmTerminal(a) \/ LlmFails(a) PROVE Stands(i)
  BY <1>3, <1>11 DEF LlmTerminal, LlmFails, Working
<1>12. ASSUME NEW a \in Agent, MarkAnalyzed(a) \/ MarkLost(a) PROVE Stands(i)
  BY <1>3, <1>12 DEF MarkAnalyzed, MarkLost, Marks, Working
\* The cycle at mark_failed holds the one row it writes.
<1>15. ASSUME NEW r \in Runner, MarkFailed(r) PROVE Stands(i)
  <2>1. pc[r] = "fail" /\ WriteStatus(cur[r], "failed") /\ UNCHANGED link
    BY <1>15 DEF MarkFailed
  <2>2. CASE cur[r] = i
    BY <2>1, <2>2 DEF WriteStatus, Exists, Absent, Terminal, IInv, TypeOK, ClaimsHeld,
       Agent, Working, Stands
  <2>3. CASE cur[r] # i
    BY <2>1, <2>3 DEF WriteStatus, IInv, TypeOK, Stands
  <2> QED BY <2>2, <2>3
<1>14. CASE \/ LoopWakes \/ Tick \/ Crash \/ UNCHANGED vars
            \/ \E r \in Runner : \/ ManualTrigger(r) \/ BeginCycle(r) \/ SkipCycle(r)
                                 \/ Lookup(r) \/ EndCycle(r) \/ CycleFault(r)
            \/ \E a \in Agent : \/ Persist(a) \/ PersistOrphan(a) \/ MarkOrphan(a)
                                \/ WriteFault(a)
  <2>1. UNCHANGED status
    BY <1>14 DEF LoopWakes, Tick, Crash, vars, ManualTrigger, BeginCycle, SkipCycle,
                 Lookup, EndCycle, CycleFault, Persist, PersistOrphan, MarkOrphan,
                 WriteFault
  <2> QED BY <1>13, <2>1
<1> QED
  BY <1>6, <1>7, <1>8, <1>9, <1>10, <1>11, <1>12, <1>14, <1>15
     DEF Next, Request, Cycle, Analysis

\* "Neither terminal outcome is automatically retried", and an analyzed image
\* is not either: an outcome stands until the row is deleted, but for a cycle
\* whose mark_analyzed was committed without an answer (_analyze_one).
THEOREM OutcomesStand == Spec => SettledStays
<1>1. IInv /\ [Next]_vars =>
        [\A i \in Image : status[i] \in Terminal \cup {"analyzed"} =>
            \/ status'[i] \in {status[i], "deleted"}
            \/ /\ status[i] = "analyzed" /\ status'[i] = "failed"
               /\ link'[i] = link[i]
               /\ \E r \in Runner : pc[r] = "fail" /\ cur[r] = i]_vars
  BY SettledStep DEF Stands
<1> QED
  BY <1>1, Inductive, PTL DEF Spec, SettledStays

-----------------------------------------------------------------------------
(* The wake-up *)

\* The loop leaves the lock's queue only by looking at the images.
LEMMA TriggerStep ==
    TypeOK /\ TriggerNotLost /\ [Next]_vars => TriggerNotLost'
<1> SUFFICES ASSUME TypeOK, TriggerNotLost, [Next]_vars PROVE TriggerNotLost'
  OBVIOUS
<1> USE DEF imageVars, receiptVars, agentVars
<1>0. Loop \in Agent /\ Loop \notin Image
  BY DEF Agent
\* Most steps leave the loop there, the event and what it announces.
<1>1. ASSUME UNCHANGED <<wake, unseen>>, pc[Loop] = "queued" => pc'[Loop] = "queued"
      PROVE  TriggerNotLost'
  BY <1>1 DEF TriggerNotLost
<1>2. ASSUME NEW a \in Agent, NEW p, Leave(a, p), a = Loop => pc[a] # "queued"
      PROVE  pc[Loop] = "queued" => pc'[Loop] = "queued"
  BY <1>0, <1>2 DEF Leave, TypeOK
<1>3. ASSUME NEW i \in Image, Upload(i) PROVE TriggerNotLost'
  BY <1>0, <1>3 DEF Upload, TriggerNotLost, TypeOK
<1>4. ASSUME NEW i \in Image, UploadClaim(i) PROVE TriggerNotLost'
  BY <1>0, <1>1, <1>4 DEF UploadClaim, TakeClaim, Leave, TypeOK
<1>5. ASSUME NEW i \in Image,
             DeleteImageCheck(i) \/ DeleteImageRow(i) \/ Verify(i)
             \/ DeleteReceipt(i) \/ DeleteReceiptImage(i) \/ DeleteFault(i)
      PROVE  TriggerNotLost'
  BY <1>1, <1>5 DEF DeleteImageCheck, DeleteImageRow, Verify, DeleteReceipt,
                    DeleteReceiptImage, DeleteFault
<1>6. CASE LoopWakes
  BY <1>0, <1>6 DEF LoopWakes, TriggerNotLost, TypeOK
<1>7. ASSUME NEW r \in Runner, ManualTrigger(r) PROVE TriggerNotLost'
  BY <1>0, <1>1, <1>7 DEF ManualTrigger, TypeOK
<1>8. ASSUME NEW r \in Runner, BeginCycle(r) \/ SkipCycle(r) PROVE TriggerNotLost'
  BY <1>8 DEF BeginCycle, SkipCycle, TriggerNotLost
<1>9. ASSUME NEW r \in Runner, Cycle(r) PROVE TriggerNotLost'
  <2>1. r \in Agent /\ UNCHANGED <<wake, unseen>>
    BY <1>9 DEF Cycle, RunnerClaim, Lookup, Resume, MarkFailed, EndCycle, Agent
  <2>2. pc[r] # "queued" /\ \A b \in Agent : b # r => pc'[b] = pc[b]
    BY <1>9, <2>1 DEF Cycle, RunnerClaim, TakeClaim, Lookup, Resume, MarkFailed,
                      EndCycle, Abort, Done, Leave, TypeOK
  <2> QED BY <1>0, <1>1, <2>1, <2>2
<1>10. ASSUME NEW a \in Agent, Analysis(a) \/ WriteFault(a) \/ MarkLost(a)
       PROVE  TriggerNotLost'
  <2>1. UNCHANGED <<wake, unseen>> /\ pc[a] # "queued"
    BY <1>10 DEF Analysis, LlmTerminal, LlmFails, Persist, PersistOrphan, MarkAnalyzed,
                 Marks, MarkOrphan, WriteFault, MarkLost
  <2>2. \A b \in Agent : b # a => pc'[b] = pc[b]
    BY <1>10 DEF Analysis, LlmTerminal, LlmFails, Persist, PersistOrphan, MarkAnalyzed,
                 MarkOrphan, WriteFault, MarkLost, Raises, Done, Leave, TypeOK
  <2> QED BY <1>0, <1>1, <2>1, <2>2
<1>11. ASSUME NEW r \in Runner, CycleFault(r) PROVE TriggerNotLost'
  <2>1. pc[r] # "queued" /\ r \in Agent
    BY <1>11 DEF CycleFault, Working, Agent
  <2> QED BY <1>1, <1>2, <1>11, <2>1 DEF CycleFault, Abort
<1>12. CASE Crash
  BY <1>12 DEF Crash, TriggerNotLost
<1>13. CASE Tick \/ UNCHANGED vars
  BY <1>1, <1>13 DEF Tick, vars
<1> QED
  BY <1>3, <1>4, <1>5, <1>6, <1>7, <1>8, <1>9, <1>10, <1>11, <1>12, <1>13
     DEF Next, Request

\* A triggered submission that no cycle has looked for finds the event set or
\* the loop on its way, whatever the manual triggers do (trigger, _run_forever).
THEOREM TriggersArrive == Spec => []TriggerNotLost
<1>1. Init => TriggerNotLost
  BY DEF Init, TriggerNotLost
<1>2. IInv => TypeOK
  BY DEF IInv
<1> QED
  BY <1>1, <1>2, TriggerStep, Inductive, PTL DEF Spec

-----------------------------------------------------------------------------
(* Analyzed images and their receipts *)

Receipted(i) ==
    status[i] = "analyzed" =>
        \/ receipt[i] # "none" /\ link[i] = serial[i]
        \/ /\ link[i] = 0 /\ receipt[i] = "none"
           /\ i \in orphaning \/ failures > 0

\* A row that keeps its columns, or is not analyzed after the step.
LEMMA StaysReceipted ==
    ASSUME NEW i \in Image, Receipted(i), failures \in Nat, failures' \in Nat,
           failures' >= failures, i \in orphaning => i \in orphaning' \/ failures' > 0,
           \/ status'[i] # "analyzed"
           \/ /\ status'[i] = status[i] /\ link'[i] = link[i]
              /\ (receipt'[i] = "none" <=> receipt[i] = "none") /\ serial'[i] = serial[i]
    PROVE  Receipted(i)'
BY DEF Receipted

\* What is written as analyzed is linked to a receipt that is there.
LEMMA MarkReceipted ==
    ASSUME TypeOK, NEW a \in Agent, NEW i \in Image, Receipted(i), cur[a] \in Image,
           ~Exists(cur[a]) \/ ReceiptAlive(cur[a], rid[a]),
           WriteStatus(cur[a], "analyzed"),
           link' = IF Exists(cur[a]) THEN [link EXCEPT ![cur[a]] = rid[a]] ELSE link,
           UNCHANGED <<receiptVars, requestVars>>, Failure \/ UNCHANGED failures
    PROVE  Receipted(i)'
<1>1. /\ UNCHANGED <<serial, receipt, orphaning>>
      /\ failures \in Nat /\ failures' \in Nat /\ failures' >= failures
  BY DEF receiptVars, requestVars, Failure, TypeOK
<1>2. CASE i = cur[a] /\ Exists(i)
  BY <1>1, <1>2 DEF Receipted, WriteStatus, ReceiptAlive, TypeOK
<1>3. CASE ~(i = cur[a] /\ Exists(i))
  <2>1. status'[i] = status[i] /\ link'[i] = link[i]
    BY <1>3 DEF WriteStatus, TypeOK
  <2> QED BY <1>1, <2>1, StaysReceipted
<1> QED
  BY <1>2, <1>3

LEMMA ReceiptedStep ==
    ASSUME IInv, [Next]_vars, NEW i \in Image, Receipted(i)
    PROVE  Receipted(i)'
<1> USE DEF imageVars, receiptVars, agentVars, requestVars
<1>0. /\ TypeOK /\ ClaimsRecorded /\ ClaimsHeld /\ failures \in Nat
      /\ Image \subseteq Agent /\ Runner \subseteq Agent
  BY DEF IInv, TypeOK, Agent
\* Writes of other statuses.
<1>1. ASSUME NEW j, NEW s, s # "analyzed", WriteStatus(j, s) \/ UNCHANGED status
      PROVE  status'[i] # "analyzed" \/ status'[i] = status[i]
  BY <1>0, <1>1 DEF WriteStatus, TypeOK
<1>2. ASSUME Failure PROVE failures' \in Nat /\ failures' > 0 /\ failures' >= failures
  BY <1>0, <1>2 DEF Failure
<1>3. ASSUME NEW j \in Image, Upload(j) PROVE Receipted(i)'
  <2>1. status'[i] # "analyzed" \/ status'[i] = status[i]
    BY <1>0, <1>3 DEF Upload, TypeOK
  <2> QED BY <1>0, <1>3, <2>1, StaysReceipted DEF Upload
<1>4. ASSUME NEW a \in Agent, NEW j \in Image, NEW p, TakeClaim(a, j, p),
             UNCHANGED <<receipt, serial, orphaning, failures>>
      PROVE  Receipted(i)'
  <2>1. status'[i] # "analyzed" \/ status'[i] = status[i]
    BY <1>0, <1>4 DEF TakeClaim, TypeOK
  <2> QED BY <1>0, <1>4, <2>1, StaysReceipted DEF TakeClaim
<1>5. ASSUME UNCHANGED <<status, link, receipt, serial, orphaning>>,
             Failure \/ UNCHANGED failures
      PROVE  Receipted(i)'
  BY <1>0, <1>2, <1>5, StaysReceipted
<1>6. ASSUME NEW j \in Image, UploadClaim(j) PROVE Receipted(i)'
  BY <1>0, <1>4, <1>5, <1>6 DEF UploadClaim
<1>7. ASSUME NEW r \in Runner, NEW j \in Image, RunnerClaim(r, j) PROVE Receipted(i)'
  BY <1>0, <1>4, <1>5, <1>7 DEF RunnerClaim
<1>8. ASSUME NEW j \in Image, DeleteImageRow(j) \/ DeleteReceiptImage(j)
      PROVE  Receipted(i)'
  <2>1. IF i = j THEN status'[i] = "deleted"
        ELSE /\ status'[i] = status[i] /\ link'[i] = link[i]
             /\ i \in orphaning => i \in orphaning'
    BY <1>0, <1>8 DEF DeleteImageRow, DeleteReceiptImage, DropRow, TypeOK
  <2>2. CASE i = j
    BY <2>1, <2>2 DEF Receipted
  <2>3. CASE i # j
    BY <1>0, <1>8, <2>1, <2>3, StaysReceipted DEF DeleteImageRow, DeleteReceiptImage
  <2> QED BY <2>2, <2>3
<1>9. ASSUME NEW j \in Image, Verify(j) PROVE Receipted(i)'
  <2>1. receipt'[i] = "none" <=> receipt[i] = "none"
    BY <1>0, <1>9 DEF Verify, TypeOK
  <2> QED BY <1>0, <1>9, <2>1, StaysReceipted DEF Verify
<1>10. ASSUME NEW j \in Image, DeleteReceipt(j) PROVE Receipted(i)'
  <2>1. CASE i = j
    <3>1. /\ status' = status /\ receipt'[i] = "none" /\ link'[i] = 0
          /\ Exists(i) => i \in orphaning'
      BY <1>0, <1>10, <2>1 DEF DeleteReceipt, TypeOK
    <3> QED BY <3>1 DEF Receipted, Exists, Absent
  <2>2. CASE i # j
    <3>1. /\ receipt'[i] = receipt[i] /\ link'[i] = link[i]
          /\ i \in orphaning => i \in orphaning'
      BY <1>0, <1>10, <2>2 DEF DeleteReceipt, TypeOK
    <3> QED BY <1>0, <1>10, <3>1, StaysReceipted DEF DeleteReceipt
  <2> QED BY <2>1, <2>2
<1>11. ASSUME NEW r \in Runner, Resume(r) PROVE Receipted(i)'
  <2>1. cur[r] \in Image /\ r \in Agent
    BY <1>0, <1>11 DEF Resume, ClaimsRecorded, Working
  <2>2. CASE Exists(cur[r]) /\ ~ReceiptAlive(cur[r], rid[r])
    BY <1>5, <1>11, <2>2 DEF Resume
  <2>3. CASE ~(Exists(cur[r]) /\ ~ReceiptAlive(cur[r], rid[r]))
    BY <1>0, <1>11, <2>1, <2>3, MarkReceipted DEF Resume
  <2> QED BY <2>2, <2>3
<1>12. ASSUME NEW a \in Agent, MarkAnalyzed(a) \/ MarkLost(a) PROVE Receipted(i)'
  <2>1. cur[a] \in Image
    BY <1>0, <1>12 DEF MarkAnalyzed, MarkLost, Marks, ClaimsRecorded, Working
  <2> QED BY <1>0, <1>12, <2>1, MarkReceipted DEF MarkAnalyzed, MarkLost, Marks
<1>13. ASSUME NEW a \in Agent, LlmTerminal(a) \/ LlmFails(a) \/ MarkFailed(a)
       PROVE  Receipted(i)'
  <2>1. PICK s : s # "analyzed" /\ WriteStatus(cur[a], s)
    BY <1>13 DEF LlmTerminal, LlmFails, MarkFailed, Terminal
  <2> QED BY <1>0, <1>1, <1>13, <2>1, StaysReceipted DEF LlmTerminal, LlmFails, MarkFailed
\* The image of a claim is not analyzed.
<1>14. ASSUME NEW a \in Agent, Persist(a) PROVE Receipted(i)'
  <2>1. cur[a] \in Image /\ status[cur[a]] # "analyzed"
    BY <1>0, <1>14 DEF Persist, ClaimsRecorded, ClaimsHeld, Working
  <2>2. CASE i = cur[a]
    BY <1>14, <2>1, <2>2 DEF Persist, Receipted
  <2>3. CASE i # cur[a]
    <3>1. receipt'[i] = receipt[i] /\ serial'[i] = serial[i]
      BY <1>0, <1>14, <2>1, <2>3 DEF Persist, TypeOK
    <3> QED BY <1>0, <1>14, <3>1, StaysReceipted DEF Persist
  <2> QED BY <2>2, <2>3
<1>15. ASSUME NEW a \in Agent, PersistOrphan(a) \/ MarkOrphan(a) \/ WriteFault(a)
       PROVE  Receipted(i)'
  BY <1>5, <1>15 DEF PersistOrphan, MarkOrphan, WriteFault
<1>16. CASE Crash
  BY <1>0, <1>2, <1>16, StaysReceipted DEF Crash
<1>18. ASSUME NEW j \in Image, DeleteFault(j) PROVE Receipted(i)'
  BY <1>0, <1>2, <1>18, StaysReceipted DEF DeleteFault
<1>17. CASE \/ LoopWakes \/ Tick \/ UNCHANGED vars
            \/ \E j \in Image : DeleteImageCheck(j)
            \/ \E r \in Runner : \/ ManualTrigger(r) \/ BeginCycle(r) \/ SkipCycle(r)
                                 \/ Lookup(r) \/ EndCycle(r) \/ CycleFault(r)
  BY <1>5, <1>17 DEF LoopWakes, Tick, vars, DeleteImageCheck, ManualTrigger, BeginCycle,
                     SkipCycle, Lookup, EndCycle, CycleFault
<1> QED
  BY <1>0, <1>3, <1>6, <1>7, <1>8, <1>9, <1>10, <1>11, <1>12, <1>13, <1>14, <1>15, <1>16,
     <1>17, <1>18 DEF Next, Request, Cycle, Analysis

\* Every analyzed image has its receipt, but between the two deletes of a
\* deletion or after a failure between them (mark_analyzed, delete_receipt).
THEOREM AnalyzedIsReceipted == Spec => []AnalyzedHasReceipt
<1>1. AnalyzedHasReceipt <=> \A i \in Image : Receipted(i)
  BY DEF AnalyzedHasReceipt, Receipted
<1>2. Init => AnalyzedHasReceipt
  BY DEF Init, AnalyzedHasReceipt
<1>3. IInv /\ AnalyzedHasReceipt /\ [Next]_vars => AnalyzedHasReceipt'
  BY <1>1, ReceiptedStep DEF AnalyzedHasReceipt, Receipted
<1> QED
  BY <1>2, <1>3, Inductive, PTL DEF Spec
=============================================================================
