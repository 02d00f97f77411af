--------------------- MODULE ImageQueueLifecycle_proofs ---------------------
(***************************************************************************)
(* ImageQueue implements SubmissionLifecycle, for any constants.           *)
(***************************************************************************)
EXTENDS ImageQueueLifecycle, ImageQueue_proofs

USE LoopAssumption, NoImageAssumption DEF LoopAssumption, NoImageAssumption

PhaseMap == [i \in Image |-> PhaseOf(status[i])]

\* A claim is a pair of an image and the agent that holds it.
LEMMA ClaimsAreHeld ==
    ASSUME ClaimsRecorded, NEW i \in Image, NEW a \in Agent
    PROVE  <<i, a>> \in Claims <=> Holds(a, i)
BY DEF Claims, Holds

LEMMA ClaimsArePairs ==
    ASSUME ClaimsRecorded, NEW t \in Claims
    PROVE  \E i \in Image, a \in Agent : t = <<i, a>> /\ Holds(a, i)
BY DEF Claims, Holds, ClaimsRecorded

\* A holder's image is accepted or removed, unless its mark was not heard of.
LEMMA HeldPhase ==
    ASSUME IInv, NEW a \in Agent, pc[a] \in Working
    PROVE  /\ cur[a] \in Image
           /\ <<cur[a], a>> \in Claims
           /\ \/ status[cur[a]] \in {"processing", "deleted"}
              \/ status[cur[a]] = "analyzed" /\ pc[a] = "fail"
BY DEF IInv, ClaimsRecorded, ClaimsHeld, Claims

-----------------------------------------------------------------------------
(* What a step does to the mapped variables *)

\* Agents go on within their claims, or outside of any.
LEMMA ClaimsKept ==
    ASSUME UNCHANGED cur, \A a \in Agent : pc'[a] \in Working <=> pc[a] \in Working
    PROVE  UNCHANGED Claims
BY DEF Claims

\* An agent that had no claim still has none, and the others theirs.
LEMMA IdleLeaves ==
    ASSUME IInv, NEW a \in Agent, pc[a] \notin Working, NEW p \in Place \ Working,
           Leave(a, p)
    PROVE  UNCHANGED Claims
<1>1. /\ pc'[a] \notin Working
      /\ \A b \in Agent : b # a => pc'[b] = pc[b] /\ cur'[b] = cur[b]
  BY DEF Leave, IInv, TypeOK
<1> QED BY <1>1 DEF Claims

LEMMA ClaimEnds ==
    ASSUME IInv, NEW a \in Agent, pc[a] \in Working, NEW p \in Place \ Working,
           Leave(a, p)
    PROVE  Claims' = Claims \ {<<cur[a], a>>}
<1>1. /\ pc'[a] \notin Working
      /\ \A b \in Agent : b # a => pc'[b] = pc[b] /\ cur'[b] = cur[b]
  BY DEF Leave, IInv, TypeOK
<1> QED BY <1>1 DEF Claims

LEMMA ClaimDone ==
    ASSUME IInv, NEW a \in Agent, pc[a] \in Working, Done(a)
    PROVE  Claims' = Claims \ {<<cur[a], a>>}
<1>1. PICK p \in Place \ Working : Leave(a, p)
  BY DEF Done, Place, Working
<1> QED BY <1>1, ClaimEnds

\* An exception takes a cycle to mark_failed, and ends an upload request.
LEMMA ClaimRaises ==
    ASSUME IInv, NEW a \in Agent, pc[a] \in Working, Raises(a)
    PROVE  UNCHANGED Claims \/ Claims' = Claims \ {<<cur[a], a>>}
<1>1. CASE a \in Runner
  <2>1. /\ pc'[a] \in Working /\ UNCHANGED cur
        /\ \A b \in Agent : b # a => pc'[b] = pc[b]
    BY <1>1 DEF Raises, Working, IInv, TypeOK
  <2> QED BY <2>1, ClaimsKept
<1>2. CASE a \notin Runner
  <2>1. "idle" \in Place \ Working
    BY DEF Place, Working
  <2> QED BY <1>2, <2>1, ClaimEnds DEF Raises
<1> QED BY <1>1, <1>2

-----------------------------------------------------------------------------
(* The steps *)

LStep == [Lifecycle!Next]_(Lifecycle!lifecycle)

LEMMA StutterStep ==
    ASSUME UNCHANGED PhaseMap, UNCHANGED Claims
    PROVE  LStep
BY DEF LStep, Lifecycle!lifecycle, PhaseMap

LEMMA GiveUpStep ==
    ASSUME NEW t \in Claims, UNCHANGED PhaseMap, Claims' = Claims \ {t}
    PROVE  LStep
<1>1. Lifecycle!GiveUp(t)
  BY DEF Lifecycle!GiveUp, PhaseMap
<1> QED BY <1>1 DEF LStep, Lifecycle!Next

\* The row of image i is written.
LEMMA PhaseWritten ==
    ASSUME TypeOK, NEW i \in Image, NEW s, status' = [status EXCEPT ![i] = s]
    PROVE  PhaseMap' = [PhaseMap EXCEPT ![i] = PhaseOf(s)]
BY DEF PhaseMap, TypeOK

\* A row that is gone is not written, and "failed" is what the client saw.
LEMMA PhaseKept ==
    ASSUME IInv, NEW i \in Image, NEW s, WriteStatus(i, s),
           \/ status[i] = "deleted"
           \/ s = "failed" /\ status[i] = "processing"
    PROVE  UNCHANGED PhaseMap
<1>1. CASE status[i] = "deleted"
  BY <1>1 DEF WriteStatus, Exists, Absent, PhaseMap
<1>2. CASE s = "failed" /\ status[i] = "processing"
  <2>1. \A j \in Image : PhaseOf(status'[j]) = PhaseOf(status[j])
    BY <1>2 DEF WriteStatus, PhaseOf, Queued, IInv, TypeOK
  <2> QED BY <2>1 DEF PhaseMap
<1> QED BY <1>1, <1>2

\* A worker's word settles a submission.
LEMMA PhaseSettled ==
    ASSUME IInv, NEW i \in Image, NEW s \in Lifecycle!Outcome, WriteStatus(i, s),
           status[i] = "processing"
    PROVE  PhaseMap[i] = "accepted" /\ PhaseMap' = [PhaseMap EXCEPT ![i] = s]
<1>1. status' = [status EXCEPT ![i] = s]
  BY DEF WriteStatus, Exists, Absent
<1>2. PhaseOf(s) = s /\ PhaseOf(status[i]) = "accepted"
  BY DEF PhaseOf, Queued, Lifecycle!Outcome
<1> QED BY <1>1, <1>2, PhaseWritten DEF IInv, PhaseMap

\* A write of the holder, to an outcome or back to the queue.
LEMMA WriteStep ==
    ASSUME IInv, NEW a \in Agent, pc[a] \in Working, Done(a),
           NEW s \in Lifecycle!Outcome \cup {"failed"}, WriteStatus(cur[a], s),
           pc[a] = "fail" => s = "failed"
    PROVE  LStep
<1> DEFINE i == cur[a]
           t == <<cur[a], a>>
<1>1. /\ i \in Image /\ t \in Claims /\ t[1] = i
      /\ \/ status[i] \in {"processing", "deleted"}
         \/ status[i] = "analyzed" /\ pc[a] = "fail"
      /\ WriteStatus(i, s)
  BY HeldPhase
<1>2. Claims' = Claims \ {t}
  BY ClaimDone
<1> HIDE DEF i, t
<1>3. CASE status[i] = "deleted" \/ (s = "failed" /\ status[i] = "processing")
  BY <1>1, <1>2, <1>3, PhaseKept, GiveUpStep
<1>4. CASE status[i] = "processing" /\ s \in Lifecycle!Outcome
  <2>1. Lifecycle!Settle(t, s)
    BY <1>1, <1>2, <1>4, PhaseSettled DEF Lifecycle!Settle, PhaseMap
  <2> QED BY <1>1, <1>4, <2>1 DEF LStep, Lifecycle!Next
<1>5. CASE status[i] = "analyzed" /\ s = "failed"
  <2>1. status' = [status EXCEPT ![i] = "failed"]
    BY <1>1, <1>5 DEF WriteStatus, Exists, Absent
  <2>2. PhaseMap' = [PhaseMap EXCEPT ![i] = "accepted"] /\ PhaseMap[i] = "analyzed"
    BY <1>1, <1>5, <2>1, PhaseWritten DEF PhaseMap, PhaseOf, Queued, IInv
  <2>3. Lifecycle!TakeBack(t)
    BY <1>1, <1>2, <2>2 DEF Lifecycle!TakeBack, PhaseMap
  <2> QED BY <1>1, <2>3 DEF LStep, Lifecycle!Next
<1> QED BY <1>1, <1>3, <1>4, <1>5

\* The mark is committed and its answer lost.
LEMMA LostStep ==
    ASSUME IInv, NEW a \in Agent, MarkLost(a)
    PROVE  LStep
<1> DEFINE i == cur[a]
           t == <<cur[a], a>>
<1>1. /\ i \in Image /\ t \in Claims /\ t[1] = i
      /\ status[i] \in {"processing", "deleted"}
      /\ WriteStatus(i, "analyzed")
  BY HeldPhase DEF MarkLost, Marks, Working
<1>2. UNCHANGED Claims \/ Claims' = Claims \ {t}
  BY ClaimRaises DEF MarkLost, Marks, Working
<1> HIDE DEF i, t
<1>3. CASE status[i] = "deleted"
  BY <1>1, <1>2, <1>3, PhaseKept, GiveUpStep, StutterStep
<1>4. CASE status[i] = "processing"
  <2>1. "analyzed" \in Lifecycle!Outcome
    BY DEF Lifecycle!Outcome
  <2>2. PhaseMap[i] = "accepted" /\ PhaseMap' = [PhaseMap EXCEPT ![i] = "analyzed"]
    BY <1>1, <1>4, <2>1, PhaseSettled
  <2>3. Lifecycle!SettleUnheard(t) \/ Lifecycle!Settle(t, "analyzed")
    BY <1>1, <1>2, <2>2 DEF Lifecycle!SettleUnheard, Lifecycle!Settle, PhaseMap
  <2> QED BY <1>1, <2>1, <2>3 DEF LStep, Lifecycle!Next
<1> QED BY <1>1, <1>3, <1>4

LEMMA TakeStep ==
    ASSUME IInv, NEW a \in Agent, NEW i \in Image, pc[a] \notin Working,
           Claimable(i), NEW p \in Working, TakeClaim(a, i, p)
    PROVE  LStep
<1> USE DEF IInv
<1>1. ASSUME NEW t \in Claims PROVE t[1] # i /\ t[2] # a
  <2>1. PICK j \in Image, b \in Agent : t = <<j, b>> /\ Holds(b, j)
    BY ClaimsArePairs
  <2> QED BY <2>1, ClaimableIsFree DEF Holds
<1>2. Claims' = Claims \cup {<<i, a>>}
  <2>1. /\ pc'[a] \in Working /\ cur'[a] = i
        /\ \A b \in Agent : b # a => pc'[b] = pc[b] /\ cur'[b] = cur[b]
    BY DEF TakeClaim, TypeOK
  <2> QED BY <2>1 DEF Claims
<1>3. UNCHANGED PhaseMap /\ PhaseMap[i] = "accepted"
  <2>1. ASSUME NEW j \in Image PROVE PhaseOf(status'[j]) = PhaseOf(status[j])
    BY DEF TakeClaim, TypeOK, PhaseOf, Claimable, Queued
  <2> QED BY <2>1 DEF PhaseMap, PhaseOf, Claimable, Queued
<1>4. Lifecycle!Take(i, a)
  BY <1>1, <1>2, <1>3 DEF Lifecycle!Take, PhaseMap
<1> QED BY <1>4 DEF LStep, Lifecycle!Next

\* A first row appears, or a row is dropped.
LEMMA RowStep ==
    ASSUME IInv, NEW i \in Image, UNCHANGED Claims,
           NEW s, status' = [status EXCEPT ![i] = s],
           \/ status[i] = "unborn" /\ s = "pending"
           \/ status[i] # "unborn" /\ s = "deleted"
    PROVE  LStep
<1>1. PhaseMap' = [PhaseMap EXCEPT ![i] = PhaseOf(s)]
  BY PhaseWritten DEF IInv
<1>2. CASE status[i] = "unborn" /\ s = "pending"
  <2>1. PhaseMap[i] = "absent" /\ PhaseOf(s) = "accepted"
    BY <1>2 DEF PhaseMap, PhaseOf, Queued
  <2>2. Lifecycle!Accept(i)
    BY <1>1, <2>1 DEF Lifecycle!Accept, PhaseMap
  <2> QED BY <2>2 DEF LStep, Lifecycle!Next
<1>3. CASE status[i] # "unborn" /\ s = "deleted"
  <2>1. PhaseMap[i] # "absent" /\ PhaseOf(s) = "removed"
    BY <1>3 DEF PhaseMap, PhaseOf, Queued, IInv, TypeOK, Status, Absent, Terminal
  <2>2. Lifecycle!Remove(i)
    BY <1>1, <2>1 DEF Lifecycle!Remove, PhaseMap
  <2> QED BY <2>2 DEF LStep, Lifecycle!Next
<1> QED BY <1>2, <1>3

LEMMA RefineInit == Init => Lifecycle!Init
<1> SUFFICES ASSUME Init PROVE Lifecycle!Init
  OBVIOUS
<1>1. Claims = {}
  BY DEF Init, Claims, Working
<1>2. ASSUME NEW i \in Image PROVE PhaseOf(status[i]) = "absent"
  BY DEF Init, PhaseOf, Queued
<1> QED
  BY <1>1, <1>2 DEF Lifecycle!Init

LEMMA RefineStep ==
    ASSUME IInv, [Next]_vars
    PROVE  LStep
<1> USE DEF imageVars, receiptVars, agentVars
<1>0. /\ Image \subseteq Agent /\ Runner \subseteq Agent
      /\ {"idle", "scan"} \subseteq Place \ Working
      /\ {"failed", "analyzed"} \cup Terminal \subseteq Lifecycle!Outcome \cup {"failed"}
  BY DEF Agent, Place, Working, Lifecycle!Outcome, Terminal
<1>1. ASSUME NEW i \in Image, Upload(i) PROVE LStep
  <2>1. \A a \in Agent : pc'[a] \in Working <=> pc[a] \in Working
    BY <1>0, <1>1 DEF Upload, IInv, TypeOK, ClaimsHeld, Working
  <2> QED BY <1>1, <2>1, ClaimsKept, RowStep DEF Upload
<1>2. ASSUME NEW i \in Image, DeleteImageRow(i) \/ DeleteReceiptImage(i) PROVE LStep
  <2>1. UNCHANGED Claims
    BY <1>2, ClaimsKept DEF DeleteImageRow, DeleteReceiptImage
  <2>2. status[i] # "unborn" /\ status' = [status EXCEPT ![i] = "deleted"]
    BY <1>2 DEF DeleteImageRow, DeleteReceiptImage, DropRow, IInv, RequestsHaveRows
  <2> QED BY <2>1, <2>2, RowStep
<1>3. ASSUME NEW i \in Image, UploadClaim(i) PROVE LStep
  <2>1. CASE Claimable(i)
    BY <1>0, <1>3, <2>1, TakeStep DEF UploadClaim, Working
  <2>2. CASE ~Claimable(i)
    <3>1. Leave(i, "idle") /\ UNCHANGED status /\ pc[i] \notin Working
      BY <1>3, <2>2 DEF UploadClaim, Working
    <3> QED BY <1>0, <3>1, IdleLeaves, StutterStep DEF PhaseMap
  <2> QED BY <2>1, <2>2
<1>4. ASSUME NEW r \in Runner, NEW i \in Image, RunnerClaim(r, i) PROVE LStep
  <2>1. CASE Claimable(i)
    BY <1>0, <1>4, <2>1, TakeStep DEF RunnerClaim, Working
  <2>2. CASE ~Claimable(i)
    BY <1>4, <2>2, StutterStep DEF RunnerClaim, Claims, PhaseMap
  <2> QED BY <2>1, <2>2
<1>5. ASSUME NEW r \in Runner, Resume(r) PROVE LStep
  <2>1. pc[r] \in Working /\ pc[r] # "fail"
    BY <1>5 DEF Resume, Working
  <2>2. CASE Exists(cur[r]) /\ ~ReceiptAlive(cur[r], rid[r])
    <3>1. Leave(r, "idle") /\ UNCHANGED PhaseMap
      BY <1>5, <2>2 DEF Resume, Abort, PhaseMap
    <3> QED BY <1>0, <2>1, <3>1, ClaimEnds, HeldPhase, GiveUpStep
  <2>3. CASE ~(Exists(cur[r]) /\ ~ReceiptAlive(cur[r], rid[r]))
    BY <1>0, <1>5, <2>1, <2>3, WriteStep DEF Resume
  <2> QED BY <2>2, <2>3
<1>6. ASSUME NEW a \in Agent, LlmTerminal(a) \/ LlmFails(a) \/ MarkAnalyzed(a)
      PROVE  LStep
  <2>1. /\ pc[a] \in Working /\ pc[a] # "fail" /\ Done(a)
        /\ \E s \in Lifecycle!Outcome \cup {"failed"} : WriteStatus(cur[a], s)
    BY <1>0, <1>6 DEF LlmTerminal, LlmFails, MarkAnalyzed, Marks, Working
  <2> QED BY <2>1, WriteStep
<1>11. ASSUME NEW r \in Runner, MarkFailed(r) PROVE LStep
  BY <1>0, <1>11, WriteStep DEF MarkFailed, Working
<1>7. ASSUME NEW a \in Agent, PersistOrphan(a) \/ MarkOrphan(a) \/ WriteFault(a)
      PROVE  LStep
  <2>1. pc[a] \in Working /\ Raises(a) /\ UNCHANGED PhaseMap
    BY <1>7 DEF PersistOrphan, MarkOrphan, WriteFault, Working, PhaseMap
  <2> QED BY <2>1, ClaimRaises, HeldPhase, GiveUpStep, StutterStep
<1>12. ASSUME NEW a \in Agent, MarkLost(a) PROVE LStep
  BY <1>12, LostStep
<1>8. ASSUME NEW r \in Runner, CycleFault(r) PROVE LStep
  <2>1. Leave(r, "idle") /\ UNCHANGED PhaseMap
    BY <1>8 DEF CycleFault, Abort, PhaseMap
  <2>2. CASE pc[r] \in Working
    BY <1>0, <2>1, <2>2, ClaimEnds, HeldPhase, GiveUpStep
  <2>3. CASE pc[r] \notin Working
    BY <1>0, <2>1, <2>3, IdleLeaves, StutterStep
  <2> QED BY <2>2, <2>3
<1>9. CASE Crash
  <2>1. Claims' = {} /\ UNCHANGED PhaseMap
    BY <1>9 DEF Crash, Claims, Working, PhaseMap
  <2>2. Lifecycle!Restart
    BY <2>1 DEF Lifecycle!Restart, PhaseMap
  <2> QED BY <2>2 DEF LStep, Lifecycle!Next
<1>10. CASE \/ LoopWakes \/ Tick \/ UNCHANGED vars
            \/ \E i \in Image : \/ DeleteImageCheck(i) \/ Verify(i) \/ DeleteReceipt(i)
                                \/ DeleteFault(i)
            \/ \E r \in Runner : \/ ManualTrigger(r) \/ BeginCycle(r) \/ SkipCycle(r)
                                 \/ Lookup(r) \/ EndCycle(r)
            \/ \E a \in Agent : Persist(a)
  <2>1. UNCHANGED <<status, cur>>
    BY <1>10 DEF LoopWakes, Tick, vars, DeleteImageCheck, Verify, DeleteReceipt,
         DeleteFault, ManualTrigger, BeginCycle, SkipCycle, Lookup, EndCycle, Persist
  <2>2. \A a \in Agent : pc'[a] \in Working <=> pc[a] \in Working
    <3>1. CASE \E r \in Runner : Lookup(r)
      BY <1>0, <3>1 DEF Lookup, Working, IInv, TypeOK
    <3>2. CASE \E a \in Agent : Persist(a)
      BY <3>2 DEF Persist, Working, IInv, TypeOK
    <3>3. CASE LoopWakes \/ \E r \in Runner : \/ ManualTrigger(r) \/ BeginCycle(r)
                                              \/ SkipCycle(r) \/ EndCycle(r)
      BY <1>0, <3>3 DEF LoopWakes, ManualTrigger, BeginCycle, SkipCycle, EndCycle,
         Working, IInv, TypeOK
    <3>4. CASE \/ Tick \/ UNCHANGED vars
               \/ \E i \in Image : \/ DeleteImageCheck(i) \/ Verify(i)
                                   \/ DeleteReceipt(i) \/ DeleteFault(i)
      BY <3>4 DEF Tick, vars, DeleteImageCheck, Verify, DeleteReceipt, DeleteFault
    <3> QED BY <1>10, <3>1, <3>2, <3>3, <3>4
  <2> QED BY <2>1, <2>2, ClaimsKept, StutterStep DEF PhaseMap
<1> QED
  BY <1>0, <1>1, <1>2, <1>3, <1>4, <1>5, <1>6, <1>7, <1>8, <1>9, <1>10, <1>11, <1>12
     DEF Next, Request, Cycle, Analysis

\* The queue keeps what it promises a polling client, whatever the number of
\* images, runners, faults and restarts.
THEOREM Refinement == Spec => ImplementsLifecycle
<1>1. IInv /\ [Next]_vars => [Lifecycle!Next]_(Lifecycle!lifecycle)
  BY RefineStep DEF LStep
<1> QED
  BY <1>1, RefineInit, Inductive, PTL DEF Spec, ImplementsLifecycle, Lifecycle!Spec
=============================================================================
