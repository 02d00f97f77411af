------------------------ MODULE ImageQueueLifecycle ------------------------
(***************************************************************************)
(* ImageQueue implements SubmissionLifecycle: the client sees the queue's  *)
(* statuses pending, processing and failed as one phase, and the attempts  *)
(* are the claims that agents hold.                                        *)
(***************************************************************************)
EXTENDS ImageQueue

PhaseOf(s) ==
    CASE s = "unborn"  -> "absent"
      [] s = "deleted" -> "removed"
      [] s \in Queued \cup {"processing"} -> "accepted"
      [] OTHER -> s

Claims == {<<cur[a], a>> : a \in {b \in Agent : pc[b] \in Working}}

Lifecycle == INSTANCE SubmissionLifecycle WITH
    Submission <- Image,
    Worker     <- Agent,
    phase      <- [i \in Image |-> PhaseOf(status[i])],
    attempts   <- Claims

\* Every behaviour of the queue is a behaviour of the lifecycle: the leases,
\* retries, faults and restarts stay behind what a polling client sees
\* (status of GET /images/{id}).
ImplementsLifecycle == Lifecycle!Spec
=============================================================================
