------------------------- MODULE SubmissionLifecycle -------------------------
(***************************************************************************)
(* What the analysis queue promises the client that polls a submission:    *)
(* once accepted it is worked on by one worker at a time, an attempt that  *)
(* gives up leaves it accepted, and it is settled by the worker that has   *)
(* it, with an outcome that stands until it is removed.  Only a worker     *)
(* that has not heard that the submission is analyzed may take that back.  *)
(***************************************************************************)
CONSTANTS Submission, Worker

Outcome == {"analyzed", "timed_out", "unreadable"}
Phase   == {"absent", "accepted", "removed"} \cup Outcome

VARIABLES
    phase,   \* what the client is told of each submission
    attempts \* who analyses what: pairs of a submission and a worker

lifecycle == <<phase, attempts>>

Init ==
    /\ phase = [s \in Submission |-> "absent"]
    /\ attempts = {}

Accept(s) ==
    /\ phase[s] = "absent"
    /\ phase' = [phase EXCEPT ![s] = "accepted"]
    /\ UNCHANGED attempts

\* A submission has one worker at a time, and a worker one submission.
Take(s, w) ==
    /\ phase[s] = "accepted"
    /\ \A t \in attempts : t[1] # s /\ t[2] # w
    /\ attempts' = attempts \cup {<<s, w>>}
    /\ UNCHANGED phase

GiveUp(t) ==
    /\ attempts' = attempts \ {t}
    /\ UNCHANGED phase

Settle(t, outcome) ==
    /\ phase[t[1]] = "accepted"
    /\ attempts' = attempts \ {t}
    /\ phase' = [phase EXCEPT ![t[1]] = outcome]

\* The worker's word arrives, and the worker does not learn of it: it has the
\* submission until it takes the outcome back or gives up.
SettleUnheard(t) ==
    /\ phase[t[1]] = "accepted"
    /\ UNCHANGED attempts
    /\ phase' = [phase EXCEPT ![t[1]] = "analyzed"]

TakeBack(t) ==
    /\ phase[t[1]] = "analyzed"
    /\ attempts' = attempts \ {t}
    /\ phase' = [phase EXCEPT ![t[1]] = "accepted"]

\* Removal does not stop a worker.
Remove(s) ==
    /\ phase[s] # "absent"
    /\ phase' = [phase EXCEPT ![s] = "removed"]
    /\ UNCHANGED attempts

\* The process restarts: every attempt is given up.
Restart ==
    /\ attempts' = {}
    /\ UNCHANGED phase

Next ==
    \/ \E s \in Submission : Accept(s) \/ Remove(s) \/ \E w \in Worker : Take(s, w)
    \/ \E t \in attempts :
          \/ GiveUp(t)
          \/ \E o \in Outcome : Settle(t, o)
          \/ SettleUnheard(t)
          \/ TakeBack(t)
    \/ Restart

Spec == Init /\ [][Next]_lifecycle
=============================================================================
