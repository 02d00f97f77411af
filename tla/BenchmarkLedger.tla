--------------------------- MODULE BenchmarkLedger ---------------------------
(***************************************************************************)
(* What the benchmark queue promises the page that polls a run: its tasks  *)
(* are due all at once, for receipts that are there and stay while a task  *)
(* of theirs is due; each is closed once, and counted once if the run has  *)
(* been announced; and closing the last one due completes the run.         *)
(***************************************************************************)
EXTENDS Naturals

CONSTANTS Run, Model, Receipt

Task == Run \X Model \X Receipt

VARIABLES
    due,        \* the tasks that are left of each run
    closed,     \* those that had their score or final failure
    announced,  \* runs whose progress is shown
    counted,    \* the progress shown, of each run and model
    complete,   \* runs reported completed
    stock       \* receipts that are there

ledger == <<due, closed, announced, counted, complete, stock>>

Init ==
    /\ due = {}
    /\ closed = {}
    /\ announced = {}
    /\ counted = [rm \in Run \X Model |-> 0]
    /\ complete = {}
    /\ stock = Receipt

Open(r) ==
    /\ \A t \in due \cup closed : t[1] # r
    /\ \E xs \in (SUBSET stock) \ {{}} : due' = due \cup ({r} \X Model \X xs)
    /\ UNCHANGED <<closed, announced, counted, complete, stock>>

Announce(r) ==
    /\ r \notin announced
    /\ announced' = announced \cup {r}
    /\ UNCHANGED <<due, closed, counted, complete, stock>>

Close(t) ==
    /\ t \in due
    /\ due' = due \ {t}
    /\ closed' = closed \cup {t}
    /\ IF t[1] \in announced
         THEN counted' = [counted EXCEPT ![<<t[1], t[2]>>] = @ + 1]
         ELSE UNCHANGED counted
    /\ IF \A u \in due' : u[1] # t[1]
         THEN complete' = complete \cup {t[1]}
         ELSE UNCHANGED complete
    /\ UNCHANGED <<announced, stock>>

Withdraw(x) ==
    /\ x \in stock
    /\ \A t \in due : t[3] # x
    /\ stock' = stock \ {x}
    /\ UNCHANGED <<due, closed, announced, counted, complete>>

Next ==
    \/ \E r \in Run : Open(r) \/ Announce(r)
    \/ \E t \in Task : Close(t)
    \/ \E x \in Receipt : Withdraw(x)

Spec == Init /\ [][Next]_ledger

-----------------------------------------------------------------------------
\* No task is closed that is due, no receipt missed that is needed, and the
\* runs reported completed are those that had tasks and have none left
\* (finish_task: the run without tasks is completed).
BooksBalance ==
    /\ due \cap closed = {}
    /\ \A t \in due : t[3] \in stock
    /\ \A r \in Run :
          r \in complete <=> (\E t \in closed : t[1] = r) /\ (\A t \in due : t[1] # r)
=============================================================================
