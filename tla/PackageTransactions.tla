------------------------ MODULE PackageTransactions ------------------------
(***************************************************************************)
(* What the Software Center promises about host package transactions: one  *)
(* at a time, each job run once, none begun while an abandoned one is      *)
(* still recorded as running, and none taken up again but to be rolled     *)
(* back after an interruption.                                             *)
(***************************************************************************)
CONSTANTS Jobs, NoJob

VARIABLES
    holder,  \* the job whose transaction is changing the host, or NoJob
    status   \* what is recorded of each job

Outcomes == {"succeeded", "failed", "cancelled", "rolled_back"}

Init ==
    /\ holder = NoJob
    /\ status = [j \in Jobs |-> "new"]

\* A transaction starts when no job is recorded as running.
Begin(j) ==
    /\ holder = NoJob
    /\ status[j] = "new"
    /\ \A k \in Jobs : status[k] # "running"
    /\ holder' = j
    /\ status' = [status EXCEPT ![j] = "running"]

\* A job that was interrupted is taken up again to be rolled back.  A rollback
\* that waited for another one of the same job finds it rolled back, or failed.
Reopen(j) ==
    /\ holder = NoJob
    /\ status[j] \in {"interrupted", "rolled_back", "failed"}
    /\ \A k \in Jobs : status[k] # "running"
    /\ holder' = j
    /\ status' = [status EXCEPT ![j] = "running"]

\* The outcome is recorded by the step that ends it.
Finish(j, o) ==
    /\ holder = j
    /\ holder' = NoJob
    /\ status' = [status EXCEPT ![j] = o]

\* The process running it dies.
Die == holder # NoJob /\ holder' = NoJob /\ UNCHANGED status

\* Jobs nobody runs any more are recorded as interrupted, all at once.
Reconcile(S) ==
    /\ holder = NoJob
    /\ \A j \in S : status[j] \in {"new", "running"}
    /\ \A j \in Jobs \ S : status[j] # "running"
    /\ status' = [j \in Jobs |-> IF j \in S THEN "interrupted" ELSE status[j]]
    /\ UNCHANGED holder

Next ==
    \/ \E j \in Jobs : Begin(j) \/ Reopen(j) \/ \E o \in Outcomes : Finish(j, o)
    \/ Die
    \/ \E S \in SUBSET Jobs : Reconcile(S)

Spec == Init /\ [][Next]_<<holder, status>>
=============================================================================
