---------------------------- MODULE JobSupervisor ----------------------------
(***************************************************************************)
(* The background job supervisor: periodic tasks that loop over            *)
(*     select! { shutdown.notified() => break, interval.tick() => work }   *)
(* and SupervisorHandle::join, which calls notify_waiters once and awaits  *)
(* every task.  tokio's notify_waiters wakes the Notified futures that     *)
(* exist at that moment and stores no permit for later ones.               *)
(***************************************************************************)
CONSTANT Tasks

VARIABLES
    task,    \* where each task stands
    woken,   \* tasks whose current Notified future has been signalled
    handle   \* the SupervisorHandle: running, joining, joined

vars == <<task, woken, handle>>

TaskStates == {"spawned", "select", "tick", "exited"}

Init ==
    /\ task = [t \in Tasks |-> "spawned"]
    /\ woken = {}
    /\ handle = "running"

\* The loop head creates and polls a new Notified future and the interval.
Poll(t) ==
    /\ task[t] = "spawned"
    /\ task' = [task EXCEPT ![t] = "select"]
    /\ UNCHANGED <<woken, handle>>

\* The interval is due: its branch runs and the Notified future is dropped,
\* signalled or not (select! picks among the ready branches at random).
Tick(t) ==
    /\ task[t] = "select"
    /\ task' = [task EXCEPT ![t] = "tick"]
    /\ woken' = woken \ {t}
    /\ UNCHANGED handle

\* The work ends, well or with a logged error, and the loop starts again.
EndTick(t) ==
    /\ task[t] = "tick"
    /\ task' = [task EXCEPT ![t] = "select"]
    /\ UNCHANGED <<woken, handle>>

Break(t) ==
    /\ task[t] = "select"
    /\ t \in woken
    /\ task' = [task EXCEPT ![t] = "exited"]
    /\ UNCHANGED <<woken, handle>>

\* join(): notify_waiters, then await the handles.
Signal ==
    /\ handle = "running"
    /\ handle' = "joining"
    /\ woken' = {t \in Tasks : task[t] = "select"}
    /\ UNCHANGED task

Joined ==
    /\ handle = "joining"
    /\ \A t \in Tasks : task[t] = "exited"
    /\ handle' = "joined"
    /\ UNCHANGED <<task, woken>>

Next ==
    \/ \E t \in Tasks : Poll(t) \/ Tick(t) \/ EndTick(t) \/ Break(t)
    \/ Signal \/ Joined

Spec == Init /\ [][Next]_vars

\* The runtime polls every task; select!'s random choice takes the break
\* branch sooner or later if it stays ready.
FairSpec ==
    /\ Spec
    /\ \A t \in Tasks : /\ WF_vars(Poll(t)) /\ WF_vars(EndTick(t))
                        /\ SF_vars(Break(t))
    /\ WF_vars(Joined)

-----------------------------------------------------------------------------
\* A task is spawned, waiting, working or gone, and join is called once.
TypeOK ==
    /\ task \in [Tasks -> TaskStates]
    /\ woken \subseteq Tasks
    /\ handle \in {"running", "joining", "joined"}

\* join: "Signal all tasks to stop and wait for them to finish."  A join that
\* was called ends.
JoinReturns == (handle = "joining") ~> (handle = "joined")
=============================================================================
