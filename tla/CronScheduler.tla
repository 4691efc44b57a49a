---------------------------- MODULE CronScheduler ----------------------------
(***************************************************************************)
(* Scheduled jobs: the rows of cron_jobs and cron_runs, the background     *)
(* task that ticks over them, and the API, web and CLI calls that create,  *)
(* change, delete and run jobs meanwhile.  Every step ends at an await of  *)
(* the database or of the job's own work.                                  *)
(*                                                                         *)
(* Time is abstract: clock counts the occurrences of a job's schedule that *)
(* have passed, next_run_at is the number of the occurrence it waits for,  *)
(* a lease is "held" until it is "expired".  A job's payload is its enabled *)
(* flag, its next_run_at and a plan, which stands for name, schedule, kind *)
(* and timeout; the schedules a job is given count the same occurrences.   *)
(* Job and run ids are never used twice.                                   *)
(***************************************************************************)
EXTENDS Naturals, Sequences

CONSTANTS
    Jobs,         \* ids of jobs
    Requests,     \* calls of the service, each made once
    Ops,          \* operations in use
    Plans,        \* payloads a job can be given
    Slow,         \* plans whose work can outlast the 30 second lease
    MaxOccurrences,  \* bound on the occurrences of one job's schedule
    MaxFailures,  \* bound on operations that end early
    Scheduler,    \* the cron-scheduler task
    Absent, Deleted, NoJob, NoRun

AllOps == {"create", "update", "enable", "disable", "delete", "run"}

ASSUME CronAssumption ==
    /\ Ops \subseteq AllOps
    /\ Slow \subseteq Plans
    /\ Scheduler \notin Requests
    /\ MaxOccurrences \in Nat /\ MaxFailures \in Nat

Actors == Requests \cup {Scheduler}
Rows == [enabled : BOOLEAN, plan : Plans, next : Nat]
ActiveStates == {"running"}
FinalStates == {"ended", "skipped", "interrupted"}  \* ended: succeeded, failed, timed out
Records == [job : Jobs, state : ActiveStates \cup FinalStates, lease : {"held", "expired"}]
Calls == [op : AllOps, job : Jobs]
Executions == [id : Nat, state : ActiveStates \cup FinalStates]

ASSUME CronNulls ==
    /\ Absent \notin Rows /\ Deleted \notin Rows /\ Absent # Deleted
    /\ NoJob \notin Calls \cup Rows
    /\ NoRun \notin Records \cup Executions

VARIABLES
    rows,    \* cron_jobs, by job id
    runs,    \* cron_runs, by run id, in the order of insertion
    pc,      \* where each actor stands
    call,    \* the operation of an actor; the scheduler's run_now of one job
    copy,    \* the CronJob an actor has read, as it will save or run it
    mine,    \* the JobRun an actor executes: its id and the state to record
    seen,    \* tick: expired runs still to be interrupted
    due,     \* tick: due jobs still to be run, as they were read
    now,     \* tick: the clock when it began
    clock,   \* per job, the occurrences that have passed
    fired,   \* history: runs the tick began for a job
    served,  \* history: the last occurrence the tick advanced a job past
    restored,  \* history: occurrences a late save brought back after that
    failures

tickVars == <<seen, due, now>>
history == <<fired, served, restored>>
vars == <<rows, runs, pc, call, copy, mine, tickVars, clock, history, failures>>

RunIds == DOMAIN runs
Stored(j) == rows[j] \notin {Absent, Deleted}
Known(r) == runs[r] # NoRun
IsActive(r) == Known(r) /\ runs[r].state \in ActiveStates
Executing(a) == pc[a] \in {"exec", "record"}

Zero == [j \in Jobs |-> 0]

\* CronJob::new at clock t
NewRow(plan, t) == [enabled |-> TRUE, plan |-> plan, next |-> t + 1]

Init ==
    /\ rows \in [Jobs -> {Absent} \cup {NewRow(p, 0) : p \in Plans}]
    /\ runs = <<>>
    /\ pc = [a \in Actors |-> "idle"]
    /\ call \in [Actors -> {NoJob}]
    /\ copy = [a \in Actors |-> NoJob]
    /\ mine = [a \in Actors |-> NoRun]
    /\ seen = {} /\ due = <<>> /\ now = Zero
    /\ clock = Zero
    /\ fired = Zero /\ served = Zero /\ restored = Zero
    /\ failures = 0

-----------------------------------------------------------------------------
(* Moving an actor.  What a call has read is dropped when it returns; the  *)
(* scheduler goes on with the next due job after a run, and gives the tick *)
(* up after an error.                                                      *)

Goto(a, l) == pc' = [pc EXCEPT ![a] = l]

Forget(a) ==
    /\ call' = [call EXCEPT ![a] = NoJob]
    /\ copy' = [copy EXCEPT ![a] = NoJob]
    /\ mine' = [mine EXCEPT ![a] = NoRun]

Return(a) ==
    /\ Goto(a, IF a = Scheduler THEN "each" ELSE "done")
    /\ Forget(a)
    /\ UNCHANGED tickVars

TickEnds == seen' = {} /\ due' = <<>> /\ now' = Zero

\* Mutant: an error of the tick ends the task's loop.
AbortForGood(a) ==
    /\ Goto(a, "done")
    /\ Forget(a)
    /\ IF a = Scheduler THEN TickEnds ELSE UNCHANGED tickVars

Abort(a) ==
    /\ Goto(a, IF a = Scheduler THEN "idle" ELSE "done")
    /\ Forget(a)
    /\ IF a = Scheduler THEN TickEnds ELSE UNCHANGED tickVars

\* UPDATE cron_jobs SET payload = ? WHERE id = ?: the whole payload, and
\* nothing when the job is gone.
Save(j, row) == rows' = [rows EXCEPT ![j] = IF Stored(j) THEN row ELSE @]

\* UPDATE cron_runs SET payload = ?, active = ? WHERE id = ?
UpdateRun(r, state) ==
    runs' = [runs EXCEPT ![r] = IF Known(r) THEN [@ EXCEPT !.state = state] ELSE @]

-----------------------------------------------------------------------------
(* Calls that change jobs *)

\* create: one INSERT under a fresh id.
Create(a, j, p) ==
    /\ pc[a] = "idle" /\ "create" \in Ops
    /\ rows[j] = Absent
    /\ rows' = [rows EXCEPT ![j] = NewRow(p, clock[j])]
    /\ Return(a)
    /\ UNCHANGED <<runs, clock, history, failures>>

\* What a call at clock t makes of the row it read: CronJob::update keeps the
\* enabled flag; update and enable compute a new next_run_at, disable leaves it.
Edited(op, row, plan, t) ==
    CASE op = "update"  -> [row EXCEPT !.plan = plan, !.next = t + 1]
      [] op = "enable"  -> [row EXCEPT !.enabled = TRUE, !.next = t + 1]
      [] op = "disable" -> [row EXCEPT !.enabled = FALSE]
      [] OTHER -> row

\* Every other call begins with get, and ends at once when there is no such job;
\* the payload to be saved is complete before the next await.
Call(a, op, j, p) ==
    /\ pc[a] = "idle" /\ op \in Ops \ {"create"}
    /\ Stored(j)
    /\ call' = [call EXCEPT ![a] = [op |-> op, job |-> j]]
    /\ copy' = [copy EXCEPT ![a] = Edited(op, rows[j], p, clock[j])]
    /\ Goto(a, IF op = "run" THEN "look" ELSE "write")
    /\ UNCHANGED <<rows, runs, mine, tickVars, clock, history, failures>>

\* The occurrences up to last that a payload makes an enabled job wait for again.
Again(row, last) == IF row.enabled /\ row.next <= last THEN last + 1 - row.next ELSE 0

Write(a) ==
    LET j == call[a].job IN
    /\ pc[a] = "write" /\ call[a].op # "delete"
    /\ Save(j, copy[a])
    /\ restored' = [restored EXCEPT ![j] = IF Stored(j) THEN @ + Again(copy[a], served[j]) ELSE @]
    /\ Return(a)
    /\ UNCHANGED <<runs, clock, fired, served, failures>>

\* The foreign key deletes the runs of the job with it.
Delete(a) ==
    LET j == call[a].job IN
    /\ pc[a] = "write" /\ call[a].op = "delete"
    /\ rows' = [rows EXCEPT ![j] = IF Stored(j) THEN Deleted ELSE @]
    /\ runs' = [r \in RunIds |-> IF Known(r) /\ runs[r].job = j THEN NoRun ELSE runs[r]]
    /\ Return(a)
    /\ UNCHANGED <<clock, history, failures>>

-----------------------------------------------------------------------------
(* run_now after its get, for requests and for the tick *)

HasActive(j) == \E r \in RunIds : IsActive(r) /\ runs[r].job = j

RunLook(a) ==
    /\ pc[a] = "look"
    /\ Goto(a, IF HasActive(call[a].job) THEN "skip" ELSE "lease")
    /\ UNCHANGED <<rows, runs, call, copy, mine, tickVars, clock, history, failures>>

\* INSERT INTO cron_runs; refused by the foreign key when the job is gone.
Insert(j, state) == runs' = Append(runs, [job |-> j, state |-> state, lease |-> "held"])

\* Mutant: the unique index on active runs is missing.
RunLeaseTwice(a) ==
    LET j == call[a].job IN
    /\ pc[a] = "lease" /\ Stored(j)
    /\ Insert(j, "running")
    /\ mine' = [mine EXCEPT ![a] = [id |-> Len(runs) + 1, state |-> "running"]]
    /\ Goto(a, "exec")
    /\ fired' = [fired EXCEPT ![j] = IF a = Scheduler THEN @ + 1 ELSE @]
    /\ UNCHANGED <<rows, call, copy, tickVars, clock, served, restored, failures>>

\* The unique index allows one active run per job; the loser is skipped.
RunLease(a) ==
    LET j == call[a].job IN
    /\ pc[a] = "lease"
    /\ \/ /\ Stored(j) /\ ~HasActive(j)
          /\ Insert(j, "running")
          /\ mine' = [mine EXCEPT ![a] = [id |-> Len(runs) + 1, state |-> "running"]]
          /\ Goto(a, "exec")
          /\ fired' = [fired EXCEPT ![j] = IF a = Scheduler THEN @ + 1 ELSE @]
          /\ UNCHANGED <<call, copy, tickVars>>
       \/ /\ Stored(j) /\ HasActive(j)
          /\ Goto(a, "skip")
          /\ UNCHANGED <<runs, call, copy, mine, tickVars, fired>>
       \/ /\ ~Stored(j)
          /\ Abort(a)
          /\ UNCHANGED <<runs, fired>>
    /\ UNCHANGED <<rows, clock, served, restored, failures>>

RunSkip(a) ==
    LET j == call[a].job IN
    /\ pc[a] = "skip"
    /\ \/ Stored(j) /\ Insert(j, "skipped") /\ Return(a)
       \/ ~Stored(j) /\ Abort(a) /\ UNCHANGED runs
    /\ UNCHANGED <<rows, clock, history, failures>>

\* The command or the HTTP request ends, well or not, or its timeout does.
RunExec(a) ==
    /\ pc[a] = "exec"
    /\ mine' = [mine EXCEPT ![a].state = "ended"]
    /\ Goto(a, "record")
    /\ UNCHANGED <<rows, runs, call, copy, tickVars, clock, history, failures>>

RunRecord(a) ==
    /\ pc[a] = "record"
    /\ UpdateRun(mine[a].id, mine[a].state)
    /\ Return(a)
    /\ UNCHANGED <<rows, clock, history, failures>>

-----------------------------------------------------------------------------
(* The tick *)

\* Mutant: recover_expired does not look at the lease.
TickStartHasty ==
    /\ pc[Scheduler] = "idle"
    /\ seen' = {r \in RunIds : IsActive(r)}
    /\ now' = clock
    /\ Goto(Scheduler, "recover")
    /\ UNCHANGED <<rows, runs, call, copy, mine, due, clock, history, failures>>

\* Mutant: the tick recovers nothing.
TickStartForgets ==
    /\ pc[Scheduler] = "idle"
    /\ seen' = {}
    /\ now' = clock
    /\ Goto(Scheduler, "recover")
    /\ UNCHANGED <<rows, runs, call, copy, mine, due, clock, history, failures>>

\* recover_expired reads every run and keeps the active ones whose lease is over.
TickStart ==
    /\ pc[Scheduler] = "idle"
    /\ seen' = {r \in RunIds : IsActive(r) /\ runs[r].lease = "expired"}
    /\ now' = clock
    /\ Goto(Scheduler, "recover")
    /\ UNCHANGED <<rows, runs, call, copy, mine, due, clock, history, failures>>

TickRecover(r) ==
    /\ pc[Scheduler] = "recover" /\ r \in seen
    /\ UpdateRun(r, "interrupted")
    /\ seen' = seen \ {r}
    /\ UNCHANGED <<rows, pc, call, copy, mine, due, now, clock, history, failures>>

IsDue(row, t) == row.enabled /\ row.next <= t

TickList ==
    /\ pc[Scheduler] = "recover" /\ seen = {}
    /\ due' = [j \in {i \in Jobs : Stored(i) /\ IsDue(rows[i], now[i])} |-> rows[j]]
    /\ Goto(Scheduler, "each")
    /\ UNCHANGED <<rows, runs, call, copy, mine, seen, now, clock, history, failures>>

Without(f, x) == [y \in DOMAIN f \ {x} |-> f[y]]

\* Mutant: the schedule is not advanced before the run.
TickAdvanceNot(j) ==
    /\ pc[Scheduler] = "each" /\ j \in DOMAIN due
    /\ served' = [served EXCEPT ![j] = now[j]]
    /\ due' = Without(due, j)
    /\ call' = [call EXCEPT ![Scheduler] = [op |-> "run", job |-> j]]
    /\ Goto(Scheduler, "get")
    /\ UNCHANGED <<rows, runs, copy, mine, seen, now, clock, fired, restored, failures>>

\* The job is advanced past the tick's now and saved as it was listed, then
\* run_now begins.
TickAdvance(j) ==
    /\ pc[Scheduler] = "each" /\ j \in DOMAIN due
    /\ Save(j, [due[j] EXCEPT !.next = now[j] + 1])
    /\ served' = [served EXCEPT ![j] = now[j]]
    /\ due' = Without(due, j)
    /\ call' = [call EXCEPT ![Scheduler] = [op |-> "run", job |-> j]]
    /\ Goto(Scheduler, "get")
    /\ UNCHANGED <<runs, copy, mine, seen, now, clock, fired, restored, failures>>

\* run_now reads the job again; a job deleted meanwhile ends the tick.
TickGet ==
    LET j == call[Scheduler].job IN
    /\ pc[Scheduler] = "get"
    /\ \/ /\ Stored(j)
          /\ copy' = [copy EXCEPT ![Scheduler] = rows[j]]
          /\ Goto(Scheduler, "look")
          /\ UNCHANGED <<call, mine, tickVars>>
       \/ ~Stored(j) /\ Abort(Scheduler)
    /\ UNCHANGED <<rows, runs, clock, history, failures>>

\* Retention deletes the terminal ones among the runs older than some cutoff.
TickPrune ==
    /\ pc[Scheduler] = "each" /\ DOMAIN due = {}
    /\ \E newest \in 0 .. Len(runs) :
          runs' = [r \in RunIds |-> IF r <= newest /\ ~IsActive(r) THEN NoRun ELSE runs[r]]
    /\ Goto(Scheduler, "idle")
    /\ TickEnds
    /\ UNCHANGED <<rows, call, copy, mine, clock, history, failures>>

-----------------------------------------------------------------------------
(* Failures and time *)

\* A database error, a caller that went away (its future is dropped, and the
\* command with it) or the end of the process: nothing more of the operation
\* happens, and the scheduler begins a new tick later.
Fail(a) ==
    /\ pc[a] \notin {"idle", "done"}
    /\ failures < MaxFailures
    /\ failures' = failures + 1
    /\ Abort(a)
    /\ UNCHANGED <<rows, runs, clock, history>>

Occurs(j) ==
    /\ Stored(j)
    /\ clock[j] < MaxOccurrences
    /\ clock' = [clock EXCEPT ![j] = @ + 1]
    /\ UNCHANGED <<rows, runs, pc, call, copy, mine, tickVars, history, failures>>

\* Work that is not Slow ends, and is recorded, within the lease.
LeaseExpires(r) ==
    /\ IsActive(r) /\ runs[r].lease = "held"
    /\ \A a \in Actors : Executing(a) /\ mine[a].id = r => copy[a].plan \in Slow
    /\ runs' = [runs EXCEPT ![r].lease = "expired"]
    /\ UNCHANGED <<rows, pc, call, copy, mine, tickVars, clock, history, failures>>

-----------------------------------------------------------------------------
RunStep(a) == RunLook(a) \/ RunLease(a) \/ RunSkip(a) \/ RunRecord(a)

TickStep ==
    \/ TickStart \/ TickList \/ TickGet \/ TickPrune
    \/ \E r \in RunIds : TickRecover(r)
    \/ \E j \in Jobs : TickAdvance(j)

Next ==
    \/ \E a \in Requests, j \in Jobs, p \in Plans :
          Create(a, j, p) \/ \E op \in AllOps : Call(a, op, j, p)
    \/ \E a \in Requests : Write(a) \/ Delete(a)
    \/ \E a \in Actors : RunStep(a) \/ RunExec(a) \/ Fail(a)
    \/ TickStep
    \/ \E j \in Jobs : Occurs(j)
    \/ \E r \in RunIds : LeaseExpires(r)

Spec == Init /\ [][Next]_vars

\* The runtime polls every call and the interval fires; time passes, so a
\* lease runs out.  The work of a job has no fairness: see WorkEnds.
FairSpec ==
    /\ Spec
    /\ WF_vars(TickStep)
    /\ \A a \in Actors : WF_vars(RunStep(a))
    /\ WF_vars(\E r \in RunIds : LeaseExpires(r))

-----------------------------------------------------------------------------
\* The rows, the runs and every actor's progress are well formed.
TypeOK ==
    /\ rows \in [Jobs -> Rows \cup {Absent, Deleted}]
    /\ runs \in Seq(Records \cup {NoRun})
    /\ pc \in [Actors -> {"idle", "write", "get", "look", "lease", "skip",
                          "exec", "record", "recover", "each", "done"}]
    /\ call \in [Actors -> Calls \cup {NoJob}]
    /\ copy \in [Actors -> Rows \cup {NoJob}]
    /\ mine \in [Actors -> Executions \cup {NoRun}]
    /\ seen \subseteq RunIds
    /\ DOMAIN due \subseteq Jobs /\ \A j \in DOMAIN due : due[j] \in Rows
    /\ clock \in [Jobs -> 0 .. MaxOccurrences] /\ now \in [Jobs -> 0 .. MaxOccurrences]
    /\ fired \in [Jobs -> Nat] /\ served \in [Jobs -> Nat] /\ restored \in [Jobs -> Nat]
    /\ failures \in 0 .. MaxFailures

\* The work of this plan ends within the lease.
Quick(a) == copy[a].plan \notin Slow

\* OverlapPolicy::Skip: one job is executed twice at the same time, whoever runs
\* it, only when one of the two executions can outlast its 30 second lease.
OneExecution ==
    \A a, b \in Actors :
       a # b /\ Executing(a) /\ Executing(b) /\ call[a].job = call[b].job => ~(Quick(a) /\ Quick(b))

\* An outcome recorded within the run's lease is not rewritten, neither by
\* update_run nor by recover_expired, which write what they read earlier, nor
\* by another execution; such runs only leave by retention or with their job.
OutcomeKept ==
    [][\A r \in RunIds :
          Known(r) /\ ~IsActive(r) /\ runs[r].lease = "held" => runs'[r] \in {runs[r], NoRun}]_vars

\* The tick begins at most one run for each occurrence of a job that has passed,
\* and one more for each occurrence that a call brought back by saving, after
\* the tick had advanced the job, a next_run_at computed before.
AtMostOncePerOccurrence == \A j \in Jobs : fired[j] <= clock[j] + restored[j]

\* No command and no HTTP request runs for ever.  The job's timeout ends all
\* but an HTTP response whose body stalls.
WorkEnds == \A a \in Actors : []<>(pc[a] # "exec")

\* The run that keeps a job from being run again is settled or deleted in the
\* end, also when its executor failed: the lease expires and a later tick
\* interrupts it.
RunsSettle == WorkEnds => \A j \in Jobs : HasActive(j) ~> ~HasActive(j)

\* Occurrence k of job j is due and not yet served.
Awaits(j, k) == Stored(j) /\ rows[j].next = k /\ IsDue(rows[j], clock[j])

\* An enabled job that is due is advanced by some tick, unless it is disabled,
\* changed or deleted first, although an error of one job gives up the tick
\* before the jobs listed after it.
DueJobsRun ==
    WorkEnds => \A j \in Jobs, k \in 1 .. MaxOccurrences : Awaits(j, k) ~> ~Awaits(j, k)

\* CronJob::disable, "Disable future occurrences": a disabled job is enabled
\* again by a call of enable only.
DisableSticks ==
    [][\A j \in Jobs :
          /\ Stored(j) /\ ~rows[j].enabled
          /\ rows'[j] \in Rows /\ rows'[j].enabled
          => \E a \in Requests : call[a] # NoJob /\ call[a].op = "enable" /\ pc'[a] # pc[a]]_vars
=============================================================================
