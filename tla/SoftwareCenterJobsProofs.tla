---------------------- MODULE SoftwareCenterJobsProofs ----------------------
(***************************************************************************)
(* Theorems about the records of package transactions: what software_jobs  *)
(* and the lock row say while requests run, are rolled back, crash and are *)
(* reconciled, for every number of requests, tokens and packages.          *)
(***************************************************************************)
EXTENDS SoftwareCenterProofs

-----------------------------------------------------------------------------
(* Which job a request records.                                            *)

\* An execution records its own job.  A rollback records the job of an
\* execution that installed a component, under that execution's token.
JobNames ==
    \A r \in Requests :
       pc[r] # "idle" =>
          IF Mode(r) = "rollback"
          THEN /\ jobState[Job(r)] # "none"
               /\ Tok(r) = Tok(Job(r))
               /\ Kind(r) = "install"
          ELSE Job(r) = r

\* Only executions have jobs.
JobsExecuted == \A j \in Requests : jobState[j] # "none" => Mode(j) # "rollback"

\* Where a rollback can stand.
RollbackPcs == {"enter", "acquire", "reopen", "unwind", "settle", "release"} \cup FinalPcs

\* Where the outcome that a request is about to record is decided, and what it
\* can be.
DecidedPcs == {"dismantle", "unwind", "manage", "settle"}

OutcomesOf(m) ==
    IF m = "rollback" THEN {"rolled_back", "failed"} ELSE {"succeeded", "failed", "cancelled"}

DecidedAt(r) ==
    /\ pc[r] # "idle" /\ Mode(r) = "rollback" => pc[r] \in RollbackPcs
    /\ pc[r] = "reopen" => Mode(r) = "rollback"
    /\ pc[r] \in DecidedPcs => out[r] \in OutcomesOf(Mode(r))
    /\ pc[r] \notin DecidedPcs \cup {"persist", "release"} \cup FinalPcs => out[r] = "none"

Decided == \A r \in Requests : DecidedAt(r)

NameInv == TypeInv /\ JobNames /\ JobsExecuted /\ Decided


\* What a request's own step may record.
RecordFrame(r) ==
    /\ \A s \in Requests \ {r} : out'[s] = out[s]
    /\ \/ jobState' = jobState
       \/ pc[r] \in GuardPcs /\ jobState'[Job(r)] # "none"

\* Every step of a request stays within it, and keeps DecidedAt.
LEMMA StepRecords ==
    ASSUME TypeInv, NEW r \in Requests, DecidedAt(r), Step(r) \/ Fault(r)
    PROVE  RecordFrame(r) /\ DecidedAt(r)'
<1> USE DEF Goto, hostVars, planVars, jobVars, bootVars, memVars
<1> USE DEF RecordFrame, DecidedAt, RollbackPcs, DecidedPcs, OutcomesOf, Mode,
            GuardPcs, QueuedPcs, MutatingPcs, FinalPcs
<1>T. /\ jobState \in [Requests -> JobStates]
      /\ out \in [Requests -> JobStates]
      /\ pc \in [Requests -> Pcs]
  BY DEF TypeInv, TypeOK
<1>J. Job(r) \in Requests
  BY StepFrames, FaultFrames, CallFacts DEF RequestFrame
<1>1. CASE EnterMutex(r)
  BY <1>1, <1>T DEF EnterMutex
<1>2. CASE TakeMemory(r) \/ SelectRow(r) \/ ConsumeRow(r) \/ CheckHost(r)
  BY <1>2, <1>T DEF Refuse, TakeMemory, SelectRow, ConsumeRow, CheckHost
<1>3. CASE AcquireLock(r)
  BY <1>3, <1>T DEF Refuse, AcquireLock
<1>4. CASE PushQueued(r) \/ Begin(r) \/ Reopen(r)
  BY <1>4, <1>T, <1>J DEF PushJob, PushQueued, Begin, Reopen
<1>5. CASE ApplyPackage(r) \/ ApplyFails(r)
  BY <1>5, <1>T DEF Compensate, ApplyPackage, ApplyFails
<1>6. CASE Checkpoint(r)
  BY <1>6, <1>T, <1>J DEF PushJob, Compensate, Checkpoint
<1>7. CASE Provision(r) \/ ProvisionFails(r)
  BY <1>7, <1>T DEF Compensate, Provision, ProvisionFails
<1>8. CASE Validate(r) \/ ValidateFails(r) \/ RejectApplication(r)
  BY <1>8, <1>T DEF Compensate, Validate, ValidateFails, RejectApplication
<1>9. CASE SetManaged(r) \/ Dismantle(r)
  BY <1>9, <1>T DEF SetManaged, Dismantle
<1>10. CASE UnwindPackage(r) \/ UnwindEnds(r)
  BY <1>10, <1>T DEF UnwindPackage, UnwindEnds
<1>11. CASE Settle(r)
  <2>1. RecordFrame(r)
    BY <1>11, <1>T, <1>J DEF PushJob, Settle
  <2>2. DecidedAt(r)'
    BY <1>11, <1>T DEF Settle
  <2> QED
    BY <2>1, <2>2
<1>12. CASE PersistDeployment(r) \/ Release(r)
  BY <1>12, <1>T DEF PersistDeployment, Release
<1>13. CASE Abandon(r)
  BY <1>13, <1>T DEF Abandon
<1> QED
  BY <1>1, <1>2, <1>3, <1>4, <1>5, <1>6, <1>7, <1>8, <1>9, <1>10, <1>11, <1>12, <1>13
  DEF Step, Fault

\* A request's own step keeps NameInv.
LEMMA NameRequest ==
    ASSUME NameInv, NEW r \in Requests, RequestFrame(r), RecordFrame(r), DecidedAt(r)'
    PROVE  JobNames' /\ JobsExecuted' /\ Decided'
<1>1. /\ \A s \in Requests \ {r} : pc'[s] = pc[s] /\ out'[s] = out[s]
      /\ \A s \in Requests : pc'[s] = "idle" <=> pc[s] = "idle"
      /\ UNCHANGED <<call, preview>>
      /\ pc[r] # "idle" /\ Job(r) \in Requests
  BY CallFacts DEF RequestFrame, RecordFrame, NameInv
<1>2. \A j \in Requests : jobState'[j] = "none" => jobState[j] = "none"
  BY DEF RequestFrame, RecordFrame
<1>3. \A j \in Requests : jobState'[j] # "none" /\ jobState[j] = "none" => j = r /\ Mode(r) # "rollback"
  BY <1>1 DEF RequestFrame, RecordFrame, NameInv, JobNames
<1>4. JobNames'
  BY <1>1, <1>2, CallFacts DEF NameInv, JobNames, Mode, Job, Tok, Kind, Plan
<1>5. JobsExecuted'
  BY <1>1, <1>3 DEF NameInv, JobsExecuted, Mode
<1>6. Decided'
  BY <1>1 DEF NameInv, Decided, DecidedAt, Mode
<1> QED
  BY <1>4, <1>5, <1>6

\* What a process step leaves alone besides ProcessFrame.
LEMMA ProcessRecords ==
    ASSUME NEW p \in Procs, ProcessStep(p)
    PROVE  /\ out' = out
           /\ \/ jobState' = jobState
              \/ ReconcileMark(p)
  BY DEF ProcessStep, Start, Reconcile, ReconcileRead, ReconcileMark, ReconcileClear, Exit,
         RunDrop, jobVars

\* NameInv is inductive, whatever the processes do.
LEMMA NextName == NameInv /\ [Next]_vars => NameInv'
<1> SUFFICES ASSUME NameInv, [Next]_vars PROVE NameInv'
  OBVIOUS
<1> DEFINE Goal == JobNames' /\ JobsExecuted' /\ Decided'
<1>0. TypeInv /\ TypeInv'
  BY NextType DEF NameInv
<1>1. ASSUME NEW r \in Requests, Step(r) \/ Fault(r)
      PROVE  Goal
  BY <1>0, <1>1, StepFrames, FaultFrames, StepRecords, NameRequest DEF NameInv, Decided
<1>2. ASSUME NEW p \in Procs, ProcessStep(p)
      PROVE  Goal
  <2>1. /\ UNCHANGED <<call, preview, out>>
        /\ \A r \in Requests : pc'[r] = pc[r] \/ (pc[r] # "idle" /\ pc'[r] \in {"refused", "lost"})
    BY <1>0, <1>2, ProcessFrame, ProcessRecords DEF InFlight
  <2>2. \A j \in Requests : jobState'[j] = "none" <=> jobState[j] = "none"
    BY <1>2, ProcessRecords DEF ReconcileMark, ActiveStates
  <2>3. JobNames' /\ JobsExecuted'
    BY <1>0, <2>1, <2>2, CallFacts DEF NameInv, JobNames, JobsExecuted, Mode, Job, Tok, Kind, Plan
  <2>4. Decided'
    BY <2>1 DEF NameInv, Decided, DecidedAt, RollbackPcs, DecidedPcs, FinalPcs, Mode
  <2> QED
    BY <2>3, <2>4
<1>3. ASSUME UNCHANGED <<call, pc, jobState, out>>,
             \A r \in Requests : pc[r] # "idle" => preview'[Tok(r)] = preview[Tok(r)]
      PROVE  Goal
  BY <1>0, <1>3, CallFacts
  DEF NameInv, JobNames, JobsExecuted, Decided, DecidedAt, Mode, Job, Tok, Kind, Plan
<1>4. ASSUME NEW p \in Procs, NEW t \in Tokens, PreviewStep(p, t)
      PROVE  Goal
  <2>1. PICK plan \in Plans : Draft(p, t, plan)
    BY <1>0, <1>4, PreviewDrafts
  <2>2. \A r \in Requests : pc[r] # "idle" => preview'[Tok(r)] = preview[Tok(r)]
    BY <1>0, <2>1 DEF Draft, TypeInv, TypeOK, CallsBound, Tok
  <2> QED
    BY <1>3, <2>1, <2>2 DEF Draft, jobVars
<1>5. ASSUME NEW t \in Tokens, IssueStep(t)
      PROVE  Goal
  BY <1>3, <1>5 DEF IssueStep, PersistPlan, RememberPreview, jobVars
<1>6. ASSUME NEW p \in Procs, ClientStep(p)
      PROVE  Goal
  <2>1. ASSUME NEW r \in Requests, NEW m \in Modes \ {"rollback"}, NEW t \in Tokens,
               Submit(r, p, m, t)
        PROVE  Goal
    <3>1. /\ pc[r] = "idle" /\ pc'[r] \in {"enter", "take"} /\ jobState[r] = "none"
          /\ call'[r] = [at |-> p, mode |-> m, tok |-> t, job |-> r]
          /\ \A s \in Requests \ {r} : pc'[s] = pc[s] /\ call'[s] = call[s]
          /\ UNCHANGED <<preview, jobState, out>>
      BY <1>0, <2>1 DEF Submit, Goto, planVars, jobVars, TypeInv, TypeOK, JobsBound
    <3>2. \A s \in Requests \ {r} : pc[s] # "idle" => Job(s) \in Requests /\ Job(s) # r
      BY <1>0, <3>1, CallFacts
    <3>3. JobNames' /\ JobsExecuted'
      BY <3>1, <3>2 DEF NameInv, JobNames, JobsExecuted, Mode, Job, Tok, Kind, Plan
    <3>4. Decided'
      BY <3>1 DEF NameInv, Decided, DecidedAt, RollbackPcs, DecidedPcs, FinalPcs, Mode
    <3> QED
      BY <3>3, <3>4
  <2>2. ASSUME NEW r \in Requests, NEW j \in Requests, SubmitRollback(r, p, j)
        PROVE  Goal
    <3>1. /\ pc[r] = "idle" /\ pc'[r] = "enter" /\ jobState[r] = "none"
          /\ call'[r] = [at |-> p, mode |-> "rollback", tok |-> Tok(j), job |-> j]
          /\ \A s \in Requests \ {r} : pc'[s] = pc[s] /\ call'[s] = call[s]
          /\ UNCHANGED <<preview, jobState, out>>
          /\ jobState[j] = "interrupted" /\ Kind(j) = "install" /\ j # r
      BY <1>0, <2>2 DEF SubmitRollback, Goto, planVars, jobVars, TypeInv, TypeOK, JobsBound
    <3>2. \A s \in Requests \ {r} : pc[s] # "idle" => Job(s) \in Requests /\ Job(s) # r
      BY <1>0, <3>1, CallFacts
    <3>3. JobNames' /\ JobsExecuted'
      BY <3>1, <3>2 DEF NameInv, JobNames, JobsExecuted, Mode, Job, Tok, Kind, Plan
    <3>4. Decided'
      BY <3>1 DEF NameInv, Decided, DecidedAt, RollbackPcs, DecidedPcs, FinalPcs, Mode
    <3> QED
      BY <3>3, <3>4
  <2>3. ASSUME NEW j \in Requests, Cancel(p, j)
        PROVE  Goal
    BY <2>3, <1>3 DEF Cancel, planVars, jobVars
  <2> QED
    BY <1>6, <2>1, <2>2, <2>3 DEF ClientStep
<1>7. CASE EnvStep \/ UNCHANGED vars
  <2>1. UNCHANGED <<call, pc, jobState, out, preview>>
    BY <1>7 DEF EnvStep, Expire, OrphanEnds, vars, planVars, jobVars
  <2> QED
    BY <1>0, <1>3, <2>1 DEF NameInv
<1> QED
  BY <1>0, <1>1, <1>2, <1>4, <1>5, <1>6, <1>7, NextCases DEF NameInv
-----------------------------------------------------------------------------
(* What is recorded of a job while its request runs.                       *)

RollbackStates == {"interrupted", "rolling_back", "rolled_back", "failed"}

\* The states the job of an execution, or of a rollback, can be in while the
\* request stands at l.
ExecutionStates(l) ==
    CASE l \in {"enter", "take", "select", "consume", "check", "acquire", "queue"} -> {"none"}
      [] l = "wait"                      -> {"queued"}
      [] l = "begin"                     -> {"none", "queued"}
      [] l = "persist"                   -> {"succeeded"}
      [] l \in MutatingPcs \ {"persist"} -> {"running", "validating"}
      [] l = "release"                   -> {"succeeded", "cancelled"}
      [] OTHER                           -> {}

ReopenedStates(l) ==
    CASE l \in {"enter", "acquire", "reopen"} -> RollbackStates
      [] l \in {"unwind", "settle"}           -> {"rolling_back"}
      [] l = "release"                        -> {"rolled_back"}
      [] OTHER                                -> {}

Standing(l, m) == IF m = "rollback" THEN ReopenedStates(l) ELSE ExecutionStates(l)

RecordAt(r) == InFlight(r) => jobState[Job(r)] \in Standing(pc[r], Mode(r))

Recorded == \A r \in Requests : RecordAt(r)

JobInv == LockInv /\ NameInv /\ Recorded

\* An execution and a rollback are never in flight with the same job.
LEMMA StatesApart ==
    /\ \A l : ExecutionStates(l) \cap RollbackStates = {}
    /\ \A l : ReopenedStates(l) \subseteq RollbackStates
    /\ \A l : "rolling_back" \notin ExecutionStates(l) /\ "interrupted" \notin ExecutionStates(l)
  BY DEF ExecutionStates, ReopenedStates, RollbackStates, MutatingPcs

\* A request's own step leaves its job in the state of where it stands now.
LEMMA StepStanding ==
    ASSUME TypeInv, NEW r \in Requests, DecidedAt(r), RecordAt(r), Step(r) \/ Fault(r)
    PROVE  /\ RecordAt(r)'
           /\ Mode(r) = "rollback" => jobState'[Job(r)] \in RollbackStates
<1> USE DEF Goto, hostVars, planVars, jobVars, bootVars, memVars
<1>T. /\ jobState \in [Requests -> JobStates]
      /\ out \in [Requests -> JobStates]
      /\ pc \in [Requests -> Pcs]
  BY DEF TypeInv, TypeOK
<1>J. Job(r) \in Requests /\ InFlight(r) /\ call' = call
  BY StepFrames, FaultFrames, CallFacts DEF RequestFrame
<1>S. jobState[Job(r)] \in Standing(pc[r], Mode(r))
  BY <1>J DEF RecordAt
<1>R. Mode(r) = "rollback" => pc[r] \in RollbackPcs /\ jobState[Job(r)] \in RollbackStates
  BY <1>J, <1>S, StatesApart DEF DecidedAt, InFlight, Standing
<1>E. Mode(r)' = Mode(r) /\ Job(r)' = Job(r)
  BY <1>J DEF Mode, Job
<1>G. ASSUME jobState'[Job(r)] \in Standing(pc'[r], Mode(r)) \/ pc'[r] \in FinalPcs
      PROVE  RecordAt(r)'
  BY <1>G, <1>E DEF RecordAt, InFlight
<1> USE DEF Standing, ExecutionStates, ReopenedStates, RollbackStates, MutatingPcs, FinalPcs
<1>1. CASE EnterMutex(r)
  BY <1>1, <1>T, <1>S, <1>R, <1>G DEF EnterMutex
<1>2. CASE TakeMemory(r) \/ SelectRow(r) \/ ConsumeRow(r) \/ CheckHost(r)
  BY <1>2, <1>T, <1>S, <1>R, <1>G DEF Refuse, TakeMemory, SelectRow, ConsumeRow, CheckHost
<1>3. CASE AcquireLock(r)
  BY <1>3, <1>T, <1>S, <1>R, <1>G DEF Refuse, AcquireLock
<1>4. CASE PushQueued(r) \/ Begin(r)
  BY <1>4, <1>T, <1>J, <1>S, <1>R, <1>G DEF PushJob, PushQueued, Begin, RollbackPcs
<1>5. CASE Reopen(r)
  BY <1>5, <1>T, <1>J, <1>S, <1>R, <1>G DEF PushJob, Reopen, DecidedAt
<1>6. CASE ApplyPackage(r) \/ ApplyFails(r)
  BY <1>6, <1>T, <1>S, <1>R, <1>G DEF Compensate, ApplyPackage, ApplyFails, RollbackPcs
<1>7. CASE Checkpoint(r)
  BY <1>7, <1>T, <1>J, <1>S, <1>R, <1>G DEF PushJob, Compensate, Checkpoint, RollbackPcs
<1>8. CASE Provision(r) \/ ProvisionFails(r)
  BY <1>8, <1>T, <1>S, <1>R, <1>G DEF Compensate, Provision, ProvisionFails, RollbackPcs
<1>9. CASE Validate(r) \/ ValidateFails(r) \/ RejectApplication(r)
  BY <1>9, <1>T, <1>S, <1>R, <1>G
  DEF Compensate, Validate, ValidateFails, RejectApplication, RollbackPcs
<1>10. CASE SetManaged(r) \/ Dismantle(r)
  BY <1>10, <1>T, <1>S, <1>R, <1>G DEF SetManaged, Dismantle, RollbackPcs
<1>11. CASE UnwindPackage(r) \/ UnwindEnds(r)
  BY <1>11, <1>T, <1>S, <1>R, <1>G DEF UnwindPackage, UnwindEnds
<1>12. CASE Settle(r)
  <2>1. out[r] \in OutcomesOf(Mode(r))
    BY <1>12 DEF Settle, DecidedAt, DecidedPcs
  <2> QED
    BY <1>12, <1>T, <1>J, <1>S, <1>R, <1>G, <2>1 DEF PushJob, Settle, OutcomesOf
<1>13. CASE PersistDeployment(r) \/ Release(r)
  BY <1>13, <1>T, <1>S, <1>R, <1>G DEF PersistDeployment, Release, RollbackPcs
<1>14. CASE Abandon(r)
  BY <1>14, <1>T, <1>R, <1>G DEF Abandon
<1> QED
  BY <1>1, <1>2, <1>3, <1>4, <1>5, <1>6, <1>7, <1>8, <1>9, <1>10, <1>11, <1>12, <1>13, <1>14
  DEF Step, Fault

\* A request's own step leaves the jobs of the others as they stand.
LEMMA RecordRequest ==
    ASSUME JobInv, NEW r \in Requests, RequestFrame(r), RecordFrame(r), RecordAt(r)',
           Mode(r) = "rollback" => jobState'[Job(r)] \in RollbackStates
    PROVE  Recorded'
<1> SUFFICES ASSUME NEW s \in Requests, s # r, InFlight(s)'
             PROVE  jobState'[Job(s)'] \in Standing(pc'[s], Mode(s)')
  BY DEF Recorded, RecordAt
<1>1. pc'[s] = pc[s] /\ InFlight(s) /\ Mode(s)' = Mode(s) /\ Job(s)' = Job(s) /\ InFlight(r)
  BY DEF RequestFrame, InFlight, Mode, Job
<1>2. jobState[Job(s)] \in Standing(pc[s], Mode(s)) /\ jobState[Job(r)] \in Standing(pc[r], Mode(r))
  BY <1>1 DEF JobInv, Recorded, RecordAt
<1>3. Job(s) \in Requests /\ Job(r) \in Requests /\ pc[s] # "idle" /\ pc[r] # "idle"
  BY <1>1, CallFacts DEF JobInv, NameInv, InFlight
<1>4. CASE Job(s) # Job(r) \/ jobState' = jobState
  BY <1>1, <1>2, <1>3, <1>4 DEF RequestFrame
<1>5. CASE Job(s) = Job(r) /\ pc[r] \in GuardPcs
  <2>1. Mode(s) = "rollback" /\ Mode(r) = "rollback"
    BY <1>2, <1>3, <1>5, StatesApart DEF JobInv, NameInv, JobNames, Standing
  <2>2. ~Guarded(pc[s]) \/ s = r
    BY <1>5 DEF JobInv, LockInv, SoleGuard, Guarded
  <2>3. pc[s] \in {"enter", "acquire"}
    BY <1>2, <2>1, <2>2
    DEF Standing, ReopenedStates, Guarded, GuardPcs, QueuedPcs, MutatingPcs
  <2> QED
    BY <1>1, <1>5, <2>1, <2>3 DEF Standing, ReopenedStates
<1> QED
  BY <1>4, <1>5 DEF RecordFrame

\* JobInv is inductive when there is one process.
LEMMA NextJob ==
    ASSUME OneProcess
    PROVE  JobInv /\ [Next]_vars => JobInv'
<1> SUFFICES ASSUME JobInv, [Next]_vars PROVE Recorded'
  BY NextLock, NextName DEF JobInv
<1>0. TypeInv /\ LockInv /\ NameInv
  BY DEF JobInv, NameInv
<1>1. ASSUME NEW r \in Requests, Step(r) \/ Fault(r)
      PROVE  Recorded'
  BY <1>0, <1>1, StepFrames, FaultFrames, StepRecords, StepStanding, RecordRequest
  DEF JobInv, NameInv, Decided, Recorded
<1>2. ASSUME NEW p \in Procs, ProcessStep(p)
      PROVE  Recorded'
  <2> SUFFICES ASSUME NEW r \in Requests, InFlight(r)'
               PROVE  jobState'[Job(r)'] \in Standing(pc'[r], Mode(r)')
    BY DEF Recorded, RecordAt
  <2>1. pc'[r] = pc[r] /\ UNCHANGED call /\ InFlight(r)
    BY <1>0, <1>2, ProcessFrame DEF InFlight, FinalPcs
  <2>2. jobState[Job(r)] \in Standing(pc[r], Mode(r)) /\ At(r) = p /\ Job(r) \in Requests
    BY <1>0, <2>1, CallFacts DEF JobInv, Recorded, RecordAt, OneProcess, InFlight
  <2>3. CASE jobState' = jobState
    BY <2>1, <2>2, <2>3 DEF Job, Mode
  <2>4. CASE ReconcileMark(p)
    <3>1. pc[r] \in {"enter", "take"} /\ Mode(r) # "rollback"
      BY <1>0, <2>1, <2>2, <2>4 DEF ReconcileMark, LockInv, ReconQuiet
    <3>2. jobState[Job(r)] = "none"
      BY <2>2, <3>1 DEF Standing, ExecutionStates, MutatingPcs
    <3>3. jobState'[Job(r)] = jobState[Job(r)]
      BY <2>2, <2>4, <3>2 DEF ReconcileMark, ActiveStates
    <3> QED
      BY <2>1, <2>2, <3>3 DEF Job, Mode
  <2> QED
    BY <1>2, <2>3, <2>4, ProcessRecords
<1>3. ASSUME UNCHANGED <<call, pc, jobState>>
      PROVE  Recorded'
  BY <1>3 DEF JobInv, Recorded, RecordAt, InFlight, Job, Mode
<1>4. ASSUME NEW p \in Procs, NEW t \in Tokens, PreviewStep(p, t)
      PROVE  Recorded'
  BY <1>0, <1>3, <1>4, PreviewDrafts DEF Draft, jobVars
<1>5. ASSUME NEW t \in Tokens, IssueStep(t)
      PROVE  Recorded'
  BY <1>0, <1>3, <1>5, IssueFrame
<1>6. ASSUME NEW p \in Procs, ClientStep(p)
      PROVE  Recorded'
  <2>1. ASSUME NEW r \in Requests, jobState' = jobState,
               \A s \in Requests \ {r} : pc'[s] = pc[s] /\ call'[s] = call[s],
               pc'[r] \in {"enter", "take"}, jobState[call'[r].job] \in Standing(pc'[r], call'[r].mode)
        PROVE  Recorded'
    BY <2>1 DEF JobInv, Recorded, RecordAt, InFlight, Job, Mode
  <2>2. ASSUME NEW r \in Requests, NEW m \in Modes \ {"rollback"}, NEW t \in Tokens,
               Submit(r, p, m, t)
        PROVE  Recorded'
    <3>1. /\ pc'[r] \in {"enter", "take"} /\ jobState[r] = "none"
          /\ call'[r] = [at |-> p, mode |-> m, tok |-> t, job |-> r]
          /\ \A s \in Requests \ {r} : pc'[s] = pc[s] /\ call'[s] = call[s]
          /\ jobState' = jobState
      BY <1>0, <2>2 DEF Submit, Goto, jobVars, TypeInv, TypeOK, JobsBound
    <3>2. jobState[call'[r].job] \in Standing(pc'[r], call'[r].mode)
      BY <3>1 DEF Standing, ExecutionStates, MutatingPcs
    <3> QED
      BY <2>1, <3>1, <3>2
  <2>3. ASSUME NEW r \in Requests, NEW j \in Requests, SubmitRollback(r, p, j)
        PROVE  Recorded'
    <3>1. /\ pc'[r] = "enter"
          /\ call'[r] = [at |-> p, mode |-> "rollback", tok |-> Tok(j), job |-> j]
          /\ \A s \in Requests \ {r} : pc'[s] = pc[s] /\ call'[s] = call[s]
          /\ jobState' = jobState /\ jobState[j] = "interrupted"
      BY <1>0, <2>3 DEF SubmitRollback, Goto, jobVars, TypeInv, TypeOK
    <3>2. jobState[call'[r].job] \in Standing(pc'[r], call'[r].mode)
      BY <3>1 DEF Standing, ReopenedStates, RollbackStates
    <3> QED
      BY <2>1, <3>1, <3>2
  <2>4. ASSUME NEW j \in Requests, Cancel(p, j)
        PROVE  Recorded'
    BY <2>4, <1>3 DEF Cancel, jobVars
  <2> QED
    BY <1>6, <2>2, <2>3, <2>4 DEF ClientStep
<1>7. CASE EnvStep \/ UNCHANGED vars
  BY <1>3, <1>7, EnvFrame
<1> QED
  BY <1>1, <1>2, <1>4, <1>5, <1>6, <1>7, NextCases

\* Nothing is recorded, decided or locked at first.
LEMMA InitJob == Init => JobInv
<1> SUFFICES ASSUME Init PROVE JobInv
  OBVIOUS
<1>1. TypeInv
  BY InitType
<1>2. LockInv
  BY <1>1
  DEF Init, LockInv, ReconQuiet, SoleGuard, GuardLock, DropLock, Guarded,
      GuardPcs, QueuedPcs, MutatingPcs, InFlight
<1>3. NameInv
  BY <1>1 DEF Init, NameInv, JobNames, JobsExecuted, Decided, DecidedAt, DecidedPcs
<1>4. Recorded
  BY DEF Init, Recorded, RecordAt, InFlight
<1> QED
  BY <1>2, <1>3, <1>4 DEF JobInv

\* With one panel process, the reconciliation of a restart never interrupts the
\* job of an execution that holds the lock, and no rollback takes that job up.
THEOREM SingleProcessUninterrupted ==
    ASSUME OneProcess
    PROVE  Spec => []InterruptedHasNoWorker
<1>1. JobInv => InterruptedHasNoWorker
  <2> SUFFICES ASSUME JobInv, NEW r \in Requests, pc[r] \in GuardPcs, Mode(r) # "rollback"
               PROVE  jobState[r] # "interrupted"
    BY DEF InterruptedHasNoWorker
  <2>1. InFlight(r)
    BY DEF InFlight, FinalPcs, GuardPcs, QueuedPcs, MutatingPcs
  <2>2. Job(r) = r /\ jobState[r] \in ExecutionStates(pc[r])
    BY <2>1 DEF JobInv, NameInv, JobNames, Recorded, RecordAt, Standing, InFlight
  <2> QED
    BY <2>2, StatesApart
<1> QED
  BY <1>1, InitJob, NextJob, PTL DEF Spec

-----------------------------------------------------------------------------
(* The lock row has an owner.                                              *)

\* One panel process, whose process id is not that of a dead one, and whose
\* requests run to their end unless the process dies.
Steady == OneProcess /\ ~PidReuse /\ "abandon" \notin Faults

\* A lock row left by an earlier process does not carry the id of this one.
OldLock ==
    /\ \A p \in Procs : pid[p] # NoPid => pid[p] \in spent
    /\ lock # NoLock => lock.pid \in spent
    /\ \A p \in Procs : recon[p] # "done" /\ lock # NoLock => lock.pid # pid[p]

\* Once reconciled, the row belongs to a guard or its delete is on the way.
RowWorked ==
    \A p \in Procs :
       recon[p] = "done" /\ lock # NoLock =>
          \/ \E r \in Requests : Guarded(pc[r])
          \/ lock.job \in drops[p]

RowInv == LockInv /\ NameInv /\ OldLock /\ RowWorked

\* What a request's own step may do to the row it holds.
RowFrame(r) ==
    /\ UNCHANGED <<spent, recon, pid>>
    /\ \/ /\ pc[r] = "acquire" /\ lock = NoLock
          /\ lock' = [job |-> Job(r), pid |-> pid[At(r)]]
          /\ Guarded(pc'[r])
       \/ /\ UNCHANGED <<lock, drops>>
          /\ Guarded(pc[r]) => Guarded(pc'[r])
       \/ UNCHANGED lock /\ DropGuard(r)
       \/ lock' = NoLock

\* Every step of a request that is not abandoned stays within it.
LEMMA StepRow ==
    ASSUME LockInv, "abandon" \notin Faults, NEW r \in Requests, DecidedAt(r),
           Step(r) \/ Fault(r)
    PROVE  RowFrame(r)
<1> USE DEF Goto, hostVars, planVars, jobVars, bootVars, memVars
<1> USE DEF RowFrame, Guarded, GuardPcs, QueuedPcs, MutatingPcs
<1>T. pc \in [Requests -> Pcs]
  BY DEF LockInv, TypeInv, TypeOK
<1>1. CASE EnterMutex(r)
  BY <1>1, <1>T DEF EnterMutex, DecidedAt, RollbackPcs, FinalPcs
<1>2. CASE TakeMemory(r) \/ SelectRow(r) \/ ConsumeRow(r) \/ CheckHost(r)
  BY <1>2, <1>T DEF Refuse, TakeMemory, SelectRow, ConsumeRow, CheckHost
<1>3. CASE AcquireLock(r)
  BY <1>3, <1>T DEF Refuse, AcquireLock
<1>4. CASE PushQueued(r) \/ Begin(r) \/ Reopen(r)
  BY <1>4, <1>T DEF PushQueued, Begin, Reopen
<1>5. CASE ApplyPackage(r) \/ ApplyFails(r)
  BY <1>5, <1>T DEF Compensate, ApplyPackage, ApplyFails
<1>6. CASE Checkpoint(r)
  BY <1>6, <1>T DEF Compensate, Checkpoint
<1>7. CASE Provision(r) \/ ProvisionFails(r)
  BY <1>7, <1>T DEF Compensate, Provision, ProvisionFails
<1>8. CASE Validate(r) \/ ValidateFails(r) \/ RejectApplication(r)
  BY <1>8, <1>T DEF Compensate, Validate, ValidateFails, RejectApplication
<1>9. CASE SetManaged(r) \/ Dismantle(r) \/ UnwindPackage(r) \/ UnwindEnds(r)
  BY <1>9, <1>T DEF SetManaged, Dismantle, UnwindPackage, UnwindEnds
<1>10. CASE Settle(r)
  BY <1>10, <1>T DEF Settle
<1>11. CASE PersistDeployment(r)
  BY <1>11, <1>T DEF PersistDeployment
<1>12. CASE Release(r)
  <2>1. lock = [job |-> Job(r), pid |-> pid[At(r)]]
    BY <1>12 DEF Release, LockInv, GuardLock
  <2>2. lock' = NoLock /\ UNCHANGED <<spent, recon, pid>>
    BY <1>12, <2>1 DEF Release
  <2> QED
    BY <2>2
<1>13. CASE Abandon(r)
  BY <1>13 DEF Abandon
<1> QED
  BY <1>1, <1>2, <1>3, <1>4, <1>5, <1>6, <1>7, <1>8, <1>9, <1>10, <1>11, <1>12, <1>13
  DEF Step, Fault

\* A request's own step keeps the row owned.
LEMMA RowRequest ==
    ASSUME OneProcess, RowInv, NEW r \in Requests, RequestFrame(r), RowFrame(r)
    PROVE  OldLock' /\ RowWorked'
<1>1. /\ At(r) \in Procs /\ pid[At(r)] # NoPid /\ drops \in [Procs -> SUBSET Requests]
      /\ \A p \in Procs : p = At(r)
      /\ InFlight(r) /\ pid[At(r)] \in spent
  BY CallFacts DEF RowInv, LockInv, TypeInv, TypeOK, AliveBound, RequestFrame, OneProcess, OldLock
<1>2. /\ UNCHANGED <<spent, recon, pid, call>>
      /\ \A s \in Requests \ {r} : pc'[s] = pc[s]
  BY DEF RowFrame, RequestFrame
<1>3. CASE /\ pc[r] = "acquire" /\ lock = NoLock
           /\ lock' = [job |-> Job(r), pid |-> pid[At(r)]]
           /\ Guarded(pc'[r])
  <2>1. recon[At(r)] = "done"
    BY <1>1, <1>3 DEF RowInv, LockInv, ReconQuiet
  <2>2. lock'.pid = pid[At(r)]
    BY <1>3
  <2> QED
    BY <1>1, <1>2, <1>3, <2>1, <2>2 DEF RowInv, OldLock, RowWorked
<1>4. CASE /\ UNCHANGED <<lock, drops>>
           /\ Guarded(pc[r]) => Guarded(pc'[r])
  BY <1>2, <1>4 DEF RowInv, OldLock, RowWorked
<1>5. CASE UNCHANGED lock /\ DropGuard(r)
  <2>1. OldLock'
    BY <1>2, <1>5 DEF RowInv, OldLock
  <2>2. \A p \in Procs : drops'[p] = drops[p] \cup {Job(r)}
    BY <1>1, <1>5 DEF DropGuard
  <2>3. Guarded(pc[r]) => lock.job = Job(r)
    BY DEF RowInv, LockInv, GuardLock
  <2>4. RowWorked'
    BY <1>2, <1>5, <2>2, <2>3 DEF RowInv, RowWorked
  <2> QED
    BY <2>1, <2>4
<1>6. CASE lock' = NoLock
  BY <1>2, <1>6 DEF RowInv, OldLock, RowWorked
<1> QED
  BY <1>3, <1>4, <1>5, <1>6 DEF RowFrame

\* So does a step of the process: a row that ensure_reconciled finds is the
\* leaving of a dead process, and goes.
LEMMA RowProcess ==
    ASSUME OneProcess, ~PidReuse, RowInv, NEW p \in Procs, ProcessStep(p)
    PROVE  OldLock' /\ RowWorked' /\ (ReconcileRead(p) => recon'[p] = "mark")
<1> USE DEF hostVars, planVars, jobVars, bootVars, memVars
<1>T. /\ \A q \in Procs : q = p
      /\ pid \in [Procs -> Pids \cup {NoPid}]
      /\ recon \in [Procs -> {"no", "mark", "clear", "done"}]
      /\ drops \in [Procs -> SUBSET Requests]
      /\ lock \in Locks \cup {NoLock}
  BY DEF OneProcess, RowInv, LockInv, TypeInv, TypeOK
<1>L. lock # NoLock => lock.pid \in Pids
  BY <1>T DEF Locks
<1>R. ReconcileRead(p) => recon'[p] = "mark"
  BY <1>T DEF ReconcileRead, Alive, RowInv, OldLock
<1>1. ASSUME NEW i \in Pids, Start(p, i)
      PROVE  OldLock' /\ RowWorked'
  <2>1. /\ UNCHANGED <<lock, recon, drops, pc>> /\ i \notin spent
        /\ pid'[p] = i /\ spent' = spent \cup {i}
    BY <1>1, <1>T DEF Start
  <2> QED
    BY <1>T, <2>1 DEF RowInv, OldLock, RowWorked
<1>2. CASE ReconcileRead(p)
  <2>1. UNCHANGED <<lock, pid, spent>> /\ recon[p] = "no" /\ recon'[p] = "mark"
    BY <1>2, <1>R DEF ReconcileRead
  <2> QED
    BY <1>T, <1>R, <2>1 DEF RowInv, OldLock, RowWorked
<1>3. CASE ReconcileMark(p)
  <2>1. UNCHANGED <<lock, pid, spent>> /\ recon[p] = "mark" /\ recon'[p] = "clear"
    BY <1>3, <1>T DEF ReconcileMark
  <2> QED
    BY <1>T, <1>R, <2>1 DEF RowInv, OldLock, RowWorked
<1>4. CASE ReconcileClear(p)
  BY <1>4, <1>R DEF ReconcileClear, RowInv, OldLock, RowWorked
<1>5. CASE RunDrop(p)
  <2>1. lock' = NoLock /\ UNCHANGED <<pid, spent>>
    BY <1>5 DEF RunDrop, RowInv, LockInv, DropLock
  <2> QED
    BY <1>R, <2>1 DEF RowInv, OldLock, RowWorked
<1>6. CASE Exit(p)
  <2>1. UNCHANGED <<lock, spent>> /\ recon'[p] = "no" /\ pid'[p] = NoPid
    BY <1>6, <1>T DEF Exit
  <2> QED
    BY <1>T, <1>L, <1>R, <2>1, NullAssumption DEF RowInv, OldLock, RowWorked
<1> QED
  BY <1>R, <1>1, <1>2, <1>3, <1>4, <1>5, <1>6 DEF ProcessStep, Reconcile

\* RowInv is inductive for a steady panel.
LEMMA NextRow ==
    ASSUME Steady
    PROVE  RowInv /\ [Next]_vars => RowInv'
<1> SUFFICES ASSUME RowInv, [Next]_vars PROVE OldLock' /\ RowWorked'
  BY NextLock, NextName DEF RowInv, Steady
<1>0. TypeInv /\ LockInv /\ OneProcess /\ ~PidReuse
  BY DEF RowInv, LockInv, Steady
<1>1. ASSUME NEW r \in Requests, Step(r) \/ Fault(r)
      PROVE  OldLock' /\ RowWorked'
  BY <1>0, <1>1, StepFrames, FaultFrames, StepRow, RowRequest DEF Steady, RowInv, NameInv, Decided
<1>2. ASSUME NEW p \in Procs, ProcessStep(p)
      PROVE  OldLock' /\ RowWorked'
  BY <1>0, <1>2, RowProcess
<1>3. ASSUME UNCHANGED <<lock, pid, recon, spent, drops>>,
             \A r \in Requests : Guarded(pc[r]) => pc'[r] = pc[r]
      PROVE  OldLock' /\ RowWorked'
  BY <1>3 DEF RowInv, OldLock, RowWorked
<1>4. ASSUME NEW p \in Procs, NEW t \in Tokens, PreviewStep(p, t)
      PROVE  OldLock' /\ RowWorked'
  BY <1>0, <1>3, <1>4, PreviewDrafts DEF Draft, jobVars, bootVars
<1>5. ASSUME NEW t \in Tokens, IssueStep(t)
      PROVE  OldLock' /\ RowWorked'
  BY <1>3, <1>5 DEF IssueStep, PersistPlan, RememberPreview, jobVars, bootVars
<1>6. ASSUME NEW p \in Procs, ClientStep(p)
      PROVE  OldLock' /\ RowWorked'
  <2>1. UNCHANGED <<lock, pid, recon, spent, drops>>
    BY <1>6 DEF ClientStep, Submit, SubmitRollback, Cancel, jobVars, bootVars
  <2>2. \A r \in Requests : pc[r] # "idle" => pc'[r] = pc[r]
    BY <1>0, <1>6 DEF ClientStep, Submit, SubmitRollback, Cancel, Goto, TypeInv, TypeOK
  <2> QED
    BY <1>3, <2>1, <2>2 DEF Guarded, GuardPcs, QueuedPcs, MutatingPcs
<1>7. CASE EnvStep \/ UNCHANGED vars
  BY <1>3, <1>7 DEF EnvStep, Expire, OrphanEnds, vars, planVars, jobVars, bootVars
<1> QED
  BY <1>1, <1>2, <1>4, <1>5, <1>6, <1>7, NextCases

\* The lock row of a steady panel never outlives the transaction it was taken
\* for, but for the delete that a dropped guard has spawned; what a crash left
\* is gone when the next process has reconciled.
THEOREM SteadyLockOwned ==
    ASSUME Steady
    PROVE  Spec => []NoOrphanLock
<1>1. Init => RowInv
  <2> SUFFICES ASSUME Init PROVE RowInv
    OBVIOUS
  <2>1. LockInv /\ NameInv
    BY InitJob DEF JobInv
  <2> QED
    BY <2>1 DEF Init, RowInv, OldLock, RowWorked
<1>2. RowInv => NoOrphanLock
  <2> SUFFICES ASSUME RowInv, lock # NoLock, NEW p \in Procs, Ready(p)
               PROVE  \/ \E r \in Requests : InFlight(r) /\ Job(r) = lock.job
                      \/ \E q \in Procs : lock.job \in drops[q]
    BY DEF NoOrphanLock
  <2>1. \A r \in Requests : Guarded(pc[r]) => InFlight(r) /\ Job(r) = lock.job
    BY DEF RowInv, LockInv, GuardLock, Guarded, GuardPcs, QueuedPcs, MutatingPcs, InFlight, FinalPcs
  <2> QED
    BY <2>1 DEF RowInv, RowWorked, Ready
<1> QED
  BY <1>1, <1>2, NextRow, PTL DEF Spec

-----------------------------------------------------------------------------
(* An active job has a request that works on it.                           *)

\* Application plans are confirmed through execute_deployment only.
DeployedOnly == "application" \notin PlanKinds \/ Modes \subseteq {"deploy", "rollback"}

\* Plans and entry points are those in use.
InUse ==
    /\ \A t \in Tokens : preview[t] # NoPreview => preview[t].plan.kind \in PlanKinds
    /\ \A r \in Requests : pc[r] # "idle" => Mode(r) \in Modes

\* A rollback works on its job once it has reopened it.
WorkingPcs == GuardPcs \ {"reopen"}

Works(r, j) == pc[r] \in WorkingPcs /\ Job(r) = j

\* Once the jobs have been marked, an active one has a request.
JobWorked ==
    \A p \in Procs :
       recon[p] \in {"clear", "done"} =>
          \A j \in Requests :
             jobState[j] \in ActiveStates => \E r \in Requests : Works(r, j)

WorkInv == JobInv /\ RowInv /\ InUse /\ JobWorked

\* Plans are made of the kinds in use, and re-issued as they were.
LEMMA NextInUse ==
    ASSUME TypeInv, InUse, [Next]_vars
    PROVE  InUse'
<1>1. ASSUME UNCHANGED <<call, preview>>, \A r \in Requests : pc'[r] = "idle" <=> pc[r] = "idle"
      PROVE  InUse'
  BY <1>1 DEF InUse, Mode
<1>2. ASSUME NEW r \in Requests, Step(r) \/ Fault(r)
      PROVE  InUse'
  BY <1>1, <1>2, StepFrames, FaultFrames DEF RequestFrame
<1>3. ASSUME NEW p \in Procs, ProcessStep(p)
      PROVE  InUse'
  <2>1. UNCHANGED <<call, preview>>
    BY <1>3, ProcessFrame
  <2>2. \A r \in Requests : pc'[r] = "idle" <=> pc[r] = "idle"
    BY <1>3, ProcessFrame DEF InFlight
  <2> QED
    BY <1>1, <2>1, <2>2
<1>4. ASSUME NEW p \in Procs, NEW t \in Tokens, PreviewStep(p, t)
      PROVE  InUse'
  <2>1. \E plan : plan.kind \in PlanKinds /\ Draft(p, t, plan)
    <3>1. ASSUME NEW c \in Components, NEW a \in PlanKinds \cap ComponentActions,
                 PreviewComponent(p, t, c, a)
          PROVE  PlanFor(c, a).kind \in PlanKinds /\ Draft(p, t, PlanFor(c, a))
      BY <3>1 DEF PreviewComponent, PlanFor
    <3>2. CASE PreviewDeployment(p, t)
      BY <3>2 DEF PreviewDeployment
    <3>3. ASSUME NEW j \in Requests, RetryPreview(p, t, j)
          PROVE  Plan(j).kind \in PlanKinds /\ Draft(p, t, Plan(j))
      <4>1. Tok(j) \in Tokens /\ preview[Tok(j)] \in Previews
        BY <3>3, CallFacts DEF RetryPreview, TypeInv, JobsBound
      <4> QED
        BY <3>3, <4>1, NullAssumption DEF RetryPreview, InUse, Plan
    <3> QED
      BY <1>4, <3>1, <3>2, <3>3 DEF PreviewStep
  <2>2. PICK plan : plan.kind \in PlanKinds /\ Draft(p, t, plan)
    BY <2>1
  <2>3. /\ preview'[t].plan.kind \in PlanKinds
        /\ \A u \in Tokens \ {t} : preview'[u] = preview[u]
        /\ UNCHANGED <<pc, call>>
    BY <2>2 DEF Draft, TypeInv, TypeOK
  <2> QED
    BY <2>3 DEF InUse, Mode
<1>5. ASSUME NEW t \in Tokens, IssueStep(t)
      PROVE  InUse'
  BY <1>1, <1>5, IssueFrame
<1>6. ASSUME NEW p \in Procs, ClientStep(p)
      PROVE  InUse'
  <2>1. ASSUME NEW r \in Requests, preview' = preview, call'[r].mode \in Modes,
               \A s \in Requests \ {r} : pc'[s] = pc[s] /\ call'[s] = call[s]
        PROVE  InUse'
    BY <2>1 DEF InUse, Mode
  <2>2. ASSUME NEW r \in Requests, NEW m \in Modes \ {"rollback"}, NEW t \in Tokens,
               Submit(r, p, m, t)
        PROVE  InUse'
    BY <2>1, <2>2 DEF Submit, Goto, planVars, TypeInv, TypeOK
  <2>3. ASSUME NEW r \in Requests, NEW j \in Requests, SubmitRollback(r, p, j)
        PROVE  InUse'
    BY <2>1, <2>3 DEF SubmitRollback, Goto, planVars, TypeInv, TypeOK
  <2>4. ASSUME NEW j \in Requests, Cancel(p, j)
        PROVE  InUse'
    BY <1>1, <2>4 DEF Cancel, planVars
  <2> QED
    BY <1>6, <2>2, <2>3, <2>4 DEF ClientStep
<1>7. CASE EnvStep \/ UNCHANGED vars
  BY <1>1, <1>7 DEF EnvStep, Expire, OrphanEnds, vars, planVars
<1> QED
  BY <1>2, <1>3, <1>4, <1>5, <1>6, <1>7, NextCases

\* A request stops working on its job only with a terminal state recorded.
WorkFrame(r) ==
    \/ pc'[r] \in WorkingPcs
    \/ jobState'[Job(r)] \notin ActiveStates
    \/ pc[r] \notin WorkingPcs /\ jobState' = jobState

\* run_execute_job does not meet an application plan.
LEMMA NoStrayApplication ==
    ASSUME NameInv, InUse, DeployedOnly, NEW r \in Requests
    PROVE  ~RejectApplication(r)
<1> SUFFICES ASSUME RejectApplication(r) PROVE FALSE
  OBVIOUS
<1>1. pc[r] = "validate" /\ Kind(r) = "application" /\ Mode(r) # "deploy"
  BY DEF RejectApplication
<1>2. Mode(r) # "rollback"
  BY <1>1 DEF NameInv, Decided, DecidedAt, RollbackPcs, FinalPcs
<1>3. Mode(r) \in Modes
  BY <1>1 DEF InUse
<1>4. Tok(r) \in Tokens /\ preview[Tok(r)] \in Previews
  BY <1>1, CallFacts DEF NameInv
<1>5. Kind(r) \in PlanKinds
  BY <1>4, NullAssumption DEF InUse, Kind, Plan
<1> QED
  BY <1>1, <1>2, <1>3, <1>5 DEF DeployedOnly

\* Every step of a request that is not abandoned stays within WorkFrame.
LEMMA StepWork ==
    ASSUME NameInv, InUse, DeployedOnly, "abandon" \notin Faults,
           NEW r \in Requests, RecordAt(r), Step(r) \/ Fault(r)
    PROVE  WorkFrame(r)
<1> USE DEF Goto, hostVars, planVars, jobVars, bootVars, memVars
<1> USE DEF WorkFrame, WorkingPcs, GuardPcs, QueuedPcs, MutatingPcs
<1>T. /\ pc \in [Requests -> Pcs] /\ jobState \in [Requests -> JobStates] /\ DecidedAt(r)
  BY DEF NameInv, TypeInv, TypeOK, Decided
<1>J. Job(r) \in Requests
  BY StepFrames, FaultFrames, CallFacts DEF RequestFrame, NameInv
<1>1. CASE EnterMutex(r)
  BY <1>1, <1>T DEF EnterMutex, DecidedAt, RollbackPcs, FinalPcs
<1>2. CASE TakeMemory(r) \/ SelectRow(r) \/ ConsumeRow(r) \/ CheckHost(r)
  BY <1>2, <1>T DEF Refuse, TakeMemory, SelectRow, ConsumeRow, CheckHost
<1>3. CASE AcquireLock(r)
  BY <1>3, <1>T DEF Refuse, AcquireLock
<1>4. CASE PushQueued(r) \/ Begin(r) \/ Reopen(r)
  BY <1>4, <1>T DEF PushQueued, Begin, Reopen
<1>5. CASE ApplyPackage(r) \/ ApplyFails(r)
  BY <1>5, <1>T DEF Compensate, ApplyPackage, ApplyFails
<1>6. CASE Checkpoint(r)
  BY <1>6, <1>T DEF Compensate, Checkpoint
<1>7. CASE Provision(r) \/ ProvisionFails(r)
  BY <1>7, <1>T DEF Compensate, Provision, ProvisionFails
<1>8. CASE Validate(r) \/ ValidateFails(r)
  BY <1>8, <1>T DEF Compensate, Validate, ValidateFails
<1>9. CASE RejectApplication(r)
  BY <1>9, NoStrayApplication
<1>10. CASE SetManaged(r) \/ Dismantle(r) \/ UnwindPackage(r) \/ UnwindEnds(r)
  BY <1>10, <1>T DEF SetManaged, Dismantle, UnwindPackage, UnwindEnds
<1>11. CASE Settle(r)
  <2>1. out[r] \in {"succeeded", "failed", "cancelled", "rolled_back"}
    BY <1>11, <1>T DEF Settle, DecidedAt, DecidedPcs, OutcomesOf
  <2>2. jobState'[Job(r)] = out[r]
    BY <1>11, <1>T, <1>J DEF Settle, PushJob
  <2> QED
    BY <2>1, <2>2 DEF ActiveStates
<1>12. CASE PersistDeployment(r)
  <2>1. Mode(r) # "rollback" /\ InFlight(r)
    BY <1>12, <1>T DEF PersistDeployment, DecidedAt, RollbackPcs, FinalPcs, InFlight
  <2>2. jobState'[Job(r)] = "succeeded"
    BY <1>12, <2>1 DEF PersistDeployment, RecordAt, Standing, ExecutionStates
  <2> QED
    BY <2>2 DEF ActiveStates
<1>13. CASE Release(r)
  BY <1>13, <1>T DEF Release
<1>14. CASE Abandon(r)
  BY <1>14 DEF Abandon
<1> QED
  BY <1>1, <1>2, <1>3, <1>4, <1>5, <1>6, <1>7, <1>8, <1>9, <1>10, <1>11, <1>12, <1>13, <1>14
  DEF Step, Fault

\* WorkInv is inductive for a steady panel that deploys its applications.
LEMMA NextWork ==
    ASSUME Steady, DeployedOnly
    PROVE  WorkInv /\ [Next]_vars => WorkInv'
<1> SUFFICES ASSUME WorkInv, [Next]_vars PROVE JobWorked'
  BY NextJob, NextRow, NextInUse DEF WorkInv, Steady, JobInv, NameInv
<1>0. TypeInv /\ NameInv /\ InUse /\ OneProcess /\ ~PidReuse /\ RowInv
  BY DEF WorkInv, JobInv, NameInv, Steady
<1>1. ASSUME NEW r \in Requests, Step(r) \/ Fault(r)
      PROVE  JobWorked'
  <2>1. RequestFrame(r) /\ WorkFrame(r) /\ recon' = recon
    BY <1>0, <1>1, StepFrames, FaultFrames, StepWork, StepLock, FaultLock
    DEF Steady, WorkInv, JobInv, Recorded, ReconFrame
  <2>2. \A s \in Requests \ {r} : \A j \in Requests : Works(s, j) => Works(s, j)'
    BY <2>1 DEF RequestFrame, Works, Job
  <2>3. \A j \in Requests : Works(r, j) => j = Job(r)
    BY DEF Works
  <2>4. Job(r) \in Requests /\ Job(r)' = Job(r)
    BY <1>0, <2>1, CallFacts DEF RequestFrame, Job
  <2>5. \A j \in Requests \ {Job(r)} : jobState'[j] = jobState[j]
    BY <2>1 DEF RequestFrame
  <2>6. ASSUME NEW p \in Procs, recon[p] \in {"clear", "done"}, NEW j \in Requests,
               jobState'[j] \in ActiveStates
        PROVE  \E s \in Requests : Works(s, j)'
    <3>1. CASE j # Job(r)
      <4>1. jobState[j] \in ActiveStates
        BY <2>5, <2>6, <3>1
      <4>2. PICK s \in Requests : Works(s, j)
        BY <2>6, <4>1 DEF WorkInv, JobWorked
      <4> QED
        BY <2>2, <2>3, <3>1, <4>2
    <3>2. CASE j = Job(r) /\ pc'[r] \in WorkingPcs
      BY <2>4, <3>2 DEF Works
    <3>3. CASE j = Job(r) /\ pc[r] \notin WorkingPcs /\ jobState' = jobState
      <4>1. PICK s \in Requests : Works(s, j)
        BY <2>6, <3>3 DEF WorkInv, JobWorked
      <4> QED
        BY <2>2, <3>3, <4>1 DEF Works
    <3> QED
      BY <2>1, <2>6, <3>1, <3>2, <3>3 DEF WorkFrame
  <2> QED
    BY <2>1, <2>6 DEF JobWorked
<1>2. ASSUME UNCHANGED jobState,
             \A p \in Procs : recon'[p] \in {"clear", "done"} => recon[p] \in {"clear", "done"},
             \A r \in Requests : pc[r] # "idle" => pc'[r] = pc[r] /\ call'[r] = call[r]
      PROVE  JobWorked'
  <2>1. \A r, j \in Requests : Works(r, j) => Works(r, j)'
    BY <1>2 DEF Works, Job, WorkingPcs, GuardPcs, QueuedPcs, MutatingPcs
  <2> QED
    BY <1>2, <2>1 DEF WorkInv, JobWorked
<1>3. ASSUME NEW p \in Procs, ProcessStep(p)
      PROVE  JobWorked'
  <2>T. /\ \A q \in Procs : q = p
        /\ recon \in [Procs -> {"no", "mark", "clear", "done"}]
    BY <1>0 DEF OneProcess, TypeInv, TypeOK
  <2>1. CASE (\E i \in Pids : Start(p, i)) \/ RunDrop(p)
    BY <1>2, <2>1 DEF Start, RunDrop, jobVars, bootVars
  <2>2. CASE ReconcileRead(p)
    <3>1. recon'[p] = "mark"
      BY <1>0, <1>3, <2>2, RowProcess
    <3> QED
      BY <2>T, <3>1 DEF JobWorked
  <2>3. CASE ReconcileMark(p)
    <3>1. \A j \in Requests : jobState'[j] \notin ActiveStates
      BY <2>3 DEF ReconcileMark, ActiveStates
    <3> QED
      BY <3>1 DEF JobWorked
  <2>4. CASE ReconcileClear(p)
    BY <1>2, <2>T, <2>4 DEF ReconcileClear
  <2>5. CASE Exit(p)
    <3>1. recon'[p] = "no"
      BY <2>5, <2>T DEF Exit
    <3> QED
      BY <2>T, <3>1 DEF JobWorked
  <2> QED
    BY <1>3, <2>1, <2>2, <2>3, <2>4, <2>5 DEF ProcessStep, Reconcile
<1>4. ASSUME NEW p \in Procs, NEW t \in Tokens, PreviewStep(p, t)
      PROVE  JobWorked'
  BY <1>0, <1>2, <1>4, PreviewDrafts DEF Draft, jobVars, bootVars
<1>5. ASSUME NEW t \in Tokens, IssueStep(t)
      PROVE  JobWorked'
  BY <1>0, <1>2, <1>5, IssueFrame
<1>6. ASSUME NEW p \in Procs, ClientStep(p)
      PROVE  JobWorked'
  <2>1. UNCHANGED <<jobState, recon>>
    BY <1>6 DEF ClientStep, Submit, SubmitRollback, Cancel, jobVars, bootVars
  <2>2. \A r \in Requests : pc[r] # "idle" => pc'[r] = pc[r] /\ call'[r] = call[r]
    BY <1>0, <1>6
    DEF ClientStep, Submit, SubmitRollback, Cancel, Goto, TypeInv, TypeOK
  <2> QED
    BY <1>2, <2>1, <2>2
<1>7. CASE EnvStep \/ UNCHANGED vars
  BY <1>2, <1>7, EnvFrame
<1> QED
  BY <1>1, <1>3, <1>4, <1>5, <1>6, <1>7, NextCases

\* WorkInv holds of the empty database.
LEMMA InitWork == Init => WorkInv
<1> SUFFICES ASSUME Init PROVE WorkInv
  OBVIOUS
<1>1. JobInv
  BY InitJob
<1>2. RowInv
  BY <1>1 DEF Init, JobInv, RowInv, OldLock, RowWorked
<1>3. InUse /\ JobWorked
  BY DEF Init, InUse, JobWorked
<1> QED
  BY <1>1, <1>2, <1>3 DEF WorkInv

\* A steady panel that has reconciled shows no job as queued, running,
\* validating or rolling back that no request works on, whatever crashed before.
THEOREM SteadyJobsWorked ==
    ASSUME Steady, DeployedOnly
    PROVE  Spec => []ActiveHasWorker
<1>1. WorkInv => ActiveHasWorker
  BY DEF WorkInv, JobWorked, ActiveHasWorker, Ready, Works, WorkingPcs, InFlight, GuardPcs,
         QueuedPcs, MutatingPcs, FinalPcs
<1> QED
  BY <1>1, InitWork, NextWork, PTL DEF Spec

-----------------------------------------------------------------------------
(* A single panel process implements PackageTransactions.                  *)

\* What Holder names.
HolderFacts ==
    /\ (\A r \in Requests : pc[r] \notin ChangingPcs) => Holder = NoReq
    /\ \A r \in Requests : pc[r] \in ChangingPcs => Holder = Job(r)

\* The sole guard is the holder.
LEMMA HolderNamed == LockInv => HolderFacts
<1> SUFFICES ASSUME LockInv PROVE HolderFacts
  OBVIOUS
<1>1. \A r, s \in Requests : pc[r] \in ChangingPcs /\ pc[s] \in ChangingPcs => r = s
  BY DEF LockInv, SoleGuard, ChangingPcs, Guarded, GuardPcs
<1>2. ASSUME NEW r \in Requests, pc[r] \in ChangingPcs
      PROVE  Holder = Job(r)
  <2>1. (CHOOSE s \in Requests : pc[s] \in ChangingPcs) = r
    BY <1>1, <1>2
  <2> QED
    BY <1>2, <2>1 DEF Holder
<1> QED
  BY <1>2 DEF HolderFacts, Holder

\* The state in which a job is recorded, as the abstract service sees it.
StatusOf(x) ==
    CASE x \in {"none", "queued"}       -> "new"
      [] x \in ActiveStates \ {"queued"} -> "running"
      [] OTHER                           -> x

\* Status is StatusOf of every record.
LEMMA StatusNamed ==
    /\ Status = [j \in Requests |-> StatusOf(jobState[j])]
    /\ Status' = [j \in Requests |-> StatusOf(jobState'[j])]
  BY DEF Status, StatusOf

\* What each record means.
LEMMA StatusValues ==
    /\ \A x \in {"none", "queued"} : StatusOf(x) = "new"
    /\ \A x \in {"running", "validating", "rolling_back"} : StatusOf(x) = "running"
    /\ \A x \in TerminalStates : StatusOf(x) = x
    /\ \A x \in JobStates : StatusOf(x) = "running" <=> x \in {"running", "validating", "rolling_back"}
  BY DEF StatusOf, ActiveStates, TerminalStates, JobStates

\* What a request's own step is to the abstract service.
Unseen(r) ==
    /\ pc[r] \in ChangingPcs <=> pc'[r] \in ChangingPcs
    /\ StatusOf(jobState'[Job(r)]) = StatusOf(jobState[Job(r)])

Starts(r) ==
    /\ pc[r] \in {"begin", "reopen"} /\ pc'[r] \in ChangingPcs
    /\ StatusOf(jobState'[Job(r)]) = "running"
    /\ StatusOf(jobState[Job(r)]) \in {"new", "interrupted", "rolled_back", "failed"}

Ends(r) ==
    /\ pc[r] \in ChangingPcs /\ pc'[r] \notin ChangingPcs
    /\ StatusOf(jobState'[Job(r)]) \in {"succeeded", "failed", "cancelled", "rolled_back"}

\* An active job is not reopened: nobody else could be working on it.
LEMMA ReopenSettled ==
    ASSUME WorkInv, NEW r \in Requests, pc[r] = "reopen"
    PROVE  jobState[Job(r)] \in {"interrupted", "rolled_back", "failed"}
<1>1. InFlight(r) /\ Mode(r) = "rollback" /\ At(r) \in Procs /\ Job(r) \in Requests /\ Guarded(pc[r])
  BY CallFacts
  DEF WorkInv, JobInv, NameInv, Decided, DecidedAt, InFlight, FinalPcs, Guarded, GuardPcs, QueuedPcs
<1>2. jobState[Job(r)] \in RollbackStates
  BY <1>1 DEF WorkInv, JobInv, Recorded, RecordAt, Standing, ReopenedStates
<1>3. recon[At(r)] = "done"
  BY <1>1 DEF WorkInv, JobInv, LockInv, ReconQuiet
<1>4. jobState[Job(r)] # "rolling_back"
  <2> SUFFICES ASSUME jobState[Job(r)] = "rolling_back" PROVE FALSE
    OBVIOUS
  <2>1. PICK s \in Requests : Works(s, Job(r))
    BY <1>1, <1>3 DEF WorkInv, JobWorked, ActiveStates
  <2>2. s = r
    BY <1>1, <2>1 DEF WorkInv, JobInv, LockInv, SoleGuard, Works, WorkingPcs, Guarded
  <2> QED
    BY <2>1, <2>2 DEF Works, WorkingPcs
<1> QED
  BY <1>2, <1>4 DEF RollbackStates

\* Every step of a request is unseen, a start or an end.
LEMMA StepAbstract ==
    ASSUME WorkInv, DeployedOnly, "abandon" \notin Faults, NEW r \in Requests, Step(r) \/ Fault(r)
    PROVE  Unseen(r) \/ Starts(r) \/ Ends(r)
<1> USE DEF Goto, hostVars, planVars, jobVars, bootVars, memVars
<1>T. /\ pc \in [Requests -> Pcs] /\ jobState \in [Requests -> JobStates]
      /\ DecidedAt(r) /\ RecordAt(r) /\ NameInv /\ InUse
  BY DEF WorkInv, JobInv, Recorded, NameInv, TypeInv, TypeOK, Decided
<1>J. Job(r) \in Requests /\ InFlight(r) /\ pc[r] # "idle"
  BY <1>T, StepFrames, FaultFrames, CallFacts DEF RequestFrame, NameInv
<1>S. jobState[Job(r)] \in Standing(pc[r], Mode(r))
  BY <1>T, <1>J DEF RecordAt
<1>R. Mode(r) = "rollback" => pc[r] \in RollbackPcs
  BY <1>T, <1>J DEF DecidedAt
<1> USE DEF ChangingPcs, MutatingPcs
<1>1. CASE EnterMutex(r)
  BY <1>1, <1>T, <1>R DEF EnterMutex, Unseen, RollbackPcs, FinalPcs
<1>2. CASE TakeMemory(r) \/ SelectRow(r) \/ ConsumeRow(r) \/ CheckHost(r)
  BY <1>2, <1>T DEF Refuse, TakeMemory, SelectRow, ConsumeRow, CheckHost, Unseen
<1>3. CASE AcquireLock(r)
  BY <1>3, <1>T DEF Refuse, AcquireLock, Unseen
<1>4. CASE PushQueued(r)
  <2>1. jobState[Job(r)] = "none"
    BY <1>4, <1>S, <1>R DEF PushQueued, Standing, ExecutionStates, RollbackPcs, FinalPcs
  <2>2. jobState'[Job(r)] = "queued" /\ pc[r] = "queue" /\ pc'[r] = "wait"
    BY <1>4, <1>T, <1>J DEF PushQueued, PushJob
  <2> QED
    BY <2>1, <2>2, StatusValues DEF Unseen
<1>5. CASE Begin(r)
  <2>1. jobState[Job(r)] \in {"none", "queued"}
    BY <1>5, <1>S, <1>R DEF Begin, Standing, ExecutionStates, RollbackPcs, FinalPcs
  <2>2. jobState'[Job(r)] = "running" /\ pc[r] = "begin" /\ pc'[r] = "apply"
    BY <1>5, <1>T, <1>J DEF Begin, PushJob
  <2> QED
    BY <2>1, <2>2, StatusValues DEF Starts
<1>6. CASE Reopen(r)
  <2>1. jobState[Job(r)] \in {"interrupted", "rolled_back", "failed"}
    BY <1>6, ReopenSettled DEF Reopen
  <2>2. jobState'[Job(r)] = "rolling_back" /\ pc[r] = "reopen" /\ pc'[r] = "unwind"
    BY <1>6, <1>T, <1>J DEF Reopen, PushJob
  <2> QED
    BY <2>1, <2>2, StatusValues DEF Starts, TerminalStates
<1>7. CASE ApplyPackage(r) \/ ApplyFails(r)
  BY <1>7, <1>T DEF Compensate, ApplyPackage, ApplyFails, Unseen
<1>8. CASE Checkpoint(r)
  <2>1. jobState[Job(r)] \in {"running", "validating"}
    BY <1>8, <1>S, <1>R DEF Checkpoint, Standing, ExecutionStates, RollbackPcs, FinalPcs
  <2>2. jobState'[Job(r)] \in {"running", "validating"}
    BY <1>8, <1>T, <1>J, <2>1 DEF Checkpoint, PushJob
  <2>3. pc[r] \in {"apply", "checkpoint"}
        /\ pc'[r] \in {"dismantle", "unwind", "provision", "validate"}
    BY <1>8, <1>T DEF Checkpoint, Compensate
  <2> QED
    BY <2>1, <2>2, <2>3, StatusValues DEF Unseen
<1>9. CASE Provision(r) \/ ProvisionFails(r)
  BY <1>9, <1>T DEF Compensate, Provision, ProvisionFails, Unseen
<1>10. CASE Validate(r) \/ ValidateFails(r)
  BY <1>10, <1>T DEF Compensate, Validate, ValidateFails, Unseen
<1>11. CASE RejectApplication(r)
  BY <1>11, <1>T, NoStrayApplication
<1>12. CASE SetManaged(r) \/ Dismantle(r) \/ UnwindPackage(r) \/ UnwindEnds(r)
  BY <1>12, <1>T DEF SetManaged, Dismantle, UnwindPackage, UnwindEnds, Unseen
<1>13. CASE Settle(r)
  <2>1. out[r] \in {"succeeded", "failed", "cancelled", "rolled_back"}
    BY <1>13, <1>T DEF Settle, DecidedAt, DecidedPcs, OutcomesOf
  <2>2. jobState'[Job(r)] = out[r] /\ pc[r] = "settle" /\ pc'[r] \in {"ended", "persist", "release"}
    BY <1>13, <1>T, <1>J DEF Settle, PushJob
  <2> QED
    BY <2>1, <2>2, StatusValues DEF Ends, TerminalStates
<1>14. CASE PersistDeployment(r) \/ Release(r)
  BY <1>14, <1>T DEF PersistDeployment, Release, Unseen
<1>15. CASE Abandon(r)
  BY <1>15 DEF Abandon
<1> QED
  BY <1>1, <1>2, <1>3, <1>4, <1>5, <1>6, <1>7, <1>8, <1>9, <1>10, <1>11, <1>12, <1>13, <1>14,
     <1>15 DEF Step, Fault

\* A request's own step is a step of the abstract service, or a stutter.
LEMMA RequestRefines ==
    ASSUME WorkInv, HolderFacts, HolderFacts', NEW r \in Requests, RequestFrame(r),
           Unseen(r) \/ Starts(r) \/ Ends(r)
    PROVE  Abstract!Next \/ UNCHANGED <<Holder, Status>>
<1> DEFINE j == Job(r)
<1>1. /\ j \in Requests /\ pc[r] # "idle" /\ InFlight(r) /\ At(r) \in Procs
      /\ \A s \in Requests : Job(s)' = Job(s)
      /\ \A s \in Requests \ {r} : pc'[s] = pc[s]
      /\ \A k \in Requests \ {j} : jobState'[k] = jobState[k]
  BY CallFacts DEF RequestFrame, WorkInv, JobInv, NameInv, Job
<1>2. /\ Status = [k \in Requests |-> StatusOf(jobState[k])]
      /\ Status' = [Status EXCEPT ![j] = StatusOf(jobState'[j])]
  <2>1. Status' = [k \in Requests |-> StatusOf(jobState'[k])]
    BY StatusNamed
  <2>2. Status = [k \in Requests |-> StatusOf(jobState[k])]
    BY StatusNamed
  <2>3. \A k \in Requests \ {j} : Status'[k] = Status[k]
    BY <1>1, <2>1, <2>2
  <2> QED
    BY <2>1, <2>2, <2>3
<1>3. CASE Unseen(r)
  <2>1. Status' = Status
    BY <1>1, <1>2, <1>3 DEF Unseen
  <2>2. \A s \in Requests : pc'[s] \in ChangingPcs <=> pc[s] \in ChangingPcs
    BY <1>1, <1>3 DEF Unseen
  <2>3. Holder' = Holder
    BY <1>1, <2>2 DEF HolderFacts
  <2> QED
    BY <2>1, <2>3
<1>4. CASE Starts(r)
  <2>1. Guarded(pc[r]) /\ recon[At(r)] = "done" /\ pc[r] \notin ChangingPcs
    BY <1>1, <1>4
    DEF Starts, Guarded, GuardPcs, QueuedPcs, ChangingPcs, MutatingPcs, WorkInv, JobInv, LockInv,
        ReconQuiet
  <2>2. \A s \in Requests : Guarded(pc[s]) => s = r
    BY <2>1 DEF WorkInv, JobInv, LockInv, SoleGuard
  <2>3. Holder = NoReq
    BY <2>1, <2>2 DEF HolderFacts, ChangingPcs, Guarded, GuardPcs
  <2>4. Holder' = j
    BY <1>1, <1>4 DEF HolderFacts, Starts
  <2>5. \A k \in Requests : Status[k] # "running"
    <3> SUFFICES ASSUME NEW k \in Requests, StatusOf(jobState[k]) = "running"
                 PROVE  FALSE
      BY <1>2
    <3>1. jobState[k] \in ActiveStates
      BY StatusValues DEF WorkInv, JobInv, NameInv, TypeInv, TypeOK, ActiveStates
    <3>2. PICK s \in Requests : Works(s, k)
      BY <1>1, <2>1, <3>1 DEF WorkInv, JobWorked
    <3>3. s = r
      BY <2>2, <3>2 DEF Works, WorkingPcs, Guarded
    <3> QED
      BY <1>4, <3>2, <3>3 DEF Works, Starts
  <2>6. Status' = [Status EXCEPT ![j] = "running"]
        /\ Status[j] \in {"new", "interrupted", "rolled_back", "failed"}
    BY <1>1, <1>2, <1>4 DEF Starts
  <2> HIDE DEF j
  <2>7. Abstract!Begin(j) \/ Abstract!Reopen(j)
    BY <2>3, <2>4, <2>5, <2>6 DEF Abstract!Begin, Abstract!Reopen
  <2> QED
    BY <1>1, <2>7 DEF Abstract!Next
<1>5. CASE Ends(r)
  <2>1. Holder = j
    BY <1>5 DEF HolderFacts, Ends
  <2>2. \A s \in Requests : pc'[s] \notin ChangingPcs
    BY <1>1, <1>5
    DEF Ends, WorkInv, JobInv, LockInv, SoleGuard, Guarded, GuardPcs, ChangingPcs
  <2>3. Holder' = NoReq
    BY <2>2 DEF HolderFacts
  <2>4. PICK o \in Abstract!Outcomes : Status' = [Status EXCEPT ![j] = o]
    BY <1>2, <1>5 DEF Ends, Abstract!Outcomes
  <2> HIDE DEF j
  <2>5. Abstract!Finish(j, o)
    BY <2>1, <2>3, <2>4 DEF Abstract!Finish
  <2> QED
    BY <1>1, <2>5 DEF Abstract!Next
<1> QED
  BY <1>3, <1>4, <1>5

\* So is a step of the process: its death, or the marking of abandoned jobs.
LEMMA ProcessRefines ==
    ASSUME OneProcess, WorkInv, HolderFacts, HolderFacts', NEW p \in Procs, ProcessStep(p)
    PROVE  Abstract!Next \/ UNCHANGED <<Holder, Status>>
<1>0. TypeInv /\ LockInv /\ jobState \in [Requests -> JobStates]
  BY DEF WorkInv, JobInv, NameInv, TypeInv, TypeOK
<1>A. \A r \in Requests : InFlight(r) => At(r) = p
  BY <1>0, CallFacts DEF OneProcess, InFlight
<1>B. \A l \in ChangingPcs : Guarded(l) /\ l \notin FinalPcs \cup {"idle"}
  BY DEF ChangingPcs, MutatingPcs, Guarded, GuardPcs, FinalPcs
<1>C. call' = call
  BY <1>0, ProcessFrame
<1>1. ASSUME UNCHANGED <<pc, jobState>>
      PROVE  UNCHANGED <<Holder, Status>>
  <2>1. \A s \in Requests : Job(s)' = Job(s)
    BY <1>C DEF Job
  <2> QED
    BY <1>1, <2>1 DEF HolderFacts, Status
<1>2. CASE (\E i \in Pids : Start(p, i)) \/ RunDrop(p) \/ ReconcileRead(p) \/ ReconcileClear(p)
  <2>1. UNCHANGED <<pc, jobState>>
    BY <1>2 DEF Start, RunDrop, ReconcileRead, ReconcileClear, jobVars
  <2> QED
    BY <1>1, <2>1
<1>3. CASE Exit(p)
  <2>1. \A r \in Requests : pc'[r] \notin ChangingPcs
    BY <1>A, <1>B, <1>3 DEF Exit, InFlight, FinalPcs
  <2>2. Holder' = NoReq /\ Status' = Status
    BY <1>3, <2>1 DEF HolderFacts, Status, Exit, jobVars
  <2> QED
    BY <2>2 DEF Abstract!Next, Abstract!Die
<1>4. CASE ReconcileMark(p)
  <2>1. recon[p] = "mark" /\ pc' = pc
    BY <1>4 DEF ReconcileMark
  <2>2. \A r \in Requests : pc[r] \notin ChangingPcs
    BY <1>0, <1>A, <1>B, <2>1
    DEF LockInv, ReconQuiet, InFlight, ChangingPcs, MutatingPcs
  <2>3. Holder = NoReq /\ Holder' = NoReq
    BY <2>1, <2>2 DEF HolderFacts
  <2> DEFINE S == {j \in Requests : jobState[j] \in ActiveStates}
  <2>4. /\ Status = [j \in Requests |-> StatusOf(jobState[j])]
        /\ Status' = [j \in Requests |-> StatusOf(jobState'[j])]
    BY StatusNamed
  <2>5. \A j \in S : Status[j] \in {"new", "running"}
    BY <2>4, StatusValues DEF ActiveStates
  <2>6. \A j \in Requests \ S : Status[j] # "running"
    BY <1>0, <2>4, StatusValues DEF ActiveStates
  <2>7. \A j \in Requests : Status'[j] = IF j \in S THEN "interrupted" ELSE Status[j]
    BY <1>4, <2>4, StatusValues DEF ReconcileMark, TerminalStates
  <2>8. Status' = [j \in Requests |-> IF j \in S THEN "interrupted" ELSE Status[j]]
    BY <2>4, <2>7
  <2>9. S \in SUBSET Requests
    OBVIOUS
  <2> HIDE DEF S
  <2>10. Abstract!Reconcile(S)
    BY <2>3, <2>5, <2>6, <2>8 DEF Abstract!Reconcile
  <2> QED
    BY <2>9, <2>10 DEF Abstract!Next
<1> QED
  BY <1>2, <1>3, <1>4 DEF ProcessStep, Reconcile

\* Every step of a steady panel is a step of the abstract service or a stutter.
LEMMA NextRefines ==
    ASSUME Steady, DeployedOnly, WorkInv, HolderFacts, HolderFacts', [Next]_vars
    PROVE  [Abstract!Next]_<<Holder, Status>>
<1>0. TypeInv /\ OneProcess /\ "abandon" \notin Faults
  BY DEF WorkInv, JobInv, NameInv, Steady
<1>1. ASSUME NEW r \in Requests, Step(r) \/ Fault(r)
      PROVE  Abstract!Next \/ UNCHANGED <<Holder, Status>>
  BY <1>0, <1>1, StepFrames, FaultFrames, StepAbstract, RequestRefines
<1>2. ASSUME NEW p \in Procs, ProcessStep(p)
      PROVE  Abstract!Next \/ UNCHANGED <<Holder, Status>>
  BY <1>0, <1>2, ProcessRefines
<1>3. ASSUME UNCHANGED jobState,
             \A r \in Requests : \/ pc'[r] = pc[r] /\ call'[r] = call[r]
                                 \/ pc[r] = "idle" /\ pc'[r] \in {"enter", "take"}
      PROVE  UNCHANGED <<Holder, Status>>
  <2>1. \A r \in Requests : pc'[r] \in ChangingPcs <=> pc[r] \in ChangingPcs
    BY <1>3 DEF ChangingPcs, MutatingPcs
  <2>2. \A r \in Requests : pc[r] \in ChangingPcs => Job(r)' = Job(r)
    BY <1>3 DEF ChangingPcs, MutatingPcs, Job
  <2> QED
    BY <1>3, <2>1, <2>2 DEF HolderFacts, Status
<1>4. ASSUME NEW p \in Procs, NEW t \in Tokens, PreviewStep(p, t)
      PROVE  UNCHANGED <<Holder, Status>>
  BY <1>0, <1>3, <1>4, PreviewDrafts DEF Draft, jobVars
<1>5. ASSUME NEW t \in Tokens, IssueStep(t)
      PROVE  UNCHANGED <<Holder, Status>>
  BY <1>0, <1>3, <1>5, IssueFrame
<1>6. ASSUME NEW p \in Procs, ClientStep(p)
      PROVE  UNCHANGED <<Holder, Status>>
  <2>1. jobState' = jobState
    BY <1>6 DEF ClientStep, Submit, SubmitRollback, Cancel, jobVars
  <2>2. \A r \in Requests : \/ pc'[r] = pc[r] /\ call'[r] = call[r]
                            \/ pc[r] = "idle" /\ pc'[r] \in {"enter", "take"}
    BY <1>0, <1>6 DEF ClientStep, Submit, SubmitRollback, Cancel, Goto, TypeInv, TypeOK
  <2> QED
    BY <1>3, <2>1, <2>2
<1>7. CASE EnvStep \/ UNCHANGED vars
  BY <1>3, <1>7, EnvFrame
<1> QED
  BY <1>1, <1>2, <1>4, <1>5, <1>6, <1>7, NextCases

\* A steady panel, with any number of requests, tokens, packages and crashes,
\* implements the abstract transaction service: package transactions are one at
\* a time and run once, none begins while an abandoned one is still recorded as
\* running, and only what an interruption left is taken up again.
THEOREM SteadyImplements ==
    ASSUME Steady, DeployedOnly
    PROVE  Spec => ImplementsTransactions
<1>1. Init => Abstract!Init
  <2> SUFFICES ASSUME Init PROVE Holder = NoReq /\ Status = [j \in Requests |-> "new"]
    BY DEF Abstract!Init
  <2>1. Holder = NoReq
    BY DEF Init, Holder, ChangingPcs, MutatingPcs
  <2>2. \A j \in Requests : StatusOf(jobState[j]) = "new"
    BY StatusValues DEF Init
  <2> QED
    BY <2>1, <2>2, StatusNamed
<1>2. Spec => []WorkInv
  BY InitWork, NextWork, PTL DEF Spec
<1>3. WorkInv => HolderFacts
  BY HolderNamed DEF WorkInv, JobInv
<1>4. WorkInv /\ HolderFacts /\ HolderFacts' /\ [Next]_vars => [Abstract!Next]_<<Holder, Status>>
  BY NextRefines
<1> QED
  BY <1>1, <1>2, <1>3, <1>4, PTL DEF Spec, ImplementsTransactions, Abstract!Spec
=============================================================================
