---------------------- MODULE SoftwareCenterHostProofs ----------------------
(***************************************************************************)
(* Theorems about what package transactions do to the host and to the      *)
(* applications, for every number of requests, tokens and packages.        *)
(***************************************************************************)
EXTENDS SoftwareCenterJobsProofs

-----------------------------------------------------------------------------
(* The host a transaction starts on.                                       *)

\* One panel process, no background execution (start_execute checks the host
\* before it waits for the mutex), no apt-get that outlives its request.
Undisturbed == OneProcess /\ "start" \notin Modes /\ "orphan" \notin Faults

\* Between the comparison of the digests and the first apt-get, the host is the
\* one of the preview.
FreshAt(r) ==
    /\ pc[r] # "idle" => Mode(r) # "start"
    /\ pc[r] \notin {"queue", "wait"}
    /\ pc[r] = "begin" => Mode(r) # "rollback"
    /\ pc[r] \in {"acquire", "begin"} /\ Mode(r) # "rollback" => Listing(host) = preview[Tok(r)].digest

FreshInv == MutexInv /\ orphans = {} /\ \A r \in Requests : FreshAt(r)

\* Only a request that drives packages changes the host.
LEMMA StepHost ==
    ASSUME "orphan" \notin Faults, NEW r \in Requests, Step(r) \/ Fault(r)
    PROVE  /\ host' = host \/ pc[r] \in {"apply", "unwind"}
           /\ orphans' = orphans
<1> USE DEF hostVars
<1>1. CASE Step(r)
  BY <1>1
  DEF Step, EnterMutex, Refuse, TakeMemory, SelectRow, ConsumeRow, CheckHost,
      AcquireLock, PushQueued, Begin, ApplyPackage, Checkpoint, Provision,
      Validate, RejectApplication, SetManaged, Dismantle, UnwindPackage,
      UnwindEnds, Reopen, Settle, PersistDeployment, Release
<1>2. CASE ApplyFails(r) \/ ProvisionFails(r) \/ ValidateFails(r)
  BY <1>2 DEF ApplyFails, ProvisionFails, ValidateFails
<1>3. CASE Abandon(r)
  BY <1>3 DEF Abandon, Touching, Interrupted
<1> QED
  BY <1>1, <1>2, <1>3 DEF Fault

\* A request's own step keeps its FreshAt.
LEMMA StepFresh ==
    ASSUME TypeInv, NEW r \in Requests, FreshAt(r), Step(r) \/ Fault(r)
    PROVE  FreshAt(r)'
<1> USE DEF Goto, hostVars, planVars, FreshAt, Mode, Tok
<1>T. pc \in [Requests -> Pcs]
  BY DEF TypeInv, TypeOK
<1>0. pc[r] # "idle" /\ Mode(r) # "start"
  BY StepFrames, FaultFrames DEF RequestFrame
<1>1. CASE EnterMutex(r)
  BY <1>1, <1>T DEF EnterMutex
<1>2. CASE TakeMemory(r) \/ SelectRow(r) \/ ConsumeRow(r)
  BY <1>2, <1>0, <1>T DEF Refuse, TakeMemory, SelectRow, ConsumeRow
<1>3. CASE CheckHost(r)
  BY <1>3, <1>0, <1>T DEF Refuse, CheckHost
<1>4. CASE AcquireLock(r)
  BY <1>4, <1>0, <1>T DEF Refuse, AcquireLock
<1>5. CASE PushQueued(r) \/ Begin(r) \/ Reopen(r)
  BY <1>5, <1>0, <1>T DEF PushQueued, Begin, Reopen
<1>6. CASE ApplyPackage(r) \/ Checkpoint(r) \/ Provision(r)
  BY <1>6, <1>0, <1>T DEF ApplyPackage, Checkpoint, Provision, Compensate
<1>7. CASE Validate(r) \/ RejectApplication(r) \/ SetManaged(r) \/ Dismantle(r)
  BY <1>7, <1>0, <1>T DEF Validate, RejectApplication, SetManaged, Dismantle, Compensate
<1>8. CASE UnwindPackage(r) \/ UnwindEnds(r) \/ Settle(r) \/ PersistDeployment(r) \/ Release(r)
  BY <1>8, <1>0, <1>T DEF UnwindPackage, UnwindEnds, Settle, PersistDeployment, Release
<1>9. CASE Fault(r)
  BY <1>9, <1>0, <1>T DEF Fault, ApplyFails, ProvisionFails, ValidateFails, Abandon, Compensate
<1> QED
  BY <1>1, <1>2, <1>3, <1>4, <1>5, <1>6, <1>7, <1>8, <1>9 DEF Step

\* FreshInv is inductive on an undisturbed panel.
LEMMA NextFresh ==
    ASSUME Undisturbed, FreshInv, [Next]_vars
    PROVE  FreshInv'
<1> DEFINE Goal == orphans' = {} /\ \A r \in Requests : FreshAt(r)'
<1>0. TypeInv /\ MutexInv /\ MutexInv'
  BY NextMutex DEF FreshInv, MutexInv
<1>1. ASSUME NEW r \in Requests, Step(r) \/ Fault(r)
      PROVE  Goal
  <2>1. FreshAt(r)'
    BY <1>0, <1>1, StepFresh DEF FreshInv
  <2>2. orphans' = {} /\ (host' = host \/ pc[r] \in {"apply", "unwind"})
    BY <1>1, StepHost DEF FreshInv, Undisturbed
  <2>3. /\ \A s \in Requests \ {r} : pc'[s] = pc[s]
        /\ UNCHANGED <<call, preview>>
        /\ pc[r] # "idle"
    BY <1>0, <1>1, StepFrames, FaultFrames DEF RequestFrame
  <2>4. ASSUME NEW s \in Requests \ {r}, pc[s] \in {"acquire", "begin"}, host' # host
        PROVE  FALSE
    <3>1. pc[s] # "idle" /\ Mode(s) # "start"
      BY <2>4 DEF FreshInv, FreshAt
    <3>2. NeedsMutex(pc[s], Mode(s)) /\ NeedsMutex(pc[r], Mode(r))
      BY <2>2, <2>4, <3>1 DEF NeedsMutex, MutatingPcs
    <3>3. At(s) = At(r)
      BY <1>0, <2>3, <3>1, CallFacts DEF Undisturbed, OneProcess
    <3> QED
      BY <1>0, <2>4, <3>2, <3>3 DEF MutexInv, MutexHeld
  <2>5. \A s \in Requests \ {r} : FreshAt(s)'
    BY <2>3, <2>4 DEF FreshInv, FreshAt, Mode, Tok
  <2> QED
    BY <2>1, <2>2, <2>5
<1>2. ASSUME UNCHANGED <<host, orphans, call>>,
             \A r \in Requests : \/ pc'[r] = pc[r]
                                 \/ pc[r] # "idle" /\ pc'[r] \in FinalPcs,
             \A r \in Requests : pc[r] # "idle" => preview'[Tok(r)] = preview[Tok(r)]
      PROVE  Goal
  BY <1>2 DEF FreshInv, FreshAt, Mode, Tok, FinalPcs
<1>3. ASSUME NEW p \in Procs, ProcessStep(p)
      PROVE  Goal
  <2>1. /\ UNCHANGED <<call, preview>>
        /\ \A r \in Requests : pc'[r] = pc[r] \/ (pc[r] # "idle" /\ pc'[r] \in FinalPcs)
    BY <1>0, <1>3, ProcessFrame DEF InFlight, FinalPcs
  <2>2. CASE Exit(p)
    <3>1. orphans' = orphans
      BY <2>2 DEF Exit, Interrupted, Undisturbed
    <3>2. \A r \in Requests : pc[r] = "idle" \/ pc'[r] \in FinalPcs
      BY <1>0, <2>2, CallFacts DEF Exit, InFlight, FinalPcs, Undisturbed, OneProcess
    <3> QED
      BY <2>1, <3>1, <3>2 DEF FreshInv, FreshAt, Mode, FinalPcs
  <2>3. CASE ~Exit(p)
    <3>1. UNCHANGED <<host, orphans>>
      BY <1>3, <2>3
      DEF ProcessStep, Start, Reconcile, ReconcileRead, ReconcileMark, ReconcileClear, RunDrop,
          hostVars
    <3> QED
      BY <1>2, <2>1, <3>1
  <2> QED
    BY <2>2, <2>3
<1>4. ASSUME NEW p \in Procs, NEW t \in Tokens, PreviewStep(p, t)
      PROVE  Goal
  <2>1. PICK plan \in Plans : Draft(p, t, plan)
    BY <1>0, <1>4, PreviewDrafts
  <2>2. \A r \in Requests : pc[r] # "idle" => preview'[Tok(r)] = preview[Tok(r)]
    BY <1>0, <2>1 DEF Draft, TypeInv, TypeOK, CallsBound, Tok
  <2> QED
    BY <1>2, <2>1, <2>2 DEF Draft, hostVars
<1>5. ASSUME NEW t \in Tokens, IssueStep(t)
      PROVE  Goal
  BY <1>2, <1>5 DEF IssueStep, PersistPlan, RememberPreview, hostVars
<1>6. ASSUME NEW p \in Procs, ClientStep(p)
      PROVE  Goal
  <2>1. UNCHANGED <<host, orphans, preview>>
    BY <1>6 DEF ClientStep, Submit, SubmitRollback, Cancel, hostVars, planVars
  <2>2. \A r \in Requests : \/ pc'[r] = pc[r] /\ call'[r] = call[r]
                            \/ pc'[r] = "enter" /\ call'[r].mode # "start"
    BY <1>0, <1>6
    DEF ClientStep, Submit, SubmitRollback, Cancel, Goto, TypeInv, TypeOK, Undisturbed
  <2> QED
    BY <2>1, <2>2 DEF FreshInv, FreshAt, Mode, Tok
<1>7. CASE EnvStep \/ UNCHANGED vars
  <2>1. UNCHANGED <<host, orphans, call, pc, preview>>
    <3>1. ASSUME NEW t \in Tokens, Expire(t)
          PROVE  UNCHANGED <<host, orphans, call, pc, preview>>
      BY <3>1 DEF Expire, hostVars
    <3>2. CASE UNCHANGED vars
      BY <3>2 DEF vars, hostVars, planVars
    <3> QED
      BY <1>7, <3>1, <3>2 DEF EnvStep, FreshInv
  <2> QED
    BY <1>0, <1>2, <2>1 DEF FreshInv
<1> QED
  BY <1>0, <1>1, <1>3, <1>4, <1>5, <1>6, <1>7, NextCases DEF FreshInv

\* On an undisturbed panel, the digest that prepare_execution compared is still
\* the host's when the transaction begins, whatever other requests do.
THEOREM UndisturbedStartsFresh ==
    ASSUME Undisturbed
    PROVE  Spec => []FreshHost
<1>1. Init => FreshInv
  BY InitType DEF Init, FreshInv, FreshAt, MutexInv, MutexHeld, NeedsMutex, MutatingPcs
<1>2. FreshInv => FreshHost
  BY DEF FreshInv, FreshAt, FreshHost
<1> QED
  BY <1>1, <1>2, NextFresh, PTL DEF Spec

-----------------------------------------------------------------------------
(* What a rollback removes.                                                *)

\* What a rollback has removed stays away until it has recorded its outcome,
\* and it records rolled_back only with nothing left.
UnwoundAt(r) ==
    pc[r] \in {"unwind", "settle"} /\ Mode(r) = "rollback" =>
       /\ \A q \in Plan(r).pkgs \cap todo[r] : ~Present(host, q)
       /\ pc[r] = "settle" /\ out[r] = "rolled_back" => Plan(r).pkgs \subseteq todo[r]

RemovalInv == NameInv /\ MutexInv /\ orphans = {} /\ \A r \in Requests : UnwoundAt(r)

\* apt-get remove takes the files of its package and touches no other.
LEMMA RemoveEffect ==
    ASSUME NEW h \in [Packages -> Versions], NEW q \in Packages
    PROVE  /\ ~Present(ApplyTo(h, "remove", q), q)
           /\ \A o \in Packages \ {q} : ApplyTo(h, "remove", q)[o] = h[o]
<1>1. LeftBy(q, h[q]) \notin {"old", "new"}
  BY DEF LeftBy, Versions
<1>2. ApplyTo(h, "remove", q) = [h EXCEPT ![q] = LeftBy(q, h[q])]
  BY DEF ApplyTo, Effect
<1> QED
  BY <1>1, <1>2 DEF Present

\* A request's own step keeps its UnwoundAt.
LEMMA StepUnwound ==
    ASSUME NameInv, NEW r \in Requests, UnwoundAt(r), Step(r) \/ Fault(r)
    PROVE  UnwoundAt(r)'
<1>T. /\ host \in [Packages -> Versions] /\ pc \in [Requests -> Pcs]
      /\ todo \in [Requests -> SUBSET Packages] /\ out \in [Requests -> JobStates]
  BY DEF NameInv, TypeInv, TypeOK, HostState
<1>0. /\ UNCHANGED <<call, preview>> /\ pc[r] # "idle" /\ Plan(r).pkgs \subseteq Packages
      /\ Plan(r)' = Plan(r) /\ Mode(r)' = Mode(r)
  BY StepFrames, FaultFrames, CallFacts DEF NameInv, RequestFrame, Plan, Tok, Mode
<1> SUFFICES ASSUME Mode(r) = "rollback", pc'[r] \in {"unwind", "settle"}
             PROVE  /\ \A q \in Plan(r).pkgs \cap todo'[r] : ~Present(host', q)
                    /\ pc'[r] = "settle" /\ out'[r] = "rolled_back" => Plan(r).pkgs \subseteq todo'[r]
  BY <1>0 DEF UnwoundAt
<1>1. pc[r] \in {"reopen", "unwind", "settle"} /\ Kind(r) = "install"
  <2>1. pc[r] \in RollbackPcs /\ Kind(r) = "install"
    BY <1>0 DEF NameInv, JobNames, Decided, DecidedAt
  <2>2. CASE Step(r)
    BY <1>T, <2>1, <2>2
    DEF Step, EnterMutex, TakeMemory, SelectRow, ConsumeRow, CheckHost, AcquireLock, PushQueued,
        Begin, ApplyPackage, Checkpoint, Provision, Validate, RejectApplication, SetManaged,
        Dismantle, UnwindPackage, UnwindEnds, Reopen, Settle, PersistDeployment, Release,
        Refuse, Goto, RollbackPcs, FinalPcs
  <2>3. CASE Fault(r)
    BY <1>T, <2>1, <2>3
    DEF Fault, ApplyFails, ProvisionFails, ValidateFails, Abandon, Goto, RollbackPcs, FinalPcs
  <2> QED
    BY <2>1, <2>2, <2>3
<1>2. Reopen(r) \/ UnwindPackage(r) \/ UnwindEnds(r)
  <2>1. ~Fault(r)
    BY <1>T, <1>1 DEF Fault, ApplyFails, ProvisionFails, ValidateFails, Abandon, Goto
  <2>2. ~Settle(r)
    BY <1>T DEF Settle, Goto
  <2> QED
    BY <1>1, <2>1, <2>2
    DEF Step, EnterMutex, TakeMemory, SelectRow, ConsumeRow, CheckHost, AcquireLock, PushQueued,
        Begin, ApplyPackage, Checkpoint, Provision, Validate, RejectApplication, SetManaged,
        Dismantle, PersistDeployment, Release
<1>3. CASE Reopen(r)
  BY <1>3, <1>T DEF Reopen, Goto
<1>4. CASE UnwindPackage(r)
  <2>1. PICK q \in Applied(r) : /\ host' = ApplyTo(host, "remove", q)
                               /\ todo' = [todo EXCEPT ![r] = @ \cup {q}]
    BY <1>4 DEF UnwindPackage
  <2>2. q \in Packages /\ pc[r] = "unwind" /\ pc' = pc
    BY <1>0, <1>4 DEF UnwindPackage, Applied
  <2>3. ~Present(host', q) /\ (\A o \in Packages \ {q} : host'[o] = host[o])
    BY <1>T, <2>1, <2>2, RemoveEffect
  <2>4. \A o \in Plan(r).pkgs \cap todo[r] : ~Present(host, o)
    BY <2>2 DEF UnwoundAt
  <2>5. todo'[r] = todo[r] \cup {q}
    BY <1>T, <2>1
  <2> QED
    BY <1>0, <1>T, <2>2, <2>3, <2>4, <2>5 DEF Present
<1>5. CASE UnwindEnds(r)
  BY <1>5, <1>T DEF UnwindEnds, Applied, UnwoundAt, Present, hostVars
<1> QED
  BY <1>2, <1>3, <1>4, <1>5

\* Another request's package list is not touched.
LEMMA StepTodo ==
    ASSUME TypeInv, NEW r \in Requests, Step(r) \/ Fault(r), NEW s \in Requests \ {r}
    PROVE  todo'[s] = todo[s]
<1>1. todo \in [Requests -> SUBSET Packages]
  BY DEF TypeInv, TypeOK
<1>2. CASE Step(r)
  BY <1>1, <1>2
  DEF Step, EnterMutex, TakeMemory, SelectRow, ConsumeRow, CheckHost, AcquireLock, PushQueued,
      Begin, ApplyPackage, Checkpoint, Provision, Validate, RejectApplication, SetManaged,
      Dismantle, UnwindPackage, UnwindEnds, Reopen, Settle, PersistDeployment, Release, Refuse
<1>3. CASE Fault(r)
  BY <1>1, <1>3 DEF Fault, ApplyFails, ProvisionFails, ValidateFails, Abandon
<1> QED
  BY <1>2, <1>3
\* RemovalInv is inductive for one process whose apt-get children die with it.
LEMMA NextRemoval ==
    ASSUME OneProcess, "orphan" \notin Faults, RemovalInv, [Next]_vars
    PROVE  RemovalInv'
<1> DEFINE Goal == orphans' = {} /\ \A r \in Requests : UnwoundAt(r)'
<1>0. TypeInv /\ NameInv' /\ MutexInv /\ MutexInv'
  BY NextName, NextMutex DEF RemovalInv, MutexInv
<1>1. ASSUME NEW r \in Requests, Step(r) \/ Fault(r)
      PROVE  Goal
  <2>1. UnwoundAt(r)'
    BY <1>1, StepUnwound DEF RemovalInv
  <2>2. orphans' = {} /\ (host' = host \/ pc[r] \in {"apply", "unwind"})
    BY <1>1, StepHost DEF RemovalInv
  <2>3. /\ \A s \in Requests \ {r} : pc'[s] = pc[s]
        /\ UNCHANGED <<call, preview>>
        /\ pc[r] # "idle"
    BY <1>0, <1>1, StepFrames, FaultFrames DEF RequestFrame
  <2>4. ASSUME NEW s \in Requests \ {r}, pc[s] \in {"unwind", "settle"}, host' # host
        PROVE  FALSE
    <3>1. NeedsMutex(pc[s], Mode(s)) /\ NeedsMutex(pc[r], Mode(r))
      BY <2>2, <2>4 DEF NeedsMutex, MutatingPcs
    <3>2. At(s) = At(r)
      BY <1>0, <2>3, <2>4, CallFacts DEF OneProcess
    <3> QED
      BY <1>0, <2>4, <3>1, <3>2 DEF MutexInv, MutexHeld
  <2>5. \A s \in Requests \ {r} : todo'[s] = todo[s] /\ out'[s] = out[s]
    BY <1>0, <1>1, StepTodo, StepRecords DEF RecordFrame, RemovalInv, NameInv, Decided
  <2>6. \A s \in Requests \ {r} : UnwoundAt(s)'
    BY <2>3, <2>4, <2>5 DEF RemovalInv, UnwoundAt, Mode, Plan, Tok
  <2> QED
    BY <2>1, <2>2, <2>6
<1>2. ASSUME UNCHANGED <<host, orphans, todo, out>>,
             \A r \in Requests : \/ pc'[r] = pc[r] /\ call'[r] = call[r]
                                 \/ pc'[r] \in FinalPcs \cup {"enter", "take"},
             \A r \in Requests : pc[r] # "idle" => preview'[Tok(r)] = preview[Tok(r)]
      PROVE  Goal
  BY <1>2 DEF RemovalInv, UnwoundAt, Mode, Plan, Tok, FinalPcs
<1>3. ASSUME NEW p \in Procs, ProcessStep(p)
      PROVE  Goal
  <2>1. /\ UNCHANGED <<call, preview, out>>
        /\ \A r \in Requests : pc'[r] = pc[r] \/ pc'[r] \in FinalPcs
    BY <1>0, <1>3, ProcessFrame, ProcessRecords DEF FinalPcs
  <2>2. CASE Exit(p)
    <3>1. orphans' = orphans
      BY <2>2 DEF Exit, Interrupted
    <3>2. \A r \in Requests : pc'[r] \notin {"unwind", "settle"}
      BY <1>0, <2>2, CallFacts DEF Exit, InFlight, FinalPcs, OneProcess
    <3> QED
      BY <3>1, <3>2 DEF RemovalInv, UnwoundAt
  <2>3. CASE ~Exit(p)
    <3>1. UNCHANGED <<host, orphans, todo>>
      BY <1>3, <2>3
      DEF ProcessStep, Start, Reconcile, ReconcileRead, ReconcileMark, ReconcileClear, RunDrop,
          hostVars
    <3> QED
      BY <1>2, <2>1, <3>1
  <2> QED
    BY <2>2, <2>3
<1>4. ASSUME NEW p \in Procs, NEW t \in Tokens, PreviewStep(p, t)
      PROVE  Goal
  <2>1. PICK plan \in Plans : Draft(p, t, plan)
    BY <1>0, <1>4, PreviewDrafts
  <2>2. \A r \in Requests : pc[r] # "idle" => preview'[Tok(r)] = preview[Tok(r)]
    BY <1>0, <2>1 DEF Draft, TypeInv, TypeOK, CallsBound, Tok
  <2> QED
    BY <1>2, <2>1, <2>2 DEF Draft, hostVars
<1>5. ASSUME NEW t \in Tokens, IssueStep(t)
      PROVE  Goal
  BY <1>2, <1>5 DEF IssueStep, PersistPlan, RememberPreview, hostVars
<1>6. ASSUME NEW p \in Procs, ClientStep(p)
      PROVE  Goal
  <2>1. UNCHANGED <<host, orphans, preview, todo, out>>
    BY <1>6 DEF ClientStep, Submit, SubmitRollback, Cancel, hostVars, planVars
  <2>2. \A r \in Requests : \/ pc'[r] = pc[r] /\ call'[r] = call[r]
                            \/ pc'[r] \in {"enter", "take"}
    BY <1>0, <1>6 DEF ClientStep, Submit, SubmitRollback, Cancel, Goto, TypeInv, TypeOK
  <2> QED
    BY <1>2, <2>1, <2>2
<1>7. ASSUME EnvStep \/ UNCHANGED vars
      PROVE  Goal
  <2>1. UNCHANGED <<host, orphans, call, pc, preview, todo, out>>
    <3>1. ASSUME NEW t \in Tokens, Expire(t)
          PROVE  UNCHANGED <<host, orphans, call, pc, preview, todo, out>>
      BY <3>1 DEF Expire, hostVars
    <3>2. CASE UNCHANGED vars
      BY <3>2 DEF vars, hostVars, planVars
    <3> QED
      BY <1>7, <3>1, <3>2 DEF EnvStep, RemovalInv
  <2> QED
    BY <1>2, <2>1
<1> QED
  BY <1>0, <1>1, <1>3, <1>4, <1>5, <1>6, <1>7, NextCases DEF RemovalInv

\* Only the settling of a rollback that removed everything records rolled_back.
LEMMA RolledBackRemoved ==
    ASSUME RemovalInv, [Next]_vars, NEW j \in Requests,
           jobState[j] = "rolling_back", jobState'[j] = "rolled_back"
    PROVE  \A q \in Plan(j).pkgs : ~Present(host, q)
<1>0. NameInv /\ TypeInv /\ jobState \in [Requests -> JobStates]
  BY DEF RemovalInv, NameInv, TypeInv, TypeOK
<1>1. ASSUME NEW r \in Requests, Step(r) \/ Fault(r)
      PROVE  \A q \in Plan(j).pkgs : ~Present(host, q)
  <2>1. Job(r) = j /\ pc[r] # "idle"
    BY <1>0, <1>1, StepFrames, FaultFrames DEF RequestFrame
  <2>2. pc[r] = "settle" /\ out[r] = "rolled_back"
    <3>1. CASE Step(r)
      BY <1>0, <2>1, <3>1
      DEF Step, EnterMutex, TakeMemory, SelectRow, ConsumeRow, CheckHost, AcquireLock, PushQueued,
          Begin, ApplyPackage, Checkpoint, Provision, Validate, RejectApplication, SetManaged,
          Dismantle, UnwindPackage, UnwindEnds, Reopen, Settle, PersistDeployment, Release,
          Refuse, PushJob, jobVars
    <3>2. CASE Fault(r)
      BY <3>2 DEF Fault, ApplyFails, ProvisionFails, ValidateFails, Abandon, jobVars
    <3> QED
      BY <1>1, <3>1, <3>2
  <2>3. Mode(r) = "rollback"
    BY <1>0, <2>2 DEF NameInv, Decided, DecidedAt, DecidedPcs, OutcomesOf
  <2>4. Plan(r) = Plan(j)
    BY <1>0, <2>1, <2>3 DEF NameInv, JobNames, Plan
  <2> QED
    BY <2>2, <2>3, <2>4 DEF RemovalInv, UnwoundAt
<1>2. ASSUME NEW p \in Procs, ProcessStep(p)
      PROVE  FALSE
  BY <1>2, ProcessRecords DEF ReconcileMark
<1>3. ASSUME NEW p \in Procs, NEW t \in Tokens, PreviewStep(p, t)
      PROVE  FALSE
  BY <1>0, <1>3, PreviewDrafts DEF Draft, jobVars
<1>4. ASSUME NEW t \in Tokens, IssueStep(t)
      PROVE  FALSE
  BY <1>0, <1>4, IssueFrame
<1>5. ASSUME NEW p \in Procs, ClientStep(p)
      PROVE  FALSE
  BY <1>5 DEF ClientStep, Submit, SubmitRollback, Cancel, jobVars
<1>6. ~(EnvStep \/ UNCHANGED vars)
  BY EnvFrame
<1> QED
  BY <1>1, <1>2, <1>3, <1>4, <1>5, <1>6, NextCases

\* With one panel process, rolled_back is recorded only when no package of the
\* interrupted installation is left, however many rollbacks of it are asked for
\* and whatever dies in between.
THEOREM RollbackComplete ==
    ASSUME OneProcess, "orphan" \notin Faults
    PROVE  Spec => RollbackRemoves
<1> DEFINE Removed ==
             \A j \in Requests :
                jobState[j] = "rolling_back" /\ jobState'[j] = "rolled_back" =>
                   \A q \in Plan(j).pkgs : ~Present(host, q)
<1>1. RemovalInv /\ [Next]_vars => [Removed]_vars
  BY RolledBackRemoved
<1>2. Init => RemovalInv
  <2> SUFFICES ASSUME Init PROVE RemovalInv
    OBVIOUS
  <2>1. NameInv
    BY InitJob DEF JobInv
  <2> QED
    BY <2>1
    DEF Init, RemovalInv, NameInv, MutexInv, MutexHeld, NeedsMutex, MutatingPcs, UnwoundAt
<1>3. RollbackRemoves <=> [][Removed]_vars
  BY DEF RollbackRemoves
<1> QED
  BY <1>1, <1>2, <1>3, NextRemoval, PTL DEF Spec
-----------------------------------------------------------------------------
(* Applications and the jobs that deployed them.                           *)

\* Removing packages and dismantling an application do not fail.
Removable == "rollback" \notin Faults

\* Where a deployment may own a provisioned application.
ProvisionedPcs ==
    {"checkpoint", "validate", "dismantle", "unwind", "settle", "persist", "release", "ended", "lost"}

\* Only a deployment of an application plan provisions, its job has no outcome
\* before it settles, and what is compensated does not succeed.
DeployAt(r) ==
    /\ pc[r] \in {"dismantle", "unwind"} => out[r] # "succeeded"
    /\ pc[r] \in {"provision", "checkpoint", "persist"} => Mode(r) = "deploy"
    /\ pc[r] \in GuardPcs \cup {"acquire"} /\ Mode(r) = "deploy" => Kind(r) = "application"
    /\ InFlight(r) /\ pc[r] \notin {"persist", "release"} /\ Kind(r) = "application" =>
          jobState[r] \notin {"failed", "cancelled", "succeeded"}

\* An application exists from its provisioning on, unless it was dismantled on
\* the way to a failure or a cancellation, as it is if that can be done.
AppAt(r) ==
    /\ r \in apps =>
          /\ pc[r] \in ProvisionedPcs
          /\ Kind(r) = "application"
          /\ Removable => /\ pc[r] # "unwind"
                          /\ pc[r] = "settle" => out[r] = "succeeded"
                          /\ jobState[r] \notin {"failed", "cancelled"}
    /\ pc[r] = "persist" => r \in apps /\ jobState[r] = "succeeded"
    /\ pc[r] \in {"checkpoint", "validate"} /\ Mode(r) = "deploy" => r \in apps
    /\ pc[r] = "settle" /\ Mode(r) = "deploy" /\ out[r] = "succeeded" => r \in apps
    /\ r \in deployed => /\ r \in apps /\ jobState[r] = "succeeded"
                         /\ pc[r] \in {"release", "ended", "lost"}

AppsInv == NameInv /\ \A r \in Requests : DeployAt(r) /\ AppAt(r)

\* A request touches no application but its own.
AppFrame(r) == \A s \in Requests \ {r} : (s \in apps' <=> s \in apps) /\ (s \in deployed' <=> s \in deployed)

\* Every step of a request stays within it.
LEMMA StepApps ==
    ASSUME NEW r \in Requests, Step(r) \/ Fault(r)
    PROVE  AppFrame(r)
<1> USE DEF AppFrame, hostVars, jobVars
<1>1. CASE Step(r)
  BY <1>1
  DEF Step, EnterMutex, TakeMemory, SelectRow, ConsumeRow, CheckHost, AcquireLock, PushQueued,
      Begin, ApplyPackage, Checkpoint, Provision, Validate, RejectApplication, SetManaged,
      Dismantle, UnwindPackage, UnwindEnds, Reopen, Settle, PersistDeployment, Release, Refuse
<1>2. CASE Fault(r)
  BY <1>2 DEF Fault, ApplyFails, ProvisionFails, ValidateFails, Abandon
<1> QED
  BY <1>1, <1>2

\* An execution's own step keeps DeployAt and AppAt.
LEMMA ExecutionApps ==
    ASSUME NameInv, NEW r \in Requests, DeployAt(r), AppAt(r),
           Mode(r) # "rollback", Step(r) \/ Fault(r)
    PROVE  DeployAt(r)' /\ AppAt(r)'
<1>T. /\ pc \in [Requests -> Pcs] /\ jobState \in [Requests -> JobStates]
      /\ out \in [Requests -> JobStates]
  BY DEF NameInv, TypeInv, TypeOK
<1>0. /\ UNCHANGED <<call, preview>> /\ pc[r] # "idle"
      /\ Kind(r)' = Kind(r) /\ Mode(r)' = Mode(r)
  BY StepFrames, FaultFrames DEF NameInv, RequestFrame, Kind, Plan, Tok, Mode
<1>J. Job(r) = r
  BY <1>0 DEF NameInv, JobNames
<1>D. DecidedAt(r)
  BY DEF NameInv, Decided
<1> USE DEF DeployAt, AppAt, Goto, hostVars, jobVars, ProvisionedPcs, InFlight, FinalPcs,
            GuardPcs, QueuedPcs, MutatingPcs
<1>1. CASE EnterMutex(r)
  BY <1>1, <1>0, <1>T DEF EnterMutex
<1>2. CASE TakeMemory(r) \/ SelectRow(r) \/ ConsumeRow(r)
  BY <1>2, <1>0, <1>T DEF Refuse, TakeMemory, SelectRow, ConsumeRow
<1>3. CASE CheckHost(r)
  BY <1>3, <1>0, <1>T DEF Refuse, CheckHost
<1>4. CASE AcquireLock(r)
  BY <1>4, <1>0, <1>T DEF Refuse, AcquireLock
<1>5. CASE PushQueued(r) \/ Begin(r)
  BY <1>5, <1>0, <1>T, <1>J DEF PushQueued, Begin, PushJob
<1>6. CASE ApplyPackage(r) \/ ApplyFails(r)
  BY <1>6, <1>0, <1>T DEF ApplyPackage, ApplyFails, Compensate
<1>7. CASE Checkpoint(r)
  BY <1>7, <1>0, <1>T, <1>J DEF Checkpoint, Compensate, PushJob
<1>8. CASE Provision(r) \/ ProvisionFails(r)
  BY <1>8, <1>0, <1>T DEF Provision, ProvisionFails, Compensate
<1>9. CASE Validate(r) \/ ValidateFails(r)
  BY <1>9, <1>0, <1>T DEF Validate, ValidateFails, Compensate
<1>10. CASE RejectApplication(r)
  BY <1>10, <1>0, <1>T DEF RejectApplication
<1>11. CASE SetManaged(r)
  BY <1>11, <1>0, <1>T DEF SetManaged, NameInv, TypeInv, ManageBound
<1>12. CASE Dismantle(r)
  BY <1>12, <1>0, <1>T DEF Dismantle, Removable
<1>13. CASE UnwindPackage(r)
  BY <1>13, <1>0, <1>T DEF UnwindPackage
<1>14. CASE UnwindEnds(r)
  BY <1>14, <1>0, <1>T DEF UnwindEnds
<1>15. CASE Reopen(r)
  BY <1>15, <1>D DEF Reopen, DecidedAt
<1>16. CASE Settle(r)
  BY <1>16, <1>0, <1>T, <1>J DEF Settle, PushJob
<1>17. CASE PersistDeployment(r)
  BY <1>17, <1>0, <1>T DEF PersistDeployment
<1>18. CASE Release(r)
  BY <1>18, <1>0, <1>T DEF Release
<1>19. CASE Abandon(r)
  BY <1>19, <1>0, <1>T DEF Abandon, PendingPcs
<1> QED
  BY <1>1, <1>2, <1>3, <1>4, <1>5, <1>6, <1>7, <1>8, <1>9, <1>10, <1>11, <1>12, <1>13, <1>14,
     <1>15, <1>16, <1>17, <1>18, <1>19 DEF Step, Fault
\* A request's own step keeps all of them: what a rollback records is the job
\* of a component installation, which has no application.
LEMMA RequestApps ==
    ASSUME AppsInv, NEW r \in Requests, Step(r) \/ Fault(r)
    PROVE  \A s \in Requests : DeployAt(s)' /\ AppAt(s)'
<1>0. /\ NameInv /\ NameInv'
      /\ \A s \in Requests : DeployAt(s) /\ AppAt(s)
  BY NextName DEF AppsInv, Next
<1>1. RequestFrame(r) /\ RecordFrame(r) /\ AppFrame(r) /\ pc[r] # "idle" /\ Job(r) \in Requests
  BY <1>0, StepFrames, FaultFrames, StepRecords, StepApps, CallFacts
  DEF NameInv, Decided, RequestFrame
<1>2. /\ \A s \in Requests : Mode(s)' = Mode(s) /\ Kind(s)' = Kind(s)
      /\ \A s \in Requests \ {r} : pc'[s] = pc[s] /\ out'[s] = out[s]
      /\ pc'[r] # "idle"
  BY <1>1 DEF RequestFrame, RecordFrame, Mode, Kind, Plan, Tok
<1>3. ASSUME NEW s \in Requests \ {r}, s # Job(r)
      PROVE  DeployAt(s)' /\ AppAt(s)'
  <2>1. /\ DeployAt(s) /\ AppAt(s) /\ jobState'[s] = jobState[s]
        /\ (s \in apps' <=> s \in apps) /\ (s \in deployed' <=> s \in deployed)
    BY <1>0, <1>1, <1>3 DEF RequestFrame, AppFrame
  <2> QED
    BY <1>2, <2>1 DEF DeployAt, AppAt, InFlight
<1>4. CASE Mode(r) # "rollback"
  <2>1. Job(r) = r
    BY <1>0, <1>1, <1>4 DEF NameInv, JobNames
  <2>2. DeployAt(r)' /\ AppAt(r)'
    BY <1>0, <1>4, ExecutionApps
  <2> QED
    BY <1>3, <2>1, <2>2
<1>5. CASE Mode(r) = "rollback"
  <2>1. Kind(r) = "install" /\ Tok(r) = Tok(Job(r)) /\ jobState[r] = "none"
    BY <1>0, <1>1, <1>5 DEF NameInv, JobNames, JobsExecuted
  <2>2. Kind(Job(r)) = "install" /\ Job(r) # r
    BY <1>0, <1>1, <1>5, <2>1 DEF NameInv, JobNames, Kind, Plan
  <2>3. pc[r] \in RollbackPcs /\ pc'[r] \in RollbackPcs
        /\ (pc'[r] \in DecidedPcs => out'[r] \in {"rolled_back", "failed"})
    BY <1>0, <1>1, <1>2, <1>5 DEF NameInv, Decided, DecidedAt, OutcomesOf
  <2>4. r \notin apps /\ r \notin deployed
    BY <1>0, <2>1 DEF AppAt
  <2>5. r \notin apps' /\ r \notin deployed'
    <3>1. CASE Step(r)
      BY <2>3, <2>4, <3>1
      DEF Step, EnterMutex, TakeMemory, SelectRow, ConsumeRow, CheckHost, AcquireLock, PushQueued,
          Begin, ApplyPackage, Checkpoint, Provision, Validate, RejectApplication, SetManaged,
          Dismantle, UnwindPackage, UnwindEnds, Reopen, Settle, PersistDeployment, Release,
          Refuse, hostVars, jobVars, RollbackPcs, FinalPcs
    <3>2. CASE Fault(r)
      BY <2>4, <3>2
      DEF Fault, ApplyFails, ProvisionFails, ValidateFails, Abandon, hostVars, jobVars
    <3> QED
      BY <3>1, <3>2
  <2>6. DeployAt(r)' /\ AppAt(r)'
    BY <1>2, <1>5, <2>1, <2>3, <2>5 DEF DeployAt, AppAt, RollbackPcs, FinalPcs, DecidedPcs
  <2>7. ASSUME NEW s \in Requests, s = Job(r)
        PROVE  DeployAt(s)' /\ AppAt(s)'
    <3>1. /\ s \in Requests \ {r} /\ Kind(s) = "install" /\ DeployAt(s) /\ AppAt(s)
          /\ (s \in apps' <=> s \in apps) /\ (s \in deployed' <=> s \in deployed)
      BY <1>0, <1>1, <2>2, <2>7 DEF AppFrame
    <3>2. s \notin apps /\ s \notin deployed /\ pc[s] # "persist"
      BY <3>1 DEF AppAt
    <3> QED
      BY <1>2, <3>1, <3>2 DEF DeployAt, AppAt
  <2> QED
    BY <1>3, <2>6, <2>7
<1> QED
  BY <1>4, <1>5
\* AppsInv is inductive, with any number of processes and faults.
LEMMA NextApps ==
    ASSUME AppsInv, [Next]_vars
    PROVE  AppsInv'
<1> DEFINE Goal == \A r \in Requests : DeployAt(r)' /\ AppAt(r)'
<1>0. TypeInv /\ NameInv'
  BY NextName DEF AppsInv, NameInv
<1>1. ASSUME NEW r \in Requests, Step(r) \/ Fault(r)
      PROVE  Goal
  BY <1>1, RequestApps
<1>2. ASSUME UNCHANGED <<apps, deployed, out, call, pc, jobState>>,
             \A r \in Requests : pc[r] # "idle" => preview'[Tok(r)] = preview[Tok(r)]
      PROVE  Goal
  <2>1. \A r \in Requests : Mode(r)' = Mode(r) /\ (pc[r] # "idle" => Kind(r)' = Kind(r))
    BY <1>2 DEF Mode, Kind, Plan, Tok
  <2>2. \A r \in Requests : pc[r] = "idle" => r \notin apps
    BY DEF AppsInv, AppAt, ProvisionedPcs
  <2>3. ASSUME NEW r \in Requests, pc[r] # "idle"
        PROVE  DeployAt(r)' /\ AppAt(r)'
    BY <1>2, <2>1, <2>3 DEF AppsInv, DeployAt, AppAt, InFlight
  <2>4. ASSUME NEW r \in Requests, pc[r] = "idle"
        PROVE  DeployAt(r)' /\ AppAt(r)'
    BY <1>2, <2>1, <2>2, <2>4
    DEF AppsInv, DeployAt, AppAt, InFlight, GuardPcs, QueuedPcs, MutatingPcs
  <2> QED
    BY <2>3, <2>4
<1>3. ASSUME NEW p \in Procs, ProcessStep(p)
      PROVE  Goal
  <2>1. /\ UNCHANGED <<call, preview, out>>
        /\ \A r \in Requests :
              \/ pc'[r] = pc[r]
              \/ pc[r] \in PendingPcs /\ pc'[r] = "refused"
              \/ InFlight(r) /\ pc[r] \notin PendingPcs /\ pc'[r] = "lost"
    BY <1>0, <1>3, ProcessFrame, ProcessRecords
  <2>2. \A j \in Requests : \/ jobState'[j] = jobState[j]
                            \/ jobState[j] \in ActiveStates /\ jobState'[j] = "interrupted"
    BY <1>3, ProcessRecords DEF ReconcileMark
  <2>3. UNCHANGED <<apps, deployed>>
    BY <1>3
    DEF ProcessStep, Start, Reconcile, ReconcileRead, ReconcileMark, ReconcileClear, RunDrop, Exit,
        hostVars, jobVars
  <2>4. \A r \in Requests : Mode(r)' = Mode(r) /\ Kind(r)' = Kind(r)
    BY <2>1 DEF Mode, Kind, Plan, Tok
  <2> QED
    BY <2>1, <2>2, <2>3, <2>4
    DEF AppsInv, DeployAt, AppAt, InFlight, ActiveStates, ProvisionedPcs, FinalPcs, PendingPcs,
        GuardPcs, QueuedPcs, MutatingPcs
<1>4. ASSUME NEW p \in Procs, NEW t \in Tokens, PreviewStep(p, t)
      PROVE  Goal
  <2>1. PICK plan \in Plans : Draft(p, t, plan)
    BY <1>0, <1>4, PreviewDrafts
  <2>2. \A r \in Requests : pc[r] # "idle" => preview'[Tok(r)] = preview[Tok(r)]
    BY <1>0, <2>1 DEF Draft, TypeInv, TypeOK, CallsBound, Tok
  <2> QED
    BY <1>2, <2>1, <2>2 DEF Draft, hostVars, jobVars
<1>5. ASSUME NEW t \in Tokens, IssueStep(t)
      PROVE  Goal
  BY <1>2, <1>5 DEF IssueStep, PersistPlan, RememberPreview, hostVars, jobVars
<1>6. ASSUME NEW p \in Procs, ClientStep(p)
      PROVE  Goal
  <2>1. UNCHANGED <<apps, deployed, out, jobState, preview>>
    BY <1>6 DEF ClientStep, Submit, SubmitRollback, Cancel, hostVars, jobVars, planVars
  <2>2. \A r \in Requests : \/ pc'[r] = pc[r] /\ call'[r] = call[r]
                            \/ pc[r] = "idle" /\ pc'[r] \in {"enter", "take"}
    BY <1>0, <1>6 DEF ClientStep, Submit, SubmitRollback, Cancel, Goto, TypeInv, TypeOK
  <2>3. ASSUME NEW r \in Requests, pc'[r] = pc[r], call'[r] = call[r]
        PROVE  DeployAt(r)' /\ AppAt(r)'
    BY <2>1, <2>3 DEF AppsInv, DeployAt, AppAt, InFlight, Mode, Kind, Plan, Tok
  <2>4. ASSUME NEW r \in Requests, pc[r] = "idle", pc'[r] \in {"enter", "take"}
        PROVE  DeployAt(r)' /\ AppAt(r)'
    <3>1. jobState[r] = "none"
      BY <1>0, <2>4 DEF TypeInv, JobsBound
    <3>2. r \notin apps /\ r \notin deployed
      BY <2>4 DEF AppsInv, AppAt, ProvisionedPcs
    <3> QED
      BY <2>1, <2>4, <3>1, <3>2 DEF DeployAt, AppAt, GuardPcs, QueuedPcs, MutatingPcs
  <2> QED
    BY <2>2, <2>3, <2>4
<1>7. ASSUME EnvStep \/ UNCHANGED vars
      PROVE  Goal
  <2>1. UNCHANGED <<apps, deployed, out, call, pc, jobState, preview>>
    <3>1. ASSUME NEW t \in Tokens, Expire(t)
          PROVE  UNCHANGED <<apps, deployed, out, call, pc, jobState, preview>>
      BY <3>1 DEF Expire, hostVars, jobVars
    <3>2. ASSUME NEW o \in orphans, OrphanEnds(o)
          PROVE  UNCHANGED <<apps, deployed, out, call, pc, jobState, preview>>
      BY <3>2 DEF OrphanEnds, jobVars, planVars
    <3>3. CASE UNCHANGED vars
      BY <3>3 DEF vars, hostVars, jobVars, planVars
    <3> QED
      BY <1>7, <3>1, <3>2, <3>3 DEF EnvStep
  <2> QED
    BY <1>2, <2>1
<1> QED
  BY <1>0, <1>1, <1>3, <1>4, <1>5, <1>6, <1>7, NextCases DEF AppsInv

\* Whatever processes share the database and the host, if dismantling never
\* fails: a deployment recorded as failed or cancelled has left no application,
\* and a row of software_deployments stands for one that is there and succeeded.
THEOREM DeploymentsOwned ==
    ASSUME Removable
    PROVE  Spec => []AppsMatchJobs
<1>1. Init => AppsInv
  <2> SUFFICES ASSUME Init PROVE AppsInv
    OBVIOUS
  <2>1. NameInv
    BY InitJob DEF JobInv
  <2> QED
    BY <2>1
    DEF Init, AppsInv, DeployAt, AppAt, InFlight, GuardPcs, QueuedPcs, MutatingPcs
<1>2. AppsInv => AppsMatchJobs
  BY DEF AppsInv, AppAt, AppsMatchJobs
<1> QED
  BY <1>1, <1>2, NextApps, PTL DEF Spec
-----------------------------------------------------------------------------
(* What a transaction has made of the host.                                *)

\* The packages a plan is about.
Needs(plan) == IF plan.kind = "application" THEN Stack ELSE PackagesOf[plan.target]

\* A plan fits the host it was previewed on.
Fits(v) ==
    /\ v.plan.kind \in {"install", "application"} =>
          v.plan.pkgs = {q \in Needs(v.plan) : v.digest[q] = "absent"}
    /\ v.plan.kind \in {"adopt", "update"} => Installed(v.digest, Needs(v.plan))
    /\ v.plan.kind = "adopt" => v.plan.pkgs = {}
    /\ v.plan.kind \in {"update", "remove"} => v.plan.pkgs = Needs(v.plan)

PlansFit == \A t \in Tokens : preview[t] # NoPreview => Fits(preview[t])

\* retry_preview is not used: it re-issues a stored plan, which may no longer
\* fit the host.
RetryStep == \E p \in Procs, t \in Tokens, j \in Requests : RetryPreview(p, t, j)
NoRetries == [][~RetryStep]_vars

Digest(r) == preview[Tok(r)].digest

\* What one apt-get of a plan has made of package q.
Done(r, q) ==
    CASE Kind(r) \in {"install", "application"} -> Present(host, q)
      [] Kind(r) = "remove"                    -> ~Present(host, q)
      [] OTHER                                 -> host[q] # "absent" \/ Digest(r)[q] = "absent"

\* The host is listed as it was previewed, but for the packages of the plan
\* that were applied and those that were removed again.
HostDriven(r) ==
    \A q \in Packages :
       IF q \in Applied(r) THEN Done(r, q)
       ELSE \/ Listed(host[q]) = Digest(r)[q]
            \/ /\ pc[r] \in {"unwind", "settle"}
               /\ q \in Plan(r).pkgs /\ ~Present(host, q)

\* While an execution drives packages, until it settles without a failure.
DrivenAt(r) ==
    /\ /\ pc[r] \in ChangingPcs /\ Mode(r) # "rollback"
       /\ ~(pc[r] = "settle" /\ out[r] = "failed")
       => HostDriven(r)
    /\ pc[r] \in {"provision", "checkpoint", "validate", "manage"} => todo[r] = {}
    /\ pc[r] = "manage" => out[r] = "succeeded"
    /\ pc[r] = "apply" => todo[r] \subseteq Plan(r).pkgs
    /\ pc[r] = "settle" /\ out[r] = "succeeded" =>
          todo[r] = {} /\ (Kind(r) = "application" => Mode(r) = "deploy")
    /\ Removable /\ pc[r] = "settle" /\ out[r] = "cancelled" /\ Kind(r) # "remove" =>
          Applied(r) = {}

DrivenInv == FreshInv /\ AppsInv /\ PlansFit /\ \A r \in Requests : DrivenAt(r)

\* Every preview but a retry makes a plan that fits.
LEMMA PreviewFits ==
    ASSUME TypeInv, PlansFit, NEW p \in Procs, NEW t \in Tokens, PreviewStep(p, t), ~RetryStep
    PROVE  PlansFit'
<1>0. \A q \in Packages : Listing(host)[q] = "absent" <=> host[q] = "absent"
  BY ListingFacts DEF TypeInv, TypeOK
<1>1. ASSUME NEW plan, Draft(p, t, plan), Fits([plan |-> plan, digest |-> Listing(host), by |-> p])
      PROVE  PlansFit'
  <2>1. preview' = [preview EXCEPT ![t] = [plan |-> plan, digest |-> Listing(host), by |-> p]]
    BY <1>1 DEF Draft
  <2>2. preview'[t] = [plan |-> plan, digest |-> Listing(host), by |-> p]
    BY <2>1 DEF TypeInv, TypeOK
  <2>3. \A u \in Tokens \ {t} : preview'[u] = preview[u]
    BY <2>1 DEF TypeInv, TypeOK
  <2>4. Fits(preview'[t])
    BY <1>1, <2>2
  <2> QED
    BY <2>3, <2>4 DEF PlansFit, Fits
<1>2. ASSUME NEW c \in Components, NEW a \in PlanKinds \cap ComponentActions,
             PreviewComponent(p, t, c, a)
      PROVE  PlansFit'
  <2>1. PackagesOf[c] \subseteq Packages
    BY ConfigAssumption
  <2>2. Fits([plan |-> PlanFor(c, a), digest |-> Listing(host), by |-> p])
    BY <1>0, <1>2, <2>1
    DEF PreviewComponent, Permitted, PlanFor, Fits, Needs, Installed, ComponentActions
  <2> QED
    BY <1>1, <1>2, <2>2 DEF PreviewComponent
<1>3. CASE PreviewDeployment(p, t)
  <2> DEFINE plan == [kind |-> "application", target |-> Application,
                      pkgs |-> {q \in Stack : host[q] = "absent"}]
  <2>1. Draft(p, t, plan)
    BY <1>3 DEF PreviewDeployment
  <2>2. Fits([plan |-> plan, digest |-> Listing(host), by |-> p])
    BY <1>0, ConfigAssumption DEF Fits, Needs
  <2> HIDE DEF plan
  <2> QED
    BY <1>1, <2>1, <2>2
<1> QED
  BY <1>2, <1>3 DEF PreviewStep, RetryStep

\* A request's own step keeps its DrivenAt.
LEMMA StepDriven ==
    ASSUME NameInv, NEW r \in Requests, FreshAt(r), DeployAt(r),
           DrivenAt(r), Fits(preview[Tok(r)]), Step(r) \/ Fault(r)
    PROVE  DrivenAt(r)'
<1>T. /\ host \in [Packages -> Versions] /\ pc \in [Requests -> Pcs]
      /\ todo \in [Requests -> SUBSET Packages] /\ out \in [Requests -> JobStates]
      /\ Decided'
  BY NextName DEF NameInv, TypeInv, TypeOK, HostState, Next
<1>0. /\ pc[r] # "idle" /\ Plan(r).pkgs \subseteq Packages
      /\ Plan(r)' = Plan(r) /\ Mode(r)' = Mode(r) /\ Kind(r)' = Kind(r) /\ Digest(r)' = Digest(r)
      /\ Digest(r) \in [Packages -> Versions]
  BY StepFrames, FaultFrames, CallFacts
  DEF NameInv, RequestFrame, Plan, Tok, Mode, Kind, Digest, Previews, HostState
<1>K. Kind(r) \in {"install", "adopt", "update", "remove", "application"}
  BY <1>0, CallFacts DEF NameInv, Kinds, ComponentActions
<1>D. DecidedAt(r) /\ DecidedAt(r)'
  BY <1>T DEF NameInv, Decided
<1>1. CASE Mode(r) = "rollback"
  BY <1>0, <1>1, <1>D
  DEF DrivenAt, DecidedAt, RollbackPcs, FinalPcs, DecidedPcs, OutcomesOf
<1>2. CASE Mode(r) # "rollback"
  <2> USE DEF DrivenAt, Goto, hostVars, ChangingPcs, MutatingPcs
  <2>1. ASSUME host' = host, todo' = todo, HostDriven(r),
               pc[r] \in {"unwind", "settle"} => pc'[r] \in {"unwind", "settle"}
        PROVE  HostDriven(r)'
    BY <1>0, <2>1 DEF HostDriven, Done, Applied, Present
  <2>2. CASE \/ EnterMutex(r) \/ TakeMemory(r) \/ SelectRow(r) \/ ConsumeRow(r) \/ CheckHost(r)
             \/ AcquireLock(r) \/ PushQueued(r)
    BY <1>T, <1>2, <2>2
    DEF Refuse, EnterMutex, TakeMemory, SelectRow, ConsumeRow, CheckHost, AcquireLock, PushQueued
  <2>3. CASE Begin(r)
    <3>1. /\ Listing(host) = Digest(r) /\ host' = host
          /\ todo'[r] = Plan(r).pkgs /\ pc'[r] = "apply"
      BY <1>T, <1>2, <2>3 DEF Begin, FreshAt, Digest
    <3>2. Applied(r)' = {}
      BY <1>0, <3>1 DEF Applied
    <3> QED
      BY <1>0, <3>1, <3>2 DEF HostDriven, Listing
  <2>4. CASE ApplyPackage(r)
    <3>1. PICK q \in todo[r] : /\ host' = ApplyTo(host, Kind(r), q)
                               /\ todo' = [todo EXCEPT ![r] = @ \ {q}]
      BY <2>4 DEF ApplyPackage
    <3>2. pc[r] = "apply" /\ pc'[r] \in {"apply", "dismantle", "unwind"} /\ HostDriven(r)
      BY <1>T, <1>2, <2>4 DEF ApplyPackage, Compensate
    <3>3. q \in Packages /\ q \in Plan(r).pkgs /\ q \notin Applied(r)
      BY <1>0, <3>1, <3>2 DEF Applied
    <3>4. Applied(r)' = Applied(r) \cup {q}
      BY <1>0, <1>T, <3>1, <3>3 DEF Applied
    <3>5. /\ host'[q] = Effect(Kind(r), q, host[q])
          /\ \A o \in Packages \ {q} : host'[o] = host[o]
      BY <1>T, <3>1, <3>3 DEF ApplyTo
    <3>6. Listed(host[q]) = Digest(r)[q]
      BY <3>2, <3>3 DEF HostDriven
    <3>7. Done(r, q)'
      <4>1. CASE Kind(r) \in {"install", "application"}
        BY <1>0, <3>5, <4>1 DEF Done, Effect, Present
      <4>2. CASE Kind(r) = "remove"
        BY <1>0, <1>T, <3>1, <3>3, <4>2, RemoveEffect DEF Done
      <4>3. CASE Kind(r) \in {"adopt", "update"}
        BY <1>0, <1>T, <3>5, <3>6, <4>3 DEF Done, Effect, Listed
      <4> QED
        BY <1>K, <4>1, <4>2, <4>3
    <3>8. HostDriven(r)'
      <4> SUFFICES ASSUME NEW o \in Packages \ {q}
                   PROVE  IF o \in Applied(r)' THEN Done(r, o)'
                          ELSE Listed(host'[o]) = Digest(r)[o]
        BY <1>0, <3>4, <3>7 DEF HostDriven
      <4> QED
        BY <1>0, <3>2, <3>4, <3>5 DEF HostDriven, Done, Present
    <3> QED
      BY <1>0, <1>T, <3>1, <3>2, <3>8
  <2>5. CASE ApplyFails(r)
    BY <1>T, <2>5 DEF ApplyFails
  <2>6. CASE Checkpoint(r)
    BY <1>T, <1>2, <2>1, <2>6 DEF Checkpoint, Compensate
  <2>7. CASE Provision(r) \/ ProvisionFails(r)
    BY <1>T, <1>2, <2>1, <2>7 DEF Provision, ProvisionFails, Compensate
  <2>8. CASE Validate(r) \/ ValidateFails(r)
    BY <1>0, <1>T, <1>2, <2>1, <2>8 DEF Validate, ValidateFails, Compensate
  <2>9. CASE RejectApplication(r) \/ Settle(r) \/ PersistDeployment(r) \/ Release(r) \/ Abandon(r)
    BY <1>T, <2>9 DEF RejectApplication, Settle, PersistDeployment, Release, Abandon
  <2>10. CASE SetManaged(r)
    <3>1. Kind(r) # "application" /\ out[r] # "cancelled"
      BY <2>10 DEF SetManaged, NameInv, TypeInv, ManageBound
    <3> QED
      BY <1>0, <1>T, <1>2, <2>1, <2>10, <3>1 DEF SetManaged
  <2>11. CASE Dismantle(r)
    BY <1>T, <1>2, <2>1, <2>11 DEF Dismantle
  <2>12. CASE UnwindPackage(r)
    <3>1. PICK q \in Applied(r) : /\ host' = ApplyTo(host, "remove", q)
                                 /\ todo' = [todo EXCEPT ![r] = @ \cup {q}]
      BY <2>12 DEF UnwindPackage
    <3>2. pc[r] = "unwind" /\ pc' = pc /\ HostDriven(r)
      BY <1>2, <2>12 DEF UnwindPackage
    <3>3. q \in Packages /\ q \in Plan(r).pkgs
      BY <1>0 DEF Applied
    <3>4. ~Present(host', q) /\ \A o \in Packages \ {q} : host'[o] = host[o]
      BY <1>T, <3>1, <3>3, RemoveEffect
    <3>5. Applied(r)' = Applied(r) \ {q}
      BY <1>0, <1>T, <3>1 DEF Applied
    <3>6. HostDriven(r)'
      <4> SUFFICES ASSUME NEW o \in Packages \ {q}
                   PROVE  IF o \in Applied(r)' THEN Done(r, o)'
                          ELSE \/ Listed(host'[o]) = Digest(r)[o]
                               \/ o \in Plan(r).pkgs /\ ~Present(host', o)
        BY <1>0, <3>2, <3>3, <3>4, <3>5 DEF HostDriven
      <4> QED
        BY <1>0, <3>2, <3>4, <3>5 DEF HostDriven, Done, Present
    <3> QED
      BY <3>2, <3>6
  <2>13. CASE UnwindEnds(r)
    BY <1>0, <1>T, <1>2, <2>1, <2>13 DEF UnwindEnds, Applied, DeployAt, Removable
  <2>14. CASE Reopen(r)
    BY <1>2, <1>D, <2>14 DEF Reopen, DecidedAt
  <2> QED
    BY <2>2, <2>3, <2>4, <2>5, <2>6, <2>7, <2>8, <2>9, <2>10, <2>11, <2>12, <2>13, <2>14
    DEF Step, Fault
<1> QED
  BY <1>1, <1>2
\* DrivenInv is inductive without retries and disturbances.
LEMMA NextDriven ==
    ASSUME Undisturbed, DrivenInv, [Next]_vars, [~RetryStep]_vars
    PROVE  DrivenInv'
<1> DEFINE Goal == PlansFit' /\ \A r \in Requests : DrivenAt(r)'
<1>0. TypeInv /\ NameInv /\ MutexInv /\ FreshInv' /\ AppsInv'
  BY NextFresh, NextApps DEF DrivenInv, FreshInv, AppsInv, MutexInv
<1>1. ASSUME NEW r \in Requests, Step(r) \/ Fault(r)
      PROVE  Goal
  <2>1. /\ \A s \in Requests \ {r} : pc'[s] = pc[s]
        /\ UNCHANGED <<call, preview>>
        /\ pc[r] # "idle" /\ Tok(r) \in Tokens /\ preview[Tok(r)] # NoPreview
    BY <1>0, <1>1, StepFrames, FaultFrames, CallFacts, NullAssumption DEF RequestFrame
  <2>2. PlansFit'
    BY <2>1 DEF DrivenInv, PlansFit
  <2>3. DrivenAt(r)'
    BY <1>0, <1>1, <2>1, StepDriven DEF DrivenInv, FreshInv, AppsInv, PlansFit
  <2>4. host' = host \/ pc[r] \in {"apply", "unwind"}
    BY <1>1, StepHost DEF Undisturbed
  <2>5. ASSUME NEW s \in Requests \ {r}, pc[s] \in ChangingPcs, host' # host
        PROVE  FALSE
    <3>1. NeedsMutex(pc[s], Mode(s)) /\ NeedsMutex(pc[r], Mode(r)) /\ pc[s] # "idle"
      BY <2>4, <2>5 DEF NeedsMutex, MutatingPcs, ChangingPcs
    <3>2. At(s) = At(r)
      BY <1>0, <2>1, <3>1, CallFacts DEF Undisturbed, OneProcess
    <3> QED
      BY <1>0, <2>5, <3>1, <3>2 DEF MutexInv, MutexHeld
  <2>6. \A s \in Requests \ {r} : todo'[s] = todo[s] /\ out'[s] = out[s]
    BY <1>0, <1>1, StepTodo, StepRecords DEF RecordFrame, NameInv, Decided
  <2>7. \A s \in Requests \ {r} : DrivenAt(s)'
    BY <2>1, <2>5, <2>6
    DEF DrivenInv, DrivenAt, HostDriven, Done, Present, Applied, Digest, Kind, Mode, Plan, Tok
  <2> QED
    BY <2>2, <2>3, <2>7
<1>2. ASSUME UNCHANGED <<host, todo, out>>,
             \A r \in Requests : \/ pc'[r] = pc[r] /\ call'[r] = call[r]
                                 \/ pc'[r] \in FinalPcs \cup {"enter", "take"},
             \A r \in Requests : pc[r] # "idle" => preview'[Tok(r)] = preview[Tok(r)]
      PROVE  \A r \in Requests : DrivenAt(r)'
  <2>1. ASSUME NEW r \in Requests, pc'[r] \in FinalPcs \cup {"idle", "enter", "take"}
        PROVE  DrivenAt(r)'
    BY <2>1 DEF DrivenAt, ChangingPcs, MutatingPcs, FinalPcs
  <2>2. ASSUME NEW r \in Requests, pc'[r] = pc[r], call'[r] = call[r], pc[r] # "idle"
        PROVE  DrivenAt(r)'
    <3>1. /\ Digest(r)' = Digest(r) /\ Plan(r)' = Plan(r) /\ Mode(r)' = Mode(r)
          /\ Applied(r)' = Applied(r) /\ Kind(r)' = Kind(r)
      BY <1>2, <2>2 DEF Digest, Plan, Mode, Applied, Kind, Tok
    <3> QED
      BY <1>2, <2>2, <3>1 DEF DrivenInv, DrivenAt, HostDriven, Done, Present
  <2> QED
    BY <1>2, <2>1, <2>2
<1>3. ASSUME NEW p \in Procs, ProcessStep(p)
      PROVE  Goal
  <2>1. /\ UNCHANGED <<call, preview, out>>
        /\ \A r \in Requests : pc'[r] = pc[r] \/ pc'[r] \in FinalPcs
    BY <1>0, <1>3, ProcessFrame, ProcessRecords DEF FinalPcs
  <2>2. PlansFit'
    BY <2>1 DEF DrivenInv, PlansFit
  <2>3. CASE Exit(p)
    <3>1. \A r \in Requests : pc'[r] \in FinalPcs \cup {"idle"}
      BY <1>0, <2>3, CallFacts DEF Exit, InFlight, FinalPcs, Undisturbed, OneProcess
    <3> QED
      BY <2>2, <3>1 DEF DrivenAt, ChangingPcs, MutatingPcs, FinalPcs
  <2>4. CASE ~Exit(p)
    <3>1. UNCHANGED <<host, todo>>
      BY <1>3, <2>4
      DEF ProcessStep, Start, Reconcile, ReconcileRead, ReconcileMark, ReconcileClear, RunDrop,
          hostVars
    <3> QED
      BY <1>2, <2>1, <2>2, <3>1
  <2> QED
    BY <2>3, <2>4
<1>4. ASSUME NEW p \in Procs, NEW t \in Tokens, PreviewStep(p, t)
      PROVE  Goal
  <2>1. PICK plan \in Plans : Draft(p, t, plan)
    BY <1>0, <1>4, PreviewDrafts
  <2>2. \A r \in Requests : pc[r] # "idle" => preview'[Tok(r)] = preview[Tok(r)]
    BY <1>0, <2>1 DEF Draft, TypeInv, TypeOK, CallsBound, Tok
  <2>3. \A r \in Requests : DrivenAt(r)'
    BY <1>2, <2>1, <2>2 DEF Draft, hostVars
  <2>4. ~RetryStep
    <3>1. stage' # stage
      BY <1>0, <2>1 DEF Draft, TypeInv, TypeOK
    <3> QED
      BY <3>1 DEF vars, planVars
  <2> QED
    BY <1>0, <1>4, <2>3, <2>4, PreviewFits DEF DrivenInv
<1>5. ASSUME NEW t \in Tokens, IssueStep(t)
      PROVE  Goal
  <2>1. UNCHANGED <<host, todo, out, call, pc, preview>>
    BY <1>5 DEF IssueStep, PersistPlan, RememberPreview, hostVars
  <2>2. PlansFit'
    BY <2>1 DEF DrivenInv, PlansFit
  <2> QED
    BY <1>2, <2>1, <2>2
<1>6. ASSUME NEW p \in Procs, ClientStep(p)
      PROVE  Goal
  <2>1. UNCHANGED <<host, preview, todo, out>>
    BY <1>6 DEF ClientStep, Submit, SubmitRollback, Cancel, hostVars, planVars
  <2>2. \A r \in Requests : \/ pc'[r] = pc[r] /\ call'[r] = call[r]
                            \/ pc'[r] \in {"enter", "take"}
    BY <1>0, <1>6 DEF ClientStep, Submit, SubmitRollback, Cancel, Goto, TypeInv, TypeOK
  <2>3. PlansFit'
    BY <2>1 DEF DrivenInv, PlansFit
  <2> QED
    BY <1>2, <2>1, <2>2, <2>3
<1>7. ASSUME EnvStep \/ UNCHANGED vars
      PROVE  Goal
  <2>1. UNCHANGED <<host, call, pc, preview, todo, out>>
    <3>1. ASSUME NEW t \in Tokens, Expire(t)
          PROVE  UNCHANGED <<host, call, pc, preview, todo, out>>
      BY <3>1 DEF Expire, hostVars
    <3>2. CASE UNCHANGED vars
      BY <3>2 DEF vars, hostVars, planVars
    <3> QED
      BY <1>7, <3>1, <3>2 DEF EnvStep, DrivenInv, FreshInv
  <2>2. PlansFit'
    BY <2>1 DEF DrivenInv, PlansFit
  <2> QED
    BY <1>2, <2>1, <2>2
<1> QED
  BY <1>0, <1>1, <1>3, <1>4, <1>5, <1>6, <1>7, NextCases DEF DrivenInv
\* Nothing is driven, previewed or provisioned at first.
LEMMA InitDriven == Init => DrivenInv
<1> SUFFICES ASSUME Init PROVE DrivenInv
  OBVIOUS
<1>1. NameInv
  BY InitJob DEF JobInv
<1>2. FreshInv
  BY InitType DEF Init, FreshInv, FreshAt, MutexInv, MutexHeld, NeedsMutex, MutatingPcs
<1>3. AppsInv
  BY <1>1 DEF Init, AppsInv, DeployAt, AppAt, InFlight, GuardPcs, QueuedPcs, MutatingPcs
<1> QED
  BY <1>2, <1>3 DEF Init, DrivenInv, PlansFit, DrivenAt, ChangingPcs, MutatingPcs

\* The host that an execution settles on as succeeded is what its plan is for.
LEMMA SucceededHost ==
    ASSUME DrivenInv, NEW r \in Requests, pc[r] = "settle", out[r] = "succeeded"
    PROVE  Achieved(r)
<1>0. NameInv /\ TypeInv /\ DrivenAt(r) /\ DeployAt(r) /\ AppAt(r) /\ DecidedAt(r)
  BY DEF DrivenInv, AppsInv, NameInv, Decided
<1>1. /\ Tok(r) \in Tokens /\ preview[Tok(r)] \in Previews /\ Kind(r) \in Kinds
      /\ Plan(r).pkgs \subseteq Packages
      /\ Kind(r) # "application" => Plan(r).target \in Components
  BY <1>0, CallFacts
<1>2. Fits(preview[Tok(r)])
  BY <1>1, NullAssumption DEF DrivenInv, PlansFit
<1>3. Mode(r) # "rollback"
  BY <1>0 DEF DecidedAt, DecidedPcs, OutcomesOf
<1>4. /\ todo[r] = {} /\ (Kind(r) = "application" => Mode(r) = "deploy")
      /\ HostDriven(r)
  BY <1>0, <1>3 DEF DrivenAt, ChangingPcs, MutatingPcs
<1>5. /\ \A q \in Plan(r).pkgs : Done(r, q)
      /\ \A q \in Packages \ Plan(r).pkgs : Listed(host[q]) = Digest(r)[q]
  BY <1>1, <1>4 DEF HostDriven, Applied
<1>6. Needs(Plan(r)) \subseteq Packages
  BY <1>1, ConfigAssumption DEF Needs, Kind
<1>7. /\ Kind(r) \in {"install", "application"} =>
            Plan(r).pkgs = {q \in Needs(Plan(r)) : Digest(r)[q] = "absent"}
      /\ Kind(r) \in {"adopt", "update"} => Installed(Digest(r), Needs(Plan(r)))
      /\ Kind(r) = "adopt" => Plan(r).pkgs = {}
      /\ Kind(r) \in {"update", "remove"} => Plan(r).pkgs = Needs(Plan(r))
  BY <1>2 DEF Fits, Kind, Plan, Digest
<1>L. \A v : Listed(v) # "absent" => v # "absent"
  BY DEF Listed
<1>8. CASE Kind(r) = "remove"
  BY <1>5, <1>7, <1>8 DEF Done, Needs, Kind, Achieved
<1>9. CASE Kind(r) = "application"
  <2>1. \A q \in Needs(Plan(r)) : host[q] # "absent"
    BY <1>5, <1>6, <1>7, <1>9, <1>L DEF Done, Present
  <2>2. r \in apps
    BY <1>0, <1>4, <1>9 DEF AppAt
  <2> QED
    BY <1>5, <1>9, <2>1, <2>2 DEF Done, Needs, Kind, Installed, Achieved
<1>10. CASE Kind(r) = "install"
  <2>1. \A q \in Needs(Plan(r)) : host[q] # "absent"
    BY <1>5, <1>6, <1>7, <1>10, <1>L DEF Done, Present
  <2> QED
    BY <1>5, <1>10, <2>1 DEF Done, Needs, Kind, Installed, Achieved
<1>11. CASE Kind(r) \in {"adopt", "update"}
  <2>1. \A q \in Needs(Plan(r)) : host[q] # "absent"
    BY <1>5, <1>6, <1>7, <1>11, <1>L DEF Done, Installed
  <2> QED
    BY <1>11, <2>1 DEF Needs, Kind, Installed, Achieved
<1> QED
  BY <1>1, <1>8, <1>9, <1>10, <1>11 DEF Kinds, ComponentActions

\* On an undisturbed panel where no interrupted plan is retried, success is
\* recorded only on a host that is as the plan said, with the application
\* provisioned, whatever was cancelled, failed, crashed or could not be removed
\* before.
THEOREM SuccessHonest ==
    ASSUME Undisturbed
    PROVE  Spec /\ NoRetries => SuccessIsReal
<1> DEFINE Real ==
             \A r \in Requests :
                pc[r] = "settle" /\ pc'[r] # "settle" /\ out[r] = "succeeded" => Achieved(r)
<1>1. DrivenInv => Real
  BY SucceededHost
<1>2. SuccessIsReal <=> [][Real]_vars
  BY DEF SuccessIsReal
<1> QED
  BY <1>1, <1>2, InitDriven, NextDriven, PTL DEF Spec, NoRetries

\* Only the settling of a cancelled execution records cancelled.
LEMMA CancelledHost ==
    ASSUME Removable, DrivenInv, [Next]_vars, NEW r \in Requests,
           jobState[r] # "cancelled", jobState'[r] = "cancelled",
           Kind(r) \in {"install", "adopt", "application"}
    PROVE  Undone(r)
<1>0. NameInv /\ TypeInv /\ jobState \in [Requests -> JobStates] /\ host \in [Packages -> Versions]
  BY DEF DrivenInv, AppsInv, NameInv, TypeInv, TypeOK, HostState
<1>1. ASSUME NEW s \in Requests, Step(s) \/ Fault(s)
      PROVE  Undone(r)
  <2>1. Job(s) = r /\ pc[s] # "idle"
    BY <1>0, <1>1, StepFrames, FaultFrames DEF RequestFrame
  <2>2. pc[s] = "settle" /\ out[s] = "cancelled"
    <3>1. CASE Step(s)
      BY <1>0, <2>1, <3>1
      DEF Step, EnterMutex, TakeMemory, SelectRow, ConsumeRow, CheckHost, AcquireLock, PushQueued,
          Begin, ApplyPackage, Checkpoint, Provision, Validate, RejectApplication, SetManaged,
          Dismantle, UnwindPackage, UnwindEnds, Reopen, Settle, PersistDeployment, Release,
          Refuse, PushJob, jobVars
    <3>2. CASE Fault(s)
      BY <3>2 DEF Fault, ApplyFails, ProvisionFails, ValidateFails, Abandon, jobVars
    <3> QED
      BY <1>1, <3>1, <3>2
  <2>3. Mode(s) # "rollback" /\ s = r
    BY <1>0, <2>1, <2>2 DEF NameInv, JobNames, Decided, DecidedAt, DecidedPcs, OutcomesOf
  <2>4. Applied(r) = {} /\ HostDriven(r)
    BY <2>2, <2>3 DEF DrivenInv, DrivenAt, ChangingPcs, MutatingPcs
  <2>5. Fits(preview[Tok(r)])
    BY <1>0, <2>1, <2>3, CallFacts, NullAssumption DEF DrivenInv, PlansFit
  <2>6. \A q \in Plan(r).pkgs : Digest(r)[q] = "absent"
    BY <2>5 DEF Fits, Digest, Kind, Plan
  <2>7. \A q \in Packages : \/ Listed(host[q]) = Digest(r)[q]
                            \/ Digest(r)[q] = "absent" /\ ~Present(host, q)
    BY <2>4, <2>6 DEF HostDriven
  <2>8. r \notin apps
    BY <2>2, <2>3 DEF DrivenInv, AppsInv, AppAt
  <2> QED
    BY <2>7, <2>8 DEF Digest, Undone
<1>2. ASSUME NEW p \in Procs, ProcessStep(p)
      PROVE  FALSE
  BY <1>2, ProcessRecords DEF ReconcileMark
<1>3. ASSUME NEW p \in Procs, NEW t \in Tokens, PreviewStep(p, t)
      PROVE  FALSE
  BY <1>0, <1>3, PreviewDrafts DEF Draft, jobVars
<1>4. ASSUME NEW t \in Tokens, IssueStep(t)
      PROVE  FALSE
  BY <1>0, <1>4, IssueFrame
<1>5. ASSUME NEW p \in Procs, ClientStep(p)
      PROVE  FALSE
  BY <1>5 DEF ClientStep, Submit, SubmitRollback, Cancel, jobVars
<1>6. ~(EnvStep \/ UNCHANGED vars)
  BY EnvFrame
<1> QED
  BY <1>1, <1>2, <1>3, <1>4, <1>5, <1>6, NextCases

\* If moreover removals do not fail, what is recorded as cancelled has left every
\* package that was listed as it was listed, nothing else installed, and no
\* application.
THEOREM CancelExact ==
    ASSUME Undisturbed, Removable
    PROVE  Spec /\ NoRetries => CancelRestores
<1> DEFINE Restored ==
             \A r \in Requests :
                /\ jobState[r] # "cancelled" /\ jobState'[r] = "cancelled"
                /\ Kind(r) \in {"install", "adopt", "application"}
                => Undone(r)
<1>1. DrivenInv /\ [Next]_vars => Restored
  BY CancelledHost
<1>2. CancelRestores <=> [][Restored]_vars
  BY DEF CancelRestores
<1> QED
  BY <1>1, <1>2, InitDriven, NextDriven, PTL DEF Spec, NoRetries
=============================================================================
