------------------------ MODULE SoftwareCenterProofs ------------------------
(***************************************************************************)
(* Theorems about SoftwareCenter for every number of processes, requests,  *)
(* tokens and packages, and every combination of faults.                   *)
(***************************************************************************)
EXTENDS SoftwareCenterProps, TLAPS

\* A request that was submitted has its arguments, and its token was issued.
CallsBound ==
    \A r \in Requests :
       pc[r] # "idle" => /\ call[r] \in Calls
                         /\ preview[call[r].tok] # NoPreview
                         /\ stage[call[r].tok] = "issued"
                         /\ pc[call[r].job] # "idle"

\* A preview call that has begun has made its plan.
StageBound == \A t \in Tokens : stage[t] # "free" => preview[t] # NoPreview

\* A recorded job and a mutex holder were submitted.
JobsBound == \A j \in Requests : jobState[j] # "none" => pc[j] # "idle"
MutexBound == \A p \in Procs : mutex[p] # NoReq => pc[mutex[p]] # "idle"

\* Only component plans reach set_managed.
ManageBound == \A r \in Requests : pc[r] = "manage" => Kind(r) # "application"

\* A request in flight runs in a live process.
AliveBound == \A r \in Requests : InFlight(r) => pid[At(r)] # NoPid

TypeInv ==
    /\ TypeOK
    /\ CallsBound /\ StageBound /\ JobsBound /\ MutexBound /\ ManageBound /\ AliveBound

\* Where a request must hold the mutex of its process.
NeedsMutex(l, m) ==
    \/ l \in MutatingPcs \cup {"begin", "reopen", "release"}
    \/ m # "start" /\ l \in {"take", "select", "consume", "check", "acquire"}

\* What every step of request r leaves alone, and what it may do to its pc,
\* to the open confirmations and to the mutex.
RequestFrame(r) ==
    /\ pc[r] # "idle" /\ pc'[r] # "idle" /\ InFlight(r)
    /\ \A s \in Requests \ {r} : pc'[s] = pc[s]
    /\ UNCHANGED <<call, preview, stage, pid>>
    /\ \A j \in Requests \ {Job(r)} : jobState'[j] = jobState[j]
    /\ pc'[r] = "manage" => Kind(r) # "application"

TokenFrame(r) ==
    \/ /\ open' = open
       /\ pc'[r] \in PendingPcs \/ pc[r] \notin PendingPcs \/ Mode(r) = "rollback"
    \/ Tok(r) \in open /\ open' = open \ {Tok(r)}

MutexFrame(r) ==
    \/ mutex' = mutex /\ (NeedsMutex(pc'[r], Mode(r)) => NeedsMutex(pc[r], Mode(r)))
    \/ mutex[At(r)] = NoReq /\ mutex' = [mutex EXCEPT ![At(r)] = r]
    \/ FreeMutex(r) /\ pc'[r] \in FinalPcs

\* What dpkg-query lists is a host state too, and names what dpkg knows.
LEMMA ListingFacts ==
    ASSUME NEW h \in HostState
    PROVE  /\ Listing(h) \in HostState
           /\ \A q \in Packages : Listing(h)[q] = "absent" <=> h[q] = "absent"
<1>1. \A v \in Versions : Listed(v) \in Versions /\ (Listed(v) = "absent" <=> v = "absent")
  BY DEF Listed, Versions
<1> QED
  BY <1>1 DEF Listing, HostState


-----------------------------------------------------------------------------
\* apt-get turns one host state into another.
LEMMA EffectType ==
    ASSUME NEW h \in HostState, NEW k, NEW q \in Packages
    PROVE  ApplyTo(h, k, q) \in HostState
  BY DEF HostState, Versions, ApplyTo, Effect, LeftBy

\* What CallsBound gives a step of a submitted request.
LEMMA CallFacts ==
    ASSUME TypeInv, NEW r \in Requests, pc[r] # "idle"
    PROVE  /\ At(r) \in Procs
           /\ Job(r) \in Requests
           /\ Tok(r) \in Tokens
           /\ Mode(r) \in EntryPoints
           /\ preview[Tok(r)] \in Previews
           /\ Plan(r) \in Plans
           /\ Kind(r) \in Kinds
           /\ Plan(r).pkgs \in SUBSET Packages
           /\ Kind(r) # "application" => Plan(r).target \in Components
           /\ pc[Job(r)] # "idle"
<1>1. /\ call[r] \in Calls
      /\ preview[call[r].tok] # NoPreview
      /\ pc[call[r].job] # "idle"
  BY DEF TypeInv, CallsBound
<1>2. preview \in [Tokens -> Previews \cup {NoPreview}]
  BY DEF TypeInv, TypeOK
<1>3. /\ At(r) \in Procs
      /\ Job(r) \in Requests
      /\ Tok(r) \in Tokens
      /\ Mode(r) \in EntryPoints
      /\ pc[Job(r)] # "idle"
  BY <1>1 DEF Calls, At, Job, Tok, Mode
<1>4. preview[Tok(r)] \in Previews
  BY <1>1, <1>2, <1>3 DEF Tok
<1>5. Plan(r) \in Plans
  BY <1>4 DEF Plan, Previews
<1>6. /\ Kind(r) \in Kinds
      /\ Plan(r).pkgs \in SUBSET Packages
      /\ Kind(r) # "application" => Plan(r).target \in Components
  BY <1>5 DEF Plans, Kinds, Kind, ComponentActions
<1> QED BY <1>3, <1>4, <1>5, <1>6

\* The empty database and an idle panel satisfy TypeInv.
LEMMA InitType == Init => TypeInv
<1> SUFFICES ASSUME Init PROVE TypeInv
  OBVIOUS
<1>1. TypeOK
  BY ConfigAssumption, NullAssumption
  DEF Init, TypeOK, HostState, JobStates, Pcs, PendingPcs, Stages
<1>2. CallsBound /\ StageBound /\ JobsBound /\ MutexBound /\ ManageBound /\ AliveBound
  BY NullAssumption
  DEF Init, CallsBound, StageBound, JobsBound, MutexBound, ManageBound, AliveBound, InFlight
<1> QED BY <1>1, <1>2 DEF TypeInv

\* The type invariant is preserved by every step of a request.
LEMMA StepType ==
    ASSUME TypeInv, NEW r \in Requests, Step(r)
    PROVE  TypeOK'
<1> USE DEF Goto, hostVars, planVars, jobVars, bootVars, memVars
<1> USE DEF TypeOK, Pcs, PendingPcs, GuardPcs, QueuedPcs, MutatingPcs, FinalPcs
<1>0. pc[r] # "idle"
  BY DEF Step, EnterMutex, TakeMemory, SelectRow, ConsumeRow, CheckHost,
      AcquireLock, PushQueued, Begin, ApplyPackage, Checkpoint, Provision,
      Validate, RejectApplication, SetManaged, Dismantle, UnwindPackage,
      UnwindEnds, Reopen, Settle, PersistDeployment, Release
<1>T. TypeOK
  BY DEF TypeInv
<1>F. /\ At(r) \in Procs
      /\ Job(r) \in Requests
      /\ Tok(r) \in Tokens
      /\ Plan(r).pkgs \in SUBSET Packages
      /\ TypeOK
  BY <1>0, <1>T, CallFacts
<1>1. CASE EnterMutex(r)
  BY <1>1, <1>F DEF EnterMutex
<1>2. CASE TakeMemory(r)
  BY <1>2, <1>F DEF FreeMutex, Refuse, TakeMemory
<1>3. CASE SelectRow(r)
  BY <1>3, <1>F DEF FreeMutex, Refuse, SelectRow
<1>4. CASE ConsumeRow(r)
  BY <1>4, <1>F DEF FreeMutex, Refuse, ConsumeRow
<1>5. CASE CheckHost(r)
  BY <1>5, <1>F DEF FreeMutex, Refuse, CheckHost
<1>6. CASE AcquireLock(r)
  <2>1. pid[At(r)] \in Pids
    BY <1>6, <1>F DEF AcquireLock, TypeInv, AliveBound, InFlight
  <2> QED
    BY <1>6, <1>F, <2>1 DEF Locks, FreeMutex, Refuse, AcquireLock
<1>7. CASE PushQueued(r)
  BY <1>7, <1>F
  DEF JobStates, ActiveStates, TerminalStates, PushJob, PushQueued
<1>8. CASE Begin(r)
  BY <1>8, <1>F DEF JobStates, ActiveStates, TerminalStates, PushJob, Begin
<1>9. CASE ApplyPackage(r)
  <2>0. todo[r] \subseteq Packages
    BY <1>F
  <2>1. PICK q \in todo[r] : host' = ApplyTo(host, Kind(r), q)
    BY <1>9 DEF ApplyPackage
  <2>2. host' \in HostState
    BY <2>0, <2>1, <1>F, EffectType
  <2> QED
    BY <1>9, <1>F, <2>2
    DEF JobStates, ActiveStates, TerminalStates, TakeCancellation, Compensate,
        ApplyPackage
<1>10. CASE Checkpoint(r)
  <2>1. CASE CancelRequested(r)
    BY <1>10, <1>F, <2>1
    DEF JobStates, ActiveStates, TerminalStates, TakeCancellation, Compensate, Checkpoint
  <2>2. CASE ~CancelRequested(r)
    BY <1>10, <1>F, <2>2 DEF JobStates, ActiveStates, TerminalStates, PushJob, Checkpoint
  <2> QED
    BY <2>1, <2>2
<1>11. CASE Provision(r)
  BY <1>11, <1>F DEF Provision
<1>12. CASE Validate(r)
  <2>1. Mode(r) # "deploy" => Plan(r).target \in Components
    BY <1>12, <1>0, CallFacts DEF Validate
  <2>2. owned' \in [Procs -> SUBSET Components]
    BY <1>12, <1>F, <2>1 DEF Validate, Own
  <2> QED
    BY <1>12, <1>F, <2>2
    DEF JobStates, ActiveStates, TerminalStates, TakeCancellation, Compensate,
        Validate
<1>13. CASE RejectApplication(r)
  BY <1>13, <1>F DEF FreeMutex, DropGuard, RejectApplication
<1>14. CASE SetManaged(r)
  <2>1. Plan(r).target \in Components
    BY <1>14, <1>0, CallFacts DEF SetManaged, TypeInv, ManageBound
  <2> QED
    BY <1>14, <1>F, <2>1 DEF SetManaged
<1>15. CASE Dismantle(r)
  BY <1>15, <1>F DEF Dismantle
<1>16. CASE UnwindPackage(r)
  <2>0. Applied(r) \subseteq Packages
    BY <1>F DEF Applied
  <2>1. PICK q \in Applied(r) : host' = ApplyTo(host, "remove", q)
    BY <1>16 DEF UnwindPackage
  <2>2. host' \in HostState
    BY <2>0, <2>1, <1>F, EffectType
  <2> QED
    BY <1>16, <1>F, <2>2
    DEF JobStates, ActiveStates, TerminalStates, Applied, UnwindPackage
<1>17. CASE UnwindEnds(r)
  BY <1>17, <1>F DEF JobStates, ActiveStates, TerminalStates, UnwindEnds
<1>18. CASE Reopen(r)
  BY <1>18, <1>F DEF JobStates, ActiveStates, TerminalStates, PushJob, Reopen
<1>19. CASE Settle(r)
  BY <1>19, <1>F
  DEF JobStates, ActiveStates, TerminalStates, FreeMutex, PushJob, DropGuard,
      Settle
<1>20. CASE PersistDeployment(r)
  BY <1>20, <1>F DEF PersistDeployment
<1>21. CASE Release(r)
  BY <1>21, <1>F DEF FreeMutex, Release
<1> QED
  BY <1>1, <1>2, <1>3, <1>4, <1>5, <1>6, <1>7, <1>8, <1>9, <1>10, <1>11,
     <1>12, <1>13, <1>14, <1>15, <1>16, <1>17, <1>18, <1>19, <1>20,
     <1>21 DEF Step

\* Every step of a request stays within the frames.
LEMMA StepFrames ==
    ASSUME TypeInv, NEW r \in Requests, Step(r)
    PROVE  RequestFrame(r) /\ TokenFrame(r) /\ MutexFrame(r)
<1> USE DEF Goto, hostVars, planVars, jobVars, bootVars, memVars
<1> USE DEF RequestFrame, TokenFrame, MutexFrame, NeedsMutex, InFlight,
            PendingPcs, MutatingPcs, FinalPcs
<1>T. /\ pc \in [Requests -> Pcs]
      /\ jobState \in [Requests -> JobStates]
      /\ mutex \in [Procs -> Requests \cup {NoReq}]
  BY DEF TypeInv, TypeOK
<1>1. CASE EnterMutex(r)
  BY <1>1, <1>T DEF EnterMutex
<1>2. CASE TakeMemory(r)
  BY <1>2, <1>T DEF FreeMutex, Refuse, TakeMemory
<1>3. CASE SelectRow(r)
  BY <1>3, <1>T DEF FreeMutex, Refuse, SelectRow
<1>4. CASE ConsumeRow(r)
  BY <1>4, <1>T DEF FreeMutex, Refuse, ConsumeRow
<1>5. CASE CheckHost(r)
  BY <1>5, <1>T DEF FreeMutex, Refuse, CheckHost
<1>6. CASE AcquireLock(r)
  BY <1>6, <1>T DEF FreeMutex, Refuse, AcquireLock
<1>7. CASE PushQueued(r)
  BY <1>7, <1>T DEF PushJob, PushQueued
<1>8. CASE Begin(r)
  BY <1>8, <1>T DEF PushJob, Begin
<1>9. CASE ApplyPackage(r)
  BY <1>9, <1>T DEF TakeCancellation, Compensate, ApplyPackage
<1>10. CASE Checkpoint(r)
  BY <1>10, <1>T DEF PushJob, TakeCancellation, Compensate, Checkpoint
<1>11. CASE Provision(r)
  BY <1>11, <1>T DEF Provision
<1>12. CASE Validate(r)
  BY <1>12, <1>T DEF TakeCancellation, Compensate, Validate
<1>13. CASE RejectApplication(r)
  BY <1>13, <1>T DEF FreeMutex, DropGuard, RejectApplication
<1>14. CASE SetManaged(r)
  BY <1>14, <1>T DEF SetManaged
<1>15. CASE Dismantle(r)
  BY <1>15, <1>T DEF Dismantle
<1>16. CASE UnwindPackage(r)
  BY <1>16, <1>T DEF UnwindPackage
<1>17. CASE UnwindEnds(r)
  BY <1>17, <1>T DEF UnwindEnds
<1>18. CASE Reopen(r)
  BY <1>18, <1>T DEF PushJob, Reopen
<1>19. CASE Settle(r)
  BY <1>19, <1>T DEF FreeMutex, PushJob, DropGuard, Settle
<1>20. CASE PersistDeployment(r)
  BY <1>20, <1>T DEF PersistDeployment
<1>21. CASE Release(r)
  BY <1>21, <1>T DEF FreeMutex, Release
<1> QED
  BY <1>1, <1>2, <1>3, <1>4, <1>5, <1>6, <1>7, <1>8, <1>9, <1>10, <1>11,
     <1>12, <1>13, <1>14, <1>15, <1>16, <1>17, <1>18, <1>19, <1>20,
     <1>21 DEF Step

\* So does every failure.
LEMMA FaultFrames ==
    ASSUME TypeInv, NEW r \in Requests, Fault(r)
    PROVE  RequestFrame(r) /\ TokenFrame(r) /\ MutexFrame(r)
<1> USE DEF Goto, hostVars, planVars, jobVars, bootVars, memVars
<1> USE DEF RequestFrame, TokenFrame, MutexFrame, NeedsMutex, InFlight,
            PendingPcs, MutatingPcs, FinalPcs
<1>T. /\ pc \in [Requests -> Pcs]
      /\ jobState \in [Requests -> JobStates]
      /\ mutex \in [Procs -> Requests \cup {NoReq}]
  BY DEF TypeInv, TypeOK
<1>1. CASE ApplyFails(r)
  BY <1>1, <1>T DEF ApplyFails
<1>2. CASE ProvisionFails(r)
  BY <1>2, <1>T DEF Compensate, ProvisionFails
<1>3. CASE ValidateFails(r)
  BY <1>3, <1>T DEF Compensate, ValidateFails
<1>4. CASE Abandon(r)
  BY <1>4, <1>T DEF GuardPcs, QueuedPcs, FreeMutex, DropGuard, Abandon
<1> QED
  BY <1>1, <1>2, <1>3, <1>4 DEF Fault

\* What an interrupted apt-get leaves is a host state.
LEMMA InterruptedType ==
    ASSUME TypeOK, NEW k \in Kinds, NEW S \in SUBSET Packages, Interrupted(k, S)
    PROVE  host' \in HostState /\ orphans' \in SUBSET [kind : Kinds, pkg : Packages]
<1>1. CASE UNCHANGED <<host, orphans>>
  BY <1>1 DEF TypeOK
<1>2. CASE \E q \in S : host' = ApplyTo(host, k, q) /\ UNCHANGED orphans
  BY <1>2, EffectType DEF TypeOK
<1>3. CASE /\ \E q \in S : orphans' = orphans \cup {[kind |-> k, pkg |-> q]}
           /\ UNCHANGED host
  BY <1>3 DEF TypeOK
<1> QED
  BY <1>1, <1>2, <1>3 DEF Interrupted

\* The type invariant is preserved by every failure of a request.
LEMMA FaultType ==
    ASSUME TypeInv, NEW r \in Requests, Fault(r)
    PROVE  TypeOK'
<1> USE DEF Goto, hostVars, planVars, jobVars, bootVars, memVars
<1> USE DEF TypeOK, Pcs, PendingPcs, GuardPcs, QueuedPcs, MutatingPcs, FinalPcs
<1>0. pc[r] # "idle"
  BY DEF Fault, ApplyFails, ProvisionFails, ValidateFails, Abandon, InFlight
<1>T. TypeOK
  BY DEF TypeInv
<1>F. /\ At(r) \in Procs
      /\ Job(r) \in Requests
      /\ Kind(r) \in Kinds
      /\ TypeOK
  BY <1>0, <1>T, CallFacts
<1>1. CASE ApplyFails(r)
  <2>0. todo[r] \subseteq Packages
    BY <1>F
  <2>1. PICK q \in todo[r] : host' \in {host, ApplyTo(host, Kind(r), q)}
    BY <1>1 DEF ApplyFails
  <2>2. host' \in HostState
    BY <2>0, <2>1, <1>F, EffectType
  <2> QED
    BY <1>1, <1>F, <2>2 DEF ApplyFails, JobStates, TerminalStates
<1>2. CASE ProvisionFails(r)
  BY <1>2, <1>F DEF ProvisionFails, Compensate, JobStates, TerminalStates
<1>3. CASE ValidateFails(r)
  BY <1>3, <1>F DEF ValidateFails, Compensate, JobStates, TerminalStates
<1>4. CASE Abandon(r)
  <2>1. Touching(r) \in SUBSET Packages
    BY <1>F DEF Touching
  <2>2. host' \in HostState /\ orphans' \in SUBSET [kind : Kinds, pkg : Packages]
    <3>1. CASE Touching(r) # {}
      BY <1>4, <2>1, <3>1, <1>F, InterruptedType DEF Abandon
    <3>2. CASE Touching(r) = {}
      BY <1>4, <3>2, <1>F DEF Abandon
    <3> QED BY <3>1, <3>2
  <2>3. mutex' \in [Procs -> Requests \cup {NoReq}] /\ drops' \in [Procs -> SUBSET Requests]
    BY <1>4, <1>F DEF Abandon, FreeMutex, DropGuard
  <2>4. pc' \in [Requests -> Pcs]
    BY <1>4, <1>F DEF Abandon
  <2>5. UNCHANGED <<apps, planVars, jobVars, bootVars, memVars, call, todo, out>>
    BY <1>4 DEF Abandon
  <2> QED
    BY <2>2, <2>3, <2>4, <2>5, <1>F
<1> QED
  BY <1>1, <1>2, <1>3, <1>4 DEF Fault

\* A step within the frames keeps the bounds of TypeInv.
LEMMA FrameBounds ==
    ASSUME TypeInv, TypeOK', NEW r \in Requests, RequestFrame(r), MutexFrame(r)
    PROVE  TypeInv'
<1>F. At(r) \in Procs /\ Job(r) \in Requests /\ pc[Job(r)] # "idle"
  BY CallFacts DEF RequestFrame
<1>T. /\ \A s \in Requests : pc'[s] = "idle" <=> pc[s] = "idle"
      /\ UNCHANGED <<call, preview, stage, pid>>
  BY DEF RequestFrame
<1>1. CallsBound'
  BY <1>T DEF TypeInv, CallsBound, Calls
<1>2. JobsBound'
  BY <1>T, <1>F DEF TypeInv, JobsBound, RequestFrame
<1>3. MutexBound'
  <2>1. \A p \in Procs : mutex'[p] \in {NoReq, r, mutex[p]}
    BY <1>F DEF MutexFrame, FreeMutex, TypeInv, TypeOK
  <2>2. \A p \in Procs : mutex[p] # NoReq => mutex[p] \in Requests
    BY DEF TypeInv, TypeOK
  <2> QED
    BY <2>1, <2>2, <1>T DEF TypeInv, MutexBound, RequestFrame
<1>4. ManageBound'
  BY DEF TypeInv, ManageBound, RequestFrame, Kind, Plan, Tok
<1>5. AliveBound'
  BY <1>T DEF TypeInv, AliveBound, RequestFrame, At, InFlight
<1>6. StageBound'
  BY <1>T DEF TypeInv, StageBound
<1> QED
  BY <1>1, <1>2, <1>3, <1>4, <1>5, <1>6 DEF TypeInv

-----------------------------------------------------------------------------
(* Steps that are not a request's own.                                     *)

\* Processes starting, reconciling, exiting, running dropped deletes.
ProcessStep(p) ==
    (\E i \in Pids : Start(p, i)) \/ Reconcile(p) \/ Exit(p) \/ RunDrop(p)

\* The type invariant is preserved by the steps of a process.
LEMMA ProcessType ==
    ASSUME TypeInv, NEW p \in Procs, ProcessStep(p)
    PROVE  TypeOK'
<1> USE DEF hostVars, planVars, jobVars, bootVars, memVars
<1>T. TypeOK
  BY DEF TypeInv
<1>1. ASSUME NEW i \in Pids, Start(p, i)
      PROVE  TypeOK'
  BY <1>1, <1>T DEF Start, TypeOK
<1>2. CASE ReconcileRead(p)
  BY <1>2, <1>T DEF ReconcileRead, TypeOK
<1>3. CASE ReconcileMark(p)
  BY <1>3, <1>T DEF ReconcileMark, TypeOK, JobStates, TerminalStates
<1>4. CASE ReconcileClear(p)
  BY <1>4, <1>T DEF ReconcileClear, TypeOK
<1>5. CASE RunDrop(p)
  BY <1>5, <1>T DEF RunDrop, TypeOK
<1>6. CASE Exit(p)
  <2>1. host' \in HostState /\ orphans' \in SUBSET [kind : Kinds, pkg : Packages]
    <3>1. CASE mutex[p] # NoReq /\ Touching(mutex[p]) # {}
      <4>1. mutex[p] \in Requests /\ pc[mutex[p]] # "idle"
        BY <3>1, <1>T DEF TypeOK, TypeInv, MutexBound
      <4>2. Kind(mutex[p]) \in Kinds
        BY <4>1, CallFacts
      <4>3. Touching(mutex[p]) \in SUBSET Packages
        BY <4>1, <1>T DEF TypeOK, Touching
      <4> QED
        BY <1>6, <3>1, <4>2, <4>3, <1>T, InterruptedType DEF Exit
    <3>2. CASE ~(mutex[p] # NoReq /\ Touching(mutex[p]) # {})
      BY <1>6, <3>2, <1>T DEF Exit, TypeOK
    <3> QED BY <3>1, <3>2
  <2>2. exits' \in 0..MaxExits
    BY <1>6, <1>T, ConfigAssumption DEF Exit, TypeOK
  <2>3. pc' \in [Requests -> Pcs]
    BY <1>6, <1>T DEF Exit, TypeOK, Pcs, FinalPcs
  <2>4. stage' \in [Tokens -> Stages]
    BY <1>6, <1>T DEF Exit, TypeOK, Stages
  <2> QED
    BY <1>6, <1>T, <2>1, <2>2, <2>3, <2>4 DEF Exit, TypeOK
<1> QED
  BY <1>1, <1>2, <1>3, <1>4, <1>5, <1>6 DEF ProcessStep, Reconcile

\* What a process step does to the requests it does not run.
LEMMA ProcessFrame ==
    ASSUME TypeInv, NEW p \in Procs, ProcessStep(p)
    PROVE  /\ UNCHANGED <<call, preview, open>>
           /\ \A t \in Tokens : stage[t] = "issued" => stage'[t] = "issued"
           /\ \A t \in Tokens : stage'[t] # "free" => stage[t] # "free"
           /\ \A r \in Requests :
                 \/ pc'[r] = pc[r] /\ (InFlight(r) => pid'[At(r)] # NoPid)
                 \/ InFlight(r) /\ pc[r] \in PendingPcs /\ pc'[r] = "refused"
                 \/ InFlight(r) /\ pc[r] \notin PendingPcs /\ pc'[r] = "lost"
           /\ \A j \in Requests : jobState[j] = "none" => jobState'[j] = "none"
           /\ \A q \in Procs : mutex'[q] \in {mutex[q], NoReq}
           /\ \A r \in Requests : InFlight(r)' => mutex'[At(r)] = mutex[At(r)]
<1> USE DEF hostVars, planVars, jobVars, bootVars, memVars
<1>T. TypeOK /\ AliveBound
  BY DEF TypeInv
<1>A. \A r \in Requests : InFlight(r) => At(r) \in Procs
  BY CallFacts DEF InFlight
<1>1. ASSUME NEW i \in Pids, Start(p, i)
      PROVE  UNCHANGED <<call, preview, stage, open, pc, jobState, mutex>>
             /\ \A r \in Requests : InFlight(r) => pid'[At(r)] # NoPid
  BY <1>1, <1>T, <1>A, NullAssumption DEF Start, TypeOK, AliveBound
<1>2. CASE ReconcileRead(p) \/ ReconcileClear(p) \/ RunDrop(p)
  BY <1>2, <1>T DEF ReconcileRead, ReconcileClear, RunDrop, AliveBound, InFlight
<1>3. CASE ReconcileMark(p)
  BY <1>3, <1>T DEF ReconcileMark, AliveBound, InFlight, ActiveStates
<1>4. CASE Exit(p)
  BY <1>4, <1>T, <1>A DEF Exit, AliveBound, TypeOK, InFlight, FinalPcs, PendingPcs, At
<1> QED
  BY <1>1, <1>2, <1>3, <1>4 DEF ProcessStep, Reconcile, InFlight

\* A process step keeps the bounds of TypeInv.
LEMMA ProcessBounds ==
    ASSUME TypeInv, TypeOK', NEW p \in Procs, ProcessStep(p)
    PROVE  TypeInv'
<1>T. \A r \in Requests : pc'[r] = "idle" <=> pc[r] = "idle"
  BY ProcessFrame DEF InFlight, PendingPcs
<1>1. CallsBound'
  <2>1. UNCHANGED <<call, preview>>
    BY ProcessFrame
  <2>2. \A t \in Tokens : stage[t] = "issued" => stage'[t] = "issued"
    BY ProcessFrame
  <2> QED
    BY <1>T, <2>1, <2>2 DEF TypeInv, CallsBound, Calls
<1>2. JobsBound'
  BY <1>T, ProcessFrame DEF TypeInv, JobsBound
<1>3. MutexBound'
  <2>1. \A q \in Procs : mutex[q] # NoReq => mutex[q] \in Requests
    BY DEF TypeInv, TypeOK
  <2> QED
    BY <2>1, <1>T, ProcessFrame DEF TypeInv, MutexBound
<1>4. ManageBound'
  BY ProcessFrame DEF TypeInv, ManageBound, Kind, Plan, Tok
<1>5. AliveBound'
  BY ProcessFrame DEF TypeInv, AliveBound, At, InFlight, FinalPcs
<1>6. StageBound'
  BY ProcessFrame DEF TypeInv, StageBound
<1> QED
  BY <1>1, <1>2, <1>3, <1>4, <1>5, <1>6 DEF TypeInv

\* Making the plan of a preview.
PreviewStep(p, t) ==
    \/ \E c \in Components, a \in PlanKinds \cap ComponentActions :
          PreviewComponent(p, t, c, a)
    \/ PreviewDeployment(p, t)
    \/ \E j \in Requests : RetryPreview(p, t, j)

\* Every preview drafts a well-formed plan under a fresh token.
LEMMA PreviewDrafts ==
    ASSUME TypeInv, NEW p \in Procs, NEW t \in Tokens, PreviewStep(p, t)
    PROVE  \E plan \in Plans : Draft(p, t, plan)
<1>1. ASSUME NEW c \in Components, NEW a \in PlanKinds \cap ComponentActions,
             PreviewComponent(p, t, c, a)
      PROVE  PlanFor(c, a) \in Plans /\ Draft(p, t, PlanFor(c, a))
  <2>1. PackagesOf[c] \in SUBSET Packages
    BY ConfigAssumption
  <2> QED
    BY <1>1, <2>1 DEF PreviewComponent, PlanFor, Plans
<1>2. CASE PreviewDeployment(p, t)
  BY <1>2, ConfigAssumption DEF PreviewDeployment, Plans
<1>3. ASSUME NEW j \in Requests, RetryPreview(p, t, j)
      PROVE  Plan(j) \in Plans /\ Draft(p, t, Plan(j))
  BY <1>3, CallFacts DEF RetryPreview, TypeInv, JobsBound
<1> QED
  BY <1>1, <1>2, <1>3 DEF PreviewStep

\* A preview keeps TypeInv: a submitted request's token is not the fresh one.
LEMMA PreviewType ==
    ASSUME TypeInv, NEW p \in Procs, NEW t \in Tokens, PreviewStep(p, t)
    PROVE  TypeInv'
<1> USE DEF hostVars, planVars, jobVars, bootVars, memVars
<1>1. PICK plan \in Plans : Draft(p, t, plan)
  BY PreviewDrafts
<1>2. [plan |-> plan, digest |-> Listing(host), by |-> p] \in Previews
  BY ListingFacts DEF TypeInv, TypeOK, Previews
<1>3. TypeOK'
  BY <1>1, <1>2 DEF TypeInv, TypeOK, Draft, Stages
<1>4. /\ stage[t] = "free"
      /\ \A u \in Tokens \ {t} : preview'[u] = preview[u] /\ stage'[u] = stage[u]
      /\ preview'[t] # NoPreview
  BY <1>1, <1>2, NullAssumption DEF TypeInv, TypeOK, Draft
<1>5. UNCHANGED <<call, pc, jobState, mutex, pid>>
  BY <1>1 DEF Draft
<1>6. CallsBound' /\ StageBound'
  BY <1>4, <1>5 DEF TypeInv, CallsBound, StageBound, Calls
<1>7. ManageBound'
  BY <1>4, <1>5 DEF TypeInv, CallsBound, Calls, ManageBound, Kind, Plan, Tok
<1> QED
  BY <1>3, <1>5, <1>6, <1>7 DEF TypeInv, JobsBound, MutexBound, AliveBound, InFlight, At

\* The rest of a preview call.
IssueStep(t) == PersistPlan(t) \/ RememberPreview(t)

\* It touches nothing but the row, the map and the call's own progress.
LEMMA IssueFrame ==
    ASSUME TypeInv, NEW t \in Tokens, IssueStep(t)
    PROVE  /\ UNCHANGED <<call, preview, pc, mutex, lock, pid, recon, drops, jobState>>
           /\ stage[t] \notin {"free", "issued"}
           /\ open' \subseteq open \cup {t}
           /\ \A u \in Tokens \ {t} : stage'[u] = stage[u]
           /\ stage' \in [Tokens -> Stages]
  BY DEF IssueStep, PersistPlan, RememberPreview, TypeInv, TypeOK, Stages,
         jobVars, bootVars

\* Issuing a token keeps TypeInv.
LEMMA IssueType ==
    ASSUME TypeInv, NEW t \in Tokens, IssueStep(t)
    PROVE  TypeInv'
<1> USE DEF hostVars, planVars, jobVars, bootVars, memVars
<1>1. stage' \in [Tokens -> Stages]
  BY IssueFrame
<1>2. open' \subseteq Tokens /\ mem' \in [Procs -> SUBSET Tokens]
  BY DEF IssueStep, PersistPlan, RememberPreview, TypeInv, TypeOK
<1>3. UNCHANGED <<hostVars, preview, expired, jobVars, bootVars, cancels, owned, mutex,
                  drops, call, pc, todo, out, orphans>>
  BY DEF IssueStep, PersistPlan, RememberPreview
<1>4. TypeOK'
  BY <1>1, <1>2, <1>3 DEF TypeInv, TypeOK
<1>5. CallsBound' /\ StageBound'
  BY IssueFrame DEF TypeInv, CallsBound, StageBound, Calls
<1> QED
  BY <1>3, <1>4, <1>5
  DEF TypeInv, JobsBound, MutexBound, ManageBound, AliveBound, InFlight, At,
      Kind, Plan, Tok

\* Submitting, cancelling, expiring.
ClientStep(p) ==
    \/ \E r \in Requests, m \in Modes \ {"rollback"}, t \in Tokens : Submit(r, p, m, t)
    \/ \E r, j \in Requests : SubmitRollback(r, p, j)
    \/ \E j \in Requests : Cancel(p, j)

\* A client call keeps TypeInv.
LEMMA ClientType ==
    ASSUME TypeInv, NEW p \in Procs, ClientStep(p)
    PROVE  TypeInv'
<1> USE DEF hostVars, planVars, jobVars, bootVars, memVars
<1>1. ASSUME NEW r \in Requests, NEW m \in Modes \ {"rollback"}, NEW t \in Tokens,
             Submit(r, p, m, t)
      PROVE  TypeInv'
  <2>1. [at |-> p, mode |-> m, tok |-> t, job |-> r] \in Calls
    BY ConfigAssumption DEF Calls
  <2>2. TypeOK'
    BY <1>1, <2>1 DEF Submit, Goto, TypeInv, TypeOK, Pcs, PendingPcs
  <2>3. CallsBound'
    BY <1>1, <2>1 DEF Submit, Goto, TypeInv, TypeOK, CallsBound, StageBound, Calls
  <2>4. JobsBound' /\ MutexBound' /\ StageBound'
    BY <1>1 DEF Submit, Goto, TypeInv, TypeOK, JobsBound, MutexBound, StageBound
  <2>5. ManageBound' /\ AliveBound'
    BY <1>1 DEF Submit, Goto, TypeInv, TypeOK, ManageBound, AliveBound, InFlight, At, Kind, Plan, Tok
  <2> QED
    BY <2>2, <2>3, <2>4, <2>5 DEF TypeInv
<1>2. ASSUME NEW r \in Requests, NEW j \in Requests, SubmitRollback(r, p, j)
      PROVE  TypeInv'
  <2>1. /\ pc[j] # "idle" /\ Tok(j) \in Tokens
        /\ preview[Tok(j)] # NoPreview /\ stage[Tok(j)] = "issued"
    BY <1>2, CallFacts, NullAssumption DEF SubmitRollback, TypeInv, JobsBound, CallsBound, Tok
  <2>2. [at |-> p, mode |-> "rollback", tok |-> Tok(j), job |-> j] \in Calls
    BY <2>1 DEF Calls, EntryPoints
  <2>3. TypeOK'
    BY <1>2, <2>2 DEF SubmitRollback, Goto, TypeInv, TypeOK, Pcs, PendingPcs
  <2>4. CallsBound'
    BY <1>2, <2>1, <2>2 DEF SubmitRollback, Goto, TypeInv, TypeOK, CallsBound, Calls
  <2>5. JobsBound' /\ MutexBound' /\ StageBound'
    BY <1>2 DEF SubmitRollback, Goto, TypeInv, TypeOK, JobsBound, MutexBound, StageBound
  <2>6. ManageBound' /\ AliveBound'
    BY <1>2 DEF SubmitRollback, Ready, Goto, TypeInv, TypeOK, ManageBound, AliveBound, InFlight, At, Kind, Plan, Tok
  <2> QED
    BY <2>3, <2>4, <2>5, <2>6 DEF TypeInv
<1>3. ASSUME NEW j \in Requests, Cancel(p, j)
      PROVE  TypeInv'
  BY <1>3
  DEF Cancel, TypeInv, TypeOK, CallsBound, StageBound, JobsBound, MutexBound, ManageBound,
      AliveBound, InFlight, At, Kind, Plan, Tok
<1> QED
  BY <1>1, <1>2, <1>3 DEF ClientStep

\* Tokens expire and orphaned children finish.
EnvStep == (\E t \in Tokens : Expire(t)) \/ (\E o \in orphans : OrphanEnds(o))

\* The environment keeps TypeInv.
LEMMA EnvType ==
    ASSUME TypeInv, EnvStep
    PROVE  TypeInv'
<1> USE DEF hostVars, planVars, jobVars, bootVars, memVars
<1>1. TypeOK' /\ UNCHANGED <<preview, stage, call, pc, jobState, mutex, pid>>
  <2>1. ASSUME NEW t \in Tokens, Expire(t)
        PROVE  TypeOK' /\ UNCHANGED <<preview, stage, call, pc, jobState, mutex, pid>>
    BY <2>1 DEF Expire, TypeInv, TypeOK
  <2>2. ASSUME NEW o \in orphans, OrphanEnds(o)
        PROVE  TypeOK' /\ UNCHANGED <<preview, stage, call, pc, jobState, mutex, pid>>
    <3>1. o.pkg \in Packages
      BY DEF TypeInv, TypeOK
    <3>2. host' \in HostState
      BY <2>2, <3>1, EffectType DEF OrphanEnds, TypeInv, TypeOK
    <3> QED
      BY <2>2, <3>2 DEF OrphanEnds, TypeInv, TypeOK
  <2> QED
    BY <2>1, <2>2 DEF EnvStep
<1> QED
  BY <1>1
  DEF TypeInv, CallsBound, StageBound, JobsBound, MutexBound, ManageBound,
      AliveBound, InFlight, At, Kind, Plan, Tok

\* Neither touches requests, confirmations, the lock or the mutex.
LEMMA EnvFrame ==
    ASSUME EnvStep \/ UNCHANGED vars
    PROVE  UNCHANGED <<call, pc, open, mutex, lock, pid, recon, drops, jobState>>
  BY DEF EnvStep, Expire, OrphanEnds, vars, planVars, jobVars, bootVars

\* Next, grouped by who takes the step.
LEMMA NextCases ==
    ASSUME Next
    PROVE  \/ \E r \in Requests : Step(r) \/ Fault(r)
           \/ \E p \in Procs : ProcessStep(p) \/ ClientStep(p) \/ \E t \in Tokens : PreviewStep(p, t)
           \/ \E t \in Tokens : IssueStep(t)
           \/ EnvStep
  BY DEF Next, ProcessStep, ClientStep, PreviewStep, IssueStep, EnvStep

\* TypeInv is inductive.
LEMMA NextType == TypeInv /\ [Next]_vars => TypeInv'
<1> SUFFICES ASSUME TypeInv, [Next]_vars PROVE TypeInv'
  OBVIOUS
<1>1. ASSUME NEW r \in Requests, Step(r) \/ Fault(r)
      PROVE  TypeInv'
  BY <1>1, StepType, FaultType, StepFrames, FaultFrames, FrameBounds
<1>2. ASSUME NEW p \in Procs, ProcessStep(p)
      PROVE  TypeInv'
  BY <1>2, ProcessType, ProcessBounds
<1>3. CASE UNCHANGED vars
  BY <1>3
  DEF vars, hostVars, planVars, jobVars, bootVars, memVars, TypeInv, TypeOK,
      CallsBound, StageBound, JobsBound, MutexBound, ManageBound, AliveBound,
      InFlight, At, Kind, Plan, Tok
<1> QED
  BY <1>1, <1>2, <1>3, NextCases, PreviewType, IssueType, ClientType, EnvType

\* Type correctness of the transaction pipeline, for every set of processes,
\* requests, tokens and packages and every combination of faults.
THEOREM TypeCorrect == Spec => []TypeOK
<1>1. Spec => []TypeInv
  BY InitType, NextType, PTL DEF Spec
<1>2. TypeInv => TypeOK
  BY DEF TypeInv
<1> QED
  BY <1>1, <1>2, PTL

-----------------------------------------------------------------------------
(* The confirmation is one-shot.                                           *)

\* An admitted execution's token is no longer open.  This is what makes
\* TokenOneShot inductive: a second execution would have to consume it again.
SpentInv == \A r \in Requests : Granted(r) => Tok(r) \notin open

TokenInv == TypeInv /\ SpentInv /\ TokenOneShot

\* A request's own steps: only ConsumeRow admits, and it takes the token out.
LEMMA TokenRequest ==
    ASSUME TokenInv, NEW r \in Requests, RequestFrame(r), TokenFrame(r)
    PROVE  SpentInv' /\ TokenOneShot'
<1>1. /\ \A s \in Requests \ {r} : Granted(s)' <=> Granted(s)
      /\ \A s \in Requests : Tok(s)' = Tok(s)
      /\ Mode(r)' = Mode(r)
  BY DEF RequestFrame, Granted, Tok, Mode
<1>2. CASE /\ open' = open
           /\ pc'[r] \in PendingPcs \/ pc[r] \notin PendingPcs \/ Mode(r) = "rollback"
  <2>1. Granted(r)' => Granted(r)
    BY <1>1, <1>2 DEF Granted
  <2> QED
    BY <1>1, <1>2, <2>1 DEF TokenInv, SpentInv, TokenOneShot
<1>3. CASE Tok(r) \in open /\ open' = open \ {Tok(r)}
  BY <1>1, <1>3 DEF TokenInv, SpentInv, TokenOneShot
<1> QED
  BY <1>2, <1>3 DEF TokenFrame

\* TokenInv is inductive.
LEMMA NextToken == TokenInv /\ [Next]_vars => TokenInv'
<1> SUFFICES ASSUME TokenInv, [Next]_vars PROVE TokenInv'
  OBVIOUS
<1>0. TypeInv /\ TypeInv'
  BY NextType DEF TokenInv
<1>1. ASSUME NEW r \in Requests, Step(r) \/ Fault(r)
      PROVE  SpentInv' /\ TokenOneShot'
  BY <1>0, <1>1, StepFrames, FaultFrames, TokenRequest
<1>2. ASSUME NEW p \in Procs, ProcessStep(p)
      PROVE  SpentInv' /\ TokenOneShot'
  <2>1. UNCHANGED <<call, open>> /\ \A r \in Requests : Granted(r)' => Granted(r)
    BY <1>0, <1>2, ProcessFrame DEF Granted, Mode, PendingPcs
  <2> QED
    BY <2>1 DEF TokenInv, SpentInv, TokenOneShot, Tok
<1>3. ASSUME NEW p \in Procs, NEW t \in Tokens, PreviewStep(p, t)
      PROVE  SpentInv' /\ TokenOneShot'
  <2>1. UNCHANGED <<call, pc, open>>
    BY <1>0, <1>3, PreviewDrafts DEF Draft
  <2> QED
    BY <2>1 DEF TokenInv, SpentInv, TokenOneShot, Tok, Granted, Mode
<1>6. ASSUME NEW t \in Tokens, IssueStep(t)
      PROVE  SpentInv' /\ TokenOneShot'
  <2>1. \A r \in Requests : Granted(r) => Tok(r) # t
    BY <1>0, <1>6, IssueFrame DEF Granted, PendingPcs, TypeInv, CallsBound, Tok
  <2> QED
    BY <1>0, <1>6, <2>1, IssueFrame DEF TokenInv, SpentInv, TokenOneShot, Tok, Granted, Mode
<1>4. ASSUME NEW p \in Procs, ClientStep(p)
      PROVE  SpentInv' /\ TokenOneShot'
  <2>1. /\ open' = open
        /\ \A r \in Requests : Granted(r)' => Granted(r) /\ Tok(r)' = Tok(r)
    BY <1>0, <1>4
    DEF ClientStep, Submit, SubmitRollback, Cancel, Goto, planVars, TypeInv,
        TypeOK, Granted, PendingPcs, Mode, Tok
  <2> QED
    BY <2>1 DEF TokenInv, SpentInv, TokenOneShot
<1>5. CASE EnvStep \/ UNCHANGED vars
  <2>1. UNCHANGED <<call, pc, open>>
    BY <1>5, EnvFrame
  <2> QED
    BY <1>0, <2>1 DEF TokenInv, SpentInv, TokenOneShot, Granted, Mode, Tok
<1> QED
  BY <1>0, <1>1, <1>2, <1>3, <1>4, <1>5, <1>6, NextCases DEF TokenInv

\* However many processes hold a token in memory or read its row, take_preview
\* admits at most one execution per confirmation, crashes and retries included.
THEOREM ConfirmationOneShot == Spec => []TokenOneShot
<1>1. Init => TokenInv
  BY InitType DEF Init, TokenInv, SpentInv, TokenOneShot, Granted, PendingPcs
<1>2. TokenInv => TokenOneShot
  BY DEF TokenInv
<1> QED
  BY <1>1, <1>2, NextToken, PTL DEF Spec

-----------------------------------------------------------------------------
(* The in-process mutex.                                                   *)

MutexHeld ==
    \A r \in Requests : NeedsMutex(pc[r], Mode(r)) => mutex[At(r)] = r

MutexInv == TypeInv /\ MutexHeld

\* A request's own steps keep MutexHeld.
LEMMA MutexRequest ==
    ASSUME MutexInv, NEW r \in Requests, RequestFrame(r), MutexFrame(r)
    PROVE  MutexHeld'
<1>1. /\ \A s \in Requests \ {r} : pc'[s] = pc[s]
      /\ \A s \in Requests : Mode(s)' = Mode(s) /\ At(s)' = At(s)
      /\ At(r) \in Procs
      /\ mutex \in [Procs -> Requests \cup {NoReq}]
  BY CallFacts DEF RequestFrame, Mode, At, MutexInv, TypeInv, TypeOK
<1>2. \A s \in Requests : NeedsMutex(pc[s], Mode(s)) => At(s) \in Procs /\ mutex[At(s)] = s
  BY CallFacts DEF MutexInv, MutexHeld, NeedsMutex, MutatingPcs
<1>3. CASE mutex' = mutex /\ (NeedsMutex(pc'[r], Mode(r)) => NeedsMutex(pc[r], Mode(r)))
  BY <1>1, <1>2, <1>3 DEF MutexHeld
<1>4. CASE mutex[At(r)] = NoReq /\ mutex' = [mutex EXCEPT ![At(r)] = r]
  BY <1>1, <1>2, <1>4, NullAssumption DEF MutexHeld
<1>5. CASE FreeMutex(r) /\ pc'[r] \in FinalPcs
  <2>1. ~NeedsMutex(pc'[r], Mode(r))
    BY <1>5 DEF FinalPcs, NeedsMutex, MutatingPcs
  <2> QED
    BY <1>1, <1>2, <1>5, <2>1 DEF MutexHeld, FreeMutex
<1> QED
  BY <1>3, <1>4, <1>5 DEF MutexFrame

\* MutexInv is inductive.
LEMMA NextMutex == MutexInv /\ [Next]_vars => MutexInv'
<1> SUFFICES ASSUME MutexInv, [Next]_vars PROVE MutexInv'
  OBVIOUS
<1>0. TypeInv /\ TypeInv'
  BY NextType DEF MutexInv
<1>1. ASSUME NEW r \in Requests, Step(r) \/ Fault(r)
      PROVE  MutexHeld'
  BY <1>0, <1>1, StepFrames, FaultFrames, MutexRequest
<1>2. ASSUME NEW p \in Procs, ProcessStep(p)
      PROVE  MutexHeld'
  <2> SUFFICES ASSUME NEW r \in Requests, NeedsMutex(pc[r], Mode(r))'
               PROVE  mutex'[At(r)'] = r
    BY DEF MutexHeld
  <2>1. InFlight(r)' /\ pc'[r] \notin {"refused", "lost"}
    BY DEF NeedsMutex, MutatingPcs, InFlight, FinalPcs
  <2>2. pc'[r] = pc[r] /\ mutex'[At(r)] = mutex[At(r)] /\ UNCHANGED call
    BY <1>0, <1>2, <2>1, ProcessFrame
  <2> QED
    BY <2>2 DEF MutexInv, MutexHeld, Mode, At
<1>3. ASSUME NEW p \in Procs, NEW t \in Tokens, PreviewStep(p, t)
      PROVE  MutexHeld'
  BY <1>0, <1>3, PreviewDrafts DEF Draft, MutexInv, MutexHeld, Mode, At
<1>6. ASSUME NEW t \in Tokens, IssueStep(t)
      PROVE  MutexHeld'
  BY <1>0, <1>6, IssueFrame DEF MutexInv, MutexHeld, Mode, At
<1>4. ASSUME NEW p \in Procs, ClientStep(p)
      PROVE  MutexHeld'
  <2>1. ASSUME NEW r \in Requests, NEW m \in Modes \ {"rollback"}, NEW t \in Tokens,
               Submit(r, p, m, t)
        PROVE  MutexHeld'
    BY <1>0, <2>1
    DEF Submit, Goto, MutexInv, MutexHeld, NeedsMutex, MutatingPcs, TypeInv, TypeOK, Mode, At
  <2>2. ASSUME NEW r \in Requests, NEW j \in Requests, SubmitRollback(r, p, j)
        PROVE  MutexHeld'
    BY <1>0, <2>2
    DEF SubmitRollback, Goto, MutexInv, MutexHeld, NeedsMutex, MutatingPcs, TypeInv, TypeOK, Mode, At
  <2>3. ASSUME NEW j \in Requests, Cancel(p, j)
        PROVE  MutexHeld'
    BY <2>3 DEF Cancel, MutexInv, MutexHeld, Mode, At
  <2> QED
    BY <1>4, <2>1, <2>2, <2>3 DEF ClientStep
<1>5. CASE EnvStep \/ UNCHANGED vars
  <2>1. UNCHANGED <<call, pc, mutex>>
    BY <1>5, EnvFrame
  <2> QED
    BY <1>0, <2>1 DEF MutexInv, MutexHeld, Mode, At
<1> QED
  BY <1>0, <1>1, <1>2, <1>3, <1>4, <1>5, <1>6, NextCases DEF MutexInv

\* One process never drives two package transactions at once, whichever entry
\* points are used and whichever requests fail or are abandoned.
THEOREM MutexExclusive == Spec => []OneTransactionPerProcess
<1>1. Init => MutexInv
  BY InitType DEF Init, MutexInv, MutexHeld, NeedsMutex, MutatingPcs
<1>2. MutexInv => OneTransactionPerProcess
  BY DEF MutexInv, MutexHeld, NeedsMutex, OneTransactionPerProcess, Mutating
<1> QED
  BY <1>1, <1>2, NextMutex, PTL DEF Spec

-----------------------------------------------------------------------------
(* A single panel process.                                                 *)

OneProcess == \A p, q \in Procs : p = q

\* With one panel process the mutex alone makes package transactions exclusive
\* on the host; with two, the lock row would have to, and does not.
THEOREM SingleProcessExclusive ==
    ASSUME OneProcess
    PROVE  Spec => []ExclusiveTransaction
<1>1. Init => MutexInv
  BY InitType DEF Init, MutexInv, MutexHeld, NeedsMutex, MutatingPcs
<1>2. MutexInv => ExclusiveTransaction
  <2> SUFFICES ASSUME MutexInv, NEW r \in Requests, NEW s \in Requests,
                      Mutating(r), Mutating(s)
               PROVE  r = s
    BY DEF ExclusiveTransaction
  <2>1. mutex[At(r)] = r /\ mutex[At(s)] = s
    BY DEF MutexInv, MutexHeld, NeedsMutex, Mutating
  <2>2. At(r) \in Procs /\ At(s) \in Procs
    BY CallFacts DEF MutexInv, Mutating, MutatingPcs
  <2> QED
    BY <2>1, <2>2 DEF OneProcess
<1> QED
  BY <1>1, <1>2, NextMutex, PTL DEF Spec

-----------------------------------------------------------------------------
(* The durable lock, with a single panel process.                          *)

Guarded(l) == l \in GuardPcs \cup {"release"}

\* Before ensure_reconciled ends, no request is past it and no delete is due.
ReconQuiet ==
    /\ \A p \in Procs : recon[p] # "done" => drops[p] = {}
    /\ \A r \in Requests :
          InFlight(r) /\ recon[At(r)] # "done" =>
             pc[r] \in {"enter", "take"} /\ Mode(r) # "rollback"

\* A guard is the only one, and has the row.
SoleGuard ==
    \A r, s \in Requests : Guarded(pc[r]) /\ Guarded(pc[s]) => r = s
GuardLock ==
    \A r \in Requests :
       Guarded(pc[r]) => lock = [job |-> Job(r), pid |-> pid[At(r)]]

\* A pending delete is about the row that is there, and nobody holds it.
DropLock ==
    \A p \in Procs : \A j \in drops[p] :
       lock # NoLock /\ lock.job = j /\ \A r \in Requests : ~Guarded(pc[r])

LockInv == TypeInv /\ ReconQuiet /\ SoleGuard /\ GuardLock /\ DropLock

\* What a request's own step may do to the lock row and to pending deletes.
LockFrame(r) ==
    \/ UNCHANGED <<lock, drops>> /\ (Guarded(pc'[r]) => Guarded(pc[r]))
    \/ /\ lock = NoLock /\ lock' = [job |-> Job(r), pid |-> pid[At(r)]]
       /\ UNCHANGED drops
    \/ /\ Guarded(pc[r]) /\ pc'[r] \in FinalPcs
       /\ DropGuard(r) /\ UNCHANGED lock
    \/ /\ Guarded(pc[r]) /\ pc'[r] \in FinalPcs
       /\ lock' = NoLock \/ UNCHANGED lock
       /\ UNCHANGED drops

ReconFrame(r) ==
    /\ recon' = recon
    /\ \/ recon[At(r)] = "done"
       \/ pc[r] \notin {"enter", "take"}
       \/ Mode(r) = "rollback"
       \/ UNCHANGED drops /\ pc'[r] \in {"take"} \cup FinalPcs

\* Every step of a request stays within them.
LEMMA StepLock ==
    ASSUME TypeInv, NEW r \in Requests, Step(r)
    PROVE  LockFrame(r) /\ ReconFrame(r)
<1> USE DEF Goto, hostVars, planVars, jobVars, bootVars, memVars
<1> USE DEF LockFrame, ReconFrame, Guarded, Ready,
            PendingPcs, GuardPcs, QueuedPcs, MutatingPcs, FinalPcs
<1>T. pc \in [Requests -> Pcs]
  BY DEF TypeInv, TypeOK
<1>1. CASE EnterMutex(r)
  BY <1>1, <1>T DEF EnterMutex
<1>2. CASE TakeMemory(r)
  BY <1>2, <1>T DEF FreeMutex, Refuse, TakeMemory
<1>3. CASE SelectRow(r)
  BY <1>3, <1>T DEF FreeMutex, Refuse, SelectRow
<1>4. CASE ConsumeRow(r)
  BY <1>4, <1>T DEF FreeMutex, Refuse, ConsumeRow
<1>5. CASE CheckHost(r)
  BY <1>5, <1>T DEF FreeMutex, Refuse, CheckHost
<1>6. CASE AcquireLock(r)
  BY <1>6, <1>T DEF FreeMutex, Refuse, AcquireLock
<1>7. CASE PushQueued(r)
  BY <1>7, <1>T DEF PushJob, PushQueued
<1>8. CASE Begin(r)
  BY <1>8, <1>T DEF PushJob, Begin
<1>9. CASE ApplyPackage(r)
  BY <1>9, <1>T DEF TakeCancellation, Compensate, ApplyPackage
<1>10. CASE Checkpoint(r)
  BY <1>10, <1>T DEF PushJob, TakeCancellation, Compensate, Checkpoint
<1>11. CASE Provision(r)
  BY <1>11, <1>T DEF Provision
<1>12. CASE Validate(r)
  BY <1>12, <1>T DEF TakeCancellation, Compensate, Validate
<1>13. CASE RejectApplication(r)
  BY <1>13, <1>T DEF FreeMutex, DropGuard, RejectApplication
<1>14. CASE SetManaged(r)
  BY <1>14, <1>T DEF SetManaged
<1>15. CASE Dismantle(r)
  BY <1>15, <1>T DEF Dismantle
<1>16. CASE UnwindPackage(r)
  BY <1>16, <1>T DEF UnwindPackage
<1>17. CASE UnwindEnds(r)
  BY <1>17, <1>T DEF UnwindEnds
<1>18. CASE Reopen(r)
  BY <1>18, <1>T DEF PushJob, Reopen
<1>19. CASE Settle(r)
  BY <1>19, <1>T DEF FreeMutex, PushJob, DropGuard, Settle
<1>20. CASE PersistDeployment(r)
  BY <1>20, <1>T DEF PersistDeployment
<1>21. CASE Release(r)
  BY <1>21, <1>T DEF FreeMutex, Release
<1> QED
  BY <1>1, <1>2, <1>3, <1>4, <1>5, <1>6, <1>7, <1>8, <1>9, <1>10, <1>11,
     <1>12, <1>13, <1>14, <1>15, <1>16, <1>17, <1>18, <1>19, <1>20,
     <1>21 DEF Step

\* So does every failure.
LEMMA FaultLock ==
    ASSUME TypeInv, NEW r \in Requests, Fault(r)
    PROVE  LockFrame(r) /\ ReconFrame(r)
<1> USE DEF Goto, hostVars, planVars, jobVars, bootVars, memVars
<1> USE DEF LockFrame, ReconFrame, Guarded, Ready,
            PendingPcs, GuardPcs, QueuedPcs, MutatingPcs, FinalPcs
<1>T. pc \in [Requests -> Pcs]
  BY DEF TypeInv, TypeOK
<1>1. CASE ApplyFails(r)
  BY <1>1, <1>T DEF ApplyFails
<1>2. CASE ProvisionFails(r)
  BY <1>2, <1>T DEF Compensate, ProvisionFails
<1>3. CASE ValidateFails(r)
  BY <1>3, <1>T DEF Compensate, ValidateFails
<1>4. CASE Abandon(r)
  BY <1>4, <1>T DEF FreeMutex, DropGuard, Abandon
<1> QED
  BY <1>1, <1>2, <1>3, <1>4 DEF Fault

\* A request's own steps keep LockInv.
LEMMA LockRequest ==
    ASSUME LockInv, NEW r \in Requests, RequestFrame(r), LockFrame(r), ReconFrame(r)
    PROVE  ReconQuiet' /\ SoleGuard' /\ GuardLock' /\ DropLock'
<1>F. /\ At(r) \in Procs /\ Job(r) \in Requests
      /\ drops \in [Procs -> SUBSET Requests]
      /\ \A s \in Requests : Guarded(pc[s]) => InFlight(s)
  BY CallFacts
  DEF LockInv, TypeInv, TypeOK, RequestFrame, Guarded, GuardPcs, QueuedPcs,
      MutatingPcs, InFlight, FinalPcs
<1>1. /\ \A s \in Requests \ {r} : pc'[s] = pc[s]
      /\ UNCHANGED <<call, pid, recon>>
      /\ InFlight(r)
  BY DEF RequestFrame, ReconFrame
<1>2. \A l \in FinalPcs : ~Guarded(l)
  BY DEF FinalPcs, Guarded, GuardPcs, QueuedPcs, MutatingPcs
<1>3. ReconQuiet'
  <2>1. \A p \in Procs : recon[p] # "done" => drops'[p] = {}
    BY <1>F, <1>1
    DEF LockInv, ReconQuiet, LockFrame, DropGuard, Guarded, GuardPcs, QueuedPcs, MutatingPcs
  <2>2. InFlight(r)' /\ recon[At(r)] # "done" => pc'[r] \in {"enter", "take"} /\ Mode(r) # "rollback"
    BY <1>1 DEF LockInv, ReconQuiet, ReconFrame, InFlight
  <2> QED
    BY <1>1, <2>1, <2>2 DEF LockInv, ReconQuiet, InFlight, Mode, At
<1>4. CASE UNCHANGED <<lock, drops>> /\ (Guarded(pc'[r]) => Guarded(pc[r]))
  BY <1>1, <1>3, <1>4 DEF LockInv, SoleGuard, GuardLock, DropLock, Job, At
<1>5. CASE /\ lock = NoLock /\ lock' = [job |-> Job(r), pid |-> pid[At(r)]]
           /\ UNCHANGED drops
  <2>1. \A s \in Requests : ~Guarded(pc[s])
    <3>1. \A s \in Requests : pc[s] # "idle" => pid[At(s)] \in Pids \/ ~InFlight(s)
      BY CallFacts DEF LockInv, TypeInv, TypeOK, AliveBound
    <3>2. \A s \in Requests : Guarded(pc[s]) => [job |-> Job(s), pid |-> pid[At(s)]] \in Locks
      BY <3>1, <1>F, CallFacts DEF Locks, InFlight, LockInv
    <3> QED
      BY <1>5, <3>2, NullAssumption DEF LockInv, GuardLock
  <2>2. \A p \in Procs : drops[p] = {}
    BY <1>5 DEF LockInv, DropLock
  <2> QED
    BY <1>1, <1>3, <1>5, <2>1, <2>2 DEF SoleGuard, GuardLock, DropLock, Job, At
<1>6. CASE /\ Guarded(pc[r]) /\ pc'[r] \in FinalPcs
           /\ DropGuard(r) /\ UNCHANGED lock
  <2>1. \A s \in Requests : ~Guarded(pc'[s])
    BY <1>1, <1>2, <1>6 DEF LockInv, SoleGuard
  <2>2. lock = [job |-> Job(r), pid |-> pid[At(r)]] /\ lock # NoLock
    <3>1. pid[At(r)] \in Pids
      BY <1>1, <1>F DEF LockInv, TypeInv, TypeOK, AliveBound
    <3>2. lock = [job |-> Job(r), pid |-> pid[At(r)]]
      BY <1>6 DEF LockInv, GuardLock
    <3>3. lock \in Locks
      BY <3>1, <3>2, <1>F DEF Locks
    <3> QED BY <3>2, <3>3, NullAssumption
  <2>3. \A p \in Procs : \A j \in drops'[p] : j = Job(r)
    BY <1>F, <1>6 DEF DropGuard, LockInv, DropLock
  <2> QED
    BY <1>3, <1>6, <2>1, <2>2, <2>3 DEF SoleGuard, GuardLock, DropLock
<1>7. CASE /\ Guarded(pc[r]) /\ pc'[r] \in FinalPcs
           /\ lock' = NoLock \/ UNCHANGED lock
           /\ UNCHANGED drops
  <2>1. \A s \in Requests : ~Guarded(pc'[s])
    BY <1>1, <1>2, <1>7 DEF LockInv, SoleGuard
  <2>2. \A p \in Procs : drops[p] = {}
    BY <1>7 DEF LockInv, DropLock
  <2> QED
    BY <1>3, <1>7, <2>1, <2>2 DEF SoleGuard, GuardLock, DropLock
<1> QED
  BY <1>4, <1>5, <1>6, <1>7 DEF LockFrame


\* The steps of the only process keep LockInv.
LEMMA LockProcess ==
    ASSUME OneProcess, LockInv, NEW p \in Procs, ProcessStep(p)
    PROVE  ReconQuiet' /\ SoleGuard' /\ GuardLock' /\ DropLock'
<1> USE DEF hostVars, planVars, jobVars, bootVars, memVars
<1>T. TypeOK /\ AliveBound
  BY DEF LockInv, TypeInv
<1>G. \A r \in Requests : Guarded(pc[r]) => InFlight(r)
  BY DEF Guarded, GuardPcs, QueuedPcs, MutatingPcs, InFlight, FinalPcs
<1>A. \A r \in Requests : InFlight(r) => At(r) = p /\ pc[r] # "idle"
  BY CallFacts DEF OneProcess, InFlight, LockInv
<1>Q. recon[p] # "done" => drops[p] = {} /\ \A r \in Requests : ~Guarded(pc[r])
  BY <1>G, <1>A DEF LockInv, ReconQuiet, Guarded, GuardPcs, QueuedPcs, MutatingPcs
<1>P. \A q \in Procs : q = p
  BY DEF OneProcess
<1>1. ASSUME NEW i \in Pids, Start(p, i)
      PROVE  ReconQuiet' /\ SoleGuard' /\ GuardLock' /\ DropLock'
  <2>1. UNCHANGED <<call, pc, recon, drops, lock>> /\ \A r \in Requests : ~InFlight(r)
    BY <1>1, <1>T, <1>A DEF Start, AliveBound
  <2> QED
    BY <2>1, <1>G
    DEF LockInv, ReconQuiet, SoleGuard, GuardLock, DropLock, InFlight, At, Mode
<1>2. CASE ReconcileRead(p)
  <2>1. UNCHANGED <<call, pc, pid, drops, lock>> /\ recon \in [Procs -> {"no", "mark", "clear", "done"}]
        /\ recon[p] = "no"
    BY <1>2, <1>T DEF ReconcileRead, TypeOK
  <2>2. drops[p] = {} /\ ReconQuiet'
    BY <1>2, <1>A, <1>P, <1>Q, <2>1 DEF ReconcileRead, LockInv, ReconQuiet, InFlight, At, Mode
  <2> QED
    BY <2>1, <2>2, <1>Q DEF LockInv, SoleGuard, GuardLock, DropLock, At, Job
<1>3. CASE ReconcileMark(p)
  <2>1. UNCHANGED <<call, pc, pid, drops, lock>> /\ recon \in [Procs -> {"no", "mark", "clear", "done"}]
        /\ recon[p] = "mark"
    BY <1>3, <1>T DEF ReconcileMark, TypeOK
  <2>2. drops[p] = {} /\ ReconQuiet'
    BY <1>3, <1>A, <1>P, <1>Q, <2>1 DEF ReconcileMark, LockInv, ReconQuiet, InFlight, At, Mode
  <2> QED
    BY <2>1, <2>2, <1>Q DEF LockInv, SoleGuard, GuardLock, DropLock, At, Job
<1>4. CASE ReconcileClear(p)
  <2>1. UNCHANGED <<call, pc, pid, drops>> /\ recon \in [Procs -> {"no", "mark", "clear", "done"}]
        /\ recon[p] = "clear"
    BY <1>4, <1>T DEF ReconcileClear, TypeOK
  <2>2. ReconQuiet'
    BY <1>4, <1>A, <1>P, <1>Q, <2>1 DEF ReconcileClear, LockInv, ReconQuiet, InFlight, At, Mode
  <2> QED
    BY <2>1, <2>2, <1>Q, <1>P DEF SoleGuard, GuardLock, DropLock
<1>5. CASE RunDrop(p)
  <2>1. PICK j \in drops[p] :
           /\ drops' = [drops EXCEPT ![p] = @ \ {j}]
           /\ UNCHANGED <<call, pc, pid, recon>>
    BY <1>5 DEF RunDrop
  <2>2. \A r \in Requests : ~Guarded(pc[r])
    BY <2>1 DEF LockInv, DropLock
  <2>3. drops'[p] = {}
    BY <2>1, <1>T DEF LockInv, DropLock, TypeOK
  <2> QED
    BY <2>1, <2>2, <2>3, <1>P
    DEF LockInv, ReconQuiet, SoleGuard, GuardLock, DropLock, InFlight, At, Mode
<1>6. CASE Exit(p)
  <2>1. \A r \in Requests : ~InFlight(r)'
    BY <1>6, <1>A DEF Exit, InFlight, FinalPcs
  <2>2. \A r \in Requests : ~Guarded(pc'[r])
    BY <2>1 DEF Guarded, GuardPcs, QueuedPcs, MutatingPcs, InFlight, FinalPcs
  <2>3. drops'[p] = {}
    BY <1>6, <1>T DEF Exit, TypeOK
  <2> QED
    BY <2>1, <2>2, <2>3, <1>P DEF ReconQuiet, SoleGuard, GuardLock, DropLock
<1> QED
  BY <1>1, <1>2, <1>3, <1>4, <1>5, <1>6 DEF ProcessStep, Reconcile

\* LockInv is inductive when there is one process.
LEMMA NextLock ==
    ASSUME OneProcess
    PROVE  LockInv /\ [Next]_vars => LockInv'
<1> SUFFICES ASSUME LockInv, [Next]_vars PROVE LockInv'
  OBVIOUS
<1> DEFINE Goal == ReconQuiet' /\ SoleGuard' /\ GuardLock' /\ DropLock'
<1>0. TypeInv /\ TypeInv'
  BY NextType DEF LockInv
<1>1. ASSUME NEW r \in Requests, Step(r) \/ Fault(r)
      PROVE  Goal
  BY <1>0, <1>1, StepFrames, FaultFrames, StepLock, FaultLock, LockRequest
<1>2. ASSUME NEW p \in Procs, ProcessStep(p)
      PROVE  Goal
  BY <1>2, LockProcess
<1>3. ASSUME UNCHANGED <<call, pc, lock, pid, recon, drops>>
      PROVE  Goal
  BY <1>3
  DEF LockInv, ReconQuiet, SoleGuard, GuardLock, DropLock, InFlight, At, Mode, Job
<1>4. ASSUME NEW p \in Procs, NEW t \in Tokens, PreviewStep(p, t)
      PROVE  Goal
  BY <1>0, <1>3, <1>4, PreviewDrafts DEF Draft, jobVars, bootVars
<1>8. ASSUME NEW t \in Tokens, IssueStep(t)
      PROVE  Goal
  BY <1>0, <1>3, <1>8, IssueFrame
<1>5. ASSUME NEW p \in Procs, NEW r \in Requests, pc[r] = "idle",
             UNCHANGED <<lock, pid, recon, drops>>,
             \A s \in Requests \ {r} : pc'[s] = pc[s] /\ call'[s] = call[s],
             \/ pc'[r] \in {"enter", "take"} /\ call'[r].mode # "rollback"
             \/ pc'[r] = "enter" /\ recon[call'[r].at] = "done"
      PROVE  Goal
  <2>1. ~Guarded(pc[r]) /\ ~Guarded(pc'[r])
    BY <1>5 DEF Guarded, GuardPcs, QueuedPcs, MutatingPcs
  <2>2. ReconQuiet'
    BY <1>5 DEF LockInv, ReconQuiet, InFlight, At, Mode
  <2>3. \A s \in Requests : Guarded(pc'[s]) => Guarded(pc[s]) /\ s # r
    BY <1>5, <2>1
  <2> QED
    BY <1>5, <2>2, <2>3 DEF LockInv, SoleGuard, GuardLock, DropLock, At, Job
<1>6. ASSUME NEW p \in Procs, ClientStep(p)
      PROVE  Goal
  <2>1. ASSUME NEW r \in Requests, NEW m \in Modes \ {"rollback"}, NEW t \in Tokens,
               Submit(r, p, m, t)
        PROVE  Goal
    BY <1>0, <2>1, <1>5 DEF Submit, Goto, jobVars, bootVars, TypeInv, TypeOK
  <2>2. ASSUME NEW r \in Requests, NEW j \in Requests, SubmitRollback(r, p, j)
        PROVE  Goal
    BY <1>0, <2>2, <1>5 DEF SubmitRollback, Ready, Goto, jobVars, bootVars, TypeInv, TypeOK
  <2>3. ASSUME NEW j \in Requests, Cancel(p, j)
        PROVE  Goal
    BY <2>3, <1>3 DEF Cancel, jobVars, bootVars
  <2> QED
    BY <1>6, <2>1, <2>2, <2>3 DEF ClientStep
<1>7. CASE EnvStep \/ UNCHANGED vars
  BY <1>0, <1>3, <1>7, EnvFrame DEF LockInv
<1> QED
  BY <1>0, <1>1, <1>2, <1>4, <1>6, <1>7, <1>8, NextCases DEF LockInv

\* With one panel process, whoever holds a DurableTransactionLock has the row,
\* under its own job and process id: no reconciliation, late delete, crash,
\* abandoned request or reused process id takes it away.
THEOREM SingleProcessLock ==
    ASSUME OneProcess
    PROVE  Spec => []HoldsLock
<1>1. Init => LockInv
  BY InitType
  DEF Init, LockInv, ReconQuiet, SoleGuard, GuardLock, DropLock, Guarded,
      GuardPcs, QueuedPcs, MutatingPcs, InFlight
<1>2. LockInv => HoldsLock
  BY DEF LockInv, GuardLock, HoldsLock, Guarded
<1> QED
  BY <1>1, <1>2, NextLock, PTL DEF Spec
=============================================================================
