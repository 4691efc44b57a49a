------------------------ MODULE SoftwareCenterProps ------------------------
(***************************************************************************)
(* What the package transactions of the Software Center promise.           *)
(***************************************************************************)
EXTENDS SoftwareCenter

\* Every table, map and request of the service keeps its shape.
TypeOK ==
    /\ host \in HostState
    /\ apps \subseteq Requests
    /\ preview \in [Tokens -> Previews \cup {NoPreview}]
    /\ stage \in [Tokens -> Stages]
    /\ open \subseteq Tokens
    /\ expired \subseteq Tokens
    /\ jobState \in [Requests -> JobStates]
    /\ lock \in Locks \cup {NoLock}
    /\ managed \subseteq Components
    /\ deployed \subseteq Requests
    /\ pid \in [Procs -> Pids \cup {NoPid}]
    /\ recon \in [Procs -> {"no", "mark", "clear", "done"}]
    /\ mem \in [Procs -> SUBSET Tokens]
    /\ mutex \in [Procs -> Requests \cup {NoReq}]
    /\ cancels \in [Procs -> SUBSET Requests]
    /\ owned \in [Procs -> SUBSET Components]
    /\ drops \in [Procs -> SUBSET Requests]
    /\ call \in [Requests -> Calls \cup {NoReq}]
    /\ pc \in [Requests -> Pcs]
    /\ todo \in [Requests -> SUBSET Packages]
    /\ out \in [Requests -> JobStates]
    /\ orphans \subseteq [kind : Kinds, pkg : Packages]
    /\ spent \subseteq Pids
    /\ exits \in 0..MaxExits

\* take_preview is one-shot: however many processes hold the token in memory
\* or read its row, at most one execution is admitted per confirmation.
TokenOneShot ==
    \A r, s \in Requests :
       Granted(r) /\ Granted(s) /\ Tok(r) = Tok(s) => r = s

\* The tokio mutex `transaction`, taken by execute, run_execute_job,
\* execute_deployment and rollback_interrupted: one process never drives two
\* package transactions.
OneTransactionPerProcess ==
    \A r, s \in Requests :
       Mutating(r) /\ Mutating(s) /\ At(r) = At(s) => r = s

\* The singleton row of software_transaction_lock: no two package
\* transactions, of one process or of several, are driven at once.
ExclusiveTransaction ==
    \A r, s \in Requests : Mutating(r) /\ Mutating(s) => r = s

\* Who holds a DurableTransactionLock value really has the row: neither
\* ensure_reconciled nor the spawned DELETE of an earlier guard takes it away.
HoldsLock ==
    \A r \in Requests :
       pc[r] \in GuardPcs => lock = [job |-> Job(r), pid |-> pid[At(r)]]

\* The host a transaction starts on is the one its preview was computed for:
\* the digest compared by prepare_execution still holds once the lock is held.
FreshHost ==
    \A r \in Requests :
       pc[r] \in {"queue", "wait", "begin"} => Listing(host) = preview[Tok(r)].digest

\* retry_preview: "Re-plan an interrupted transaction against current host
\* state."  An installation that may be confirmed names exactly the packages
\* its component lacked on the host of the preview.
PlansMatchHost ==
    \A t \in Tokens :
       stage[t] = "issued" /\ preview[t].plan.kind = "install" =>
          preview[t].plan.pkgs = {q \in PackagesOf[preview[t].plan.target] :
                                    preview[t].digest[q] = "absent"}

\* What a plan is for: a removal leaves no package of its component, anything
\* else finds every package of its component or stack listed, the ones it
\* planned to install really there, and a deployment has its application.
Achieved(r) ==
    IF Kind(r) = "remove"
    THEN \A q \in PackagesOf[Plan(r).target] : ~Present(host, q)
    ELSE /\ Installed(host, IF Kind(r) = "application" THEN Stack ELSE PackagesOf[Plan(r).target])
         /\ Kind(r) \in {"install", "application"} => \A q \in Plan(r).pkgs : Present(host, q)
         /\ Kind(r) = "application" => r \in apps

\* When execute or execute_deployment records success, the host is as the plan
\* said it would be, after any cancelled, failed or abandoned transaction that
\* left packages, or their configuration files, behind.
SuccessIsReal ==
    [][\A r \in Requests :
          pc[r] = "settle" /\ pc'[r] # "settle" /\ out[r] = "succeeded" => Achieved(r)]_vars

\* What a cancelled execution must leave: a package that dpkg-query listed for
\* the preview is listed as it was, every other one is not installed (its
\* configuration files may stay), and there is no application.
Undone(r) ==
    /\ \A q \in Packages :
          \/ Listed(host[q]) = preview[Tok(r)].digest[q]
          \/ preview[Tok(r)].digest[q] = "absent" /\ ~Present(host, q)
    /\ r \notin apps

\* A cancelled installation, adoption or deployment leaves nothing it added and
\* takes nothing it found: PackageManager::rollback gets exactly the packages
\* applied so far, and the provisioned application is dismantled first.
CancelRestores ==
    [][\A r \in Requests :
          /\ jobState[r] # "cancelled" /\ jobState'[r] = "cancelled"
          /\ Kind(r) \in {"install", "adopt", "application"}
          => Undone(r)]_vars

\* rollback_interrupted records rolled_back only when none of the interrupted
\* installation's packages is installed any more.
RollbackRemoves ==
    [][\A j \in Requests :
          jobState[j] = "rolling_back" /\ jobState'[j] = "rolled_back" =>
             \A q \in Plan(j).pkgs : ~Present(host, q)]_vars

\* ensure_reconciled leaves no job active that nobody works on: once a process
\* has reconciled, a queued, running, validating or rolling_back job has a
\* request in flight.
ActiveHasWorker ==
    \A j \in Requests :
       jobState[j] \in ActiveStates /\ (\E p \in Procs : Ready(p)) =>
          \E r \in Requests : InFlight(r) /\ Job(r) = j

\* JobState::terminal is final, except that rollback_interrupted may reopen an
\* interrupted job.
TerminalStable ==
    [][\A j \in Requests :
          jobState[j] \in TerminalStates /\ jobState'[j] # jobState[j] =>
             jobState[j] = "interrupted" /\ jobState'[j] = "rolling_back"]_vars

\* The UPDATE of ensure_reconciled interrupts only jobs nobody drives any more.
InterruptedHasNoWorker ==
    \A r \in Requests :
       pc[r] \in GuardPcs /\ Mode(r) # "rollback" => jobState[r] # "interrupted"

\* Once a process has reconciled, a lock row belongs to a request in flight
\* or its delete is on the way.
NoOrphanLock ==
    (lock # NoLock /\ \E p \in Procs : Ready(p)) =>
       \/ \E r \in Requests : InFlight(r) /\ Job(r) = lock.job
       \/ \E p \in Procs : lock.job \in drops[p]

\* A deployment that failed or was cancelled was compensated and owns no
\* application resources, and a row of software_deployments has its resources
\* and its succeeded job.
AppsMatchJobs ==
    \A r \in Requests :
       /\ jobState[r] \in {"failed", "cancelled"} => r \notin apps
       /\ r \in deployed => r \in apps /\ jobState[r] = "succeeded"

\* The abstract view: the job changing the host, and what is recorded of it.
ChangingPcs == MutatingPcs \ {"persist"}

Holder ==
    IF \E r \in Requests : pc[r] \in ChangingPcs
    THEN Job(CHOOSE r \in Requests : pc[r] \in ChangingPcs)
    ELSE NoReq

Status ==
    [j \in Requests |->
       CASE jobState[j] \in {"none", "queued"}       -> "new"
         [] jobState[j] \in ActiveStates \ {"queued"} -> "running"
         [] OTHER                                     -> jobState[j]]

Abstract == INSTANCE PackageTransactions WITH
               Jobs <- Requests, NoJob <- NoReq, holder <- Holder, status <- Status

\* A single panel process implements the abstract transaction service: the
\* mutex, the lock row, the reconciliation and the job records together give
\* one transaction at a time, run once, none begun over an unsettled one, and
\* none reopened that succeeded or was cancelled.
ImplementsTransactions == Abstract!Spec

\* Every job that push_job recorded as active reaches a terminal state, by its
\* own request or by the reconciliation after a restart.
JobsSettle ==
    \A r \in Requests : (jobState[r] \in ActiveStates) ~> (jobState[r] \in TerminalStates)

\* The lock row is always given back, by release, by Drop or by reconciliation.
LockReturns == (lock # NoLock) ~> (lock = NoLock)
=============================================================================
