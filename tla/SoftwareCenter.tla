--------------------------- MODULE SoftwareCenter ---------------------------
(***************************************************************************)
(* Host package transactions of the Software Center.                       *)
(*                                                                         *)
(* Several panel processes (the server, and every CLI invocation that      *)
(* builds its own SoftwareCenterService) share one SQLite database and     *)
(* one host.  A transaction is previewed, confirmed with a one-use token,  *)
(* serialised by an in-process mutex and by a durable lock row, applied    *)
(* package by package, validated, and settled in software_jobs.            *)
(*                                                                         *)
(* An execution request r is named by the job uuid it creates, so Requests *)
(* is also the set of jobs.  A preview is named by its confirmation token, *)
(* a fresh uuid: preview[t] is the StoredPreview that carries t.           *)
(*                                                                         *)
(* Every step ends where the code awaits the database, the package manager *)
(* or a lock.  The order of packages inside one plan, the versions of a    *)
(* component and the audit records are abstracted.                         *)
(***************************************************************************)
EXTENDS Naturals, FiniteSets

CONSTANTS
    Procs,        \* panel processes sharing the database
    Pids,         \* operating system process ids
    PidReuse,     \* whether a new process may get the id of a dead one
    Requests,     \* execution and rollback requests, and the jobs they create
    Tokens,       \* confirmation tokens
    Packages,     \* distribution packages
    Conffiles,    \* packages that leave configuration files when removed
    Components,   \* system entries of the catalog
    PackagesOf,   \* the packages of a component
    RivalsOf,     \* packages a component cannot coexist with (mysql, mariadb)
    Application,  \* the one-click application
    Stack,        \* packages of the application's nginx, php and mysql entries
    InitialHost,  \* the package state the panel finds on the host
    PlanKinds,    \* kinds of plan in use
    Modes,        \* entry points in use: execute, start, deploy, rollback
    Faults,       \* failures: apply, validate, provision, rollback, abandon, orphan
    MaxExits,     \* bound on process deaths
    NoPreview, NoReq, NoLock, NoPid

\* What dpkg has of a package: nothing, a version, or only the configuration
\* files of a version that was removed.
Versions == {"absent", "old", "new", "old_config", "new_config"}
HostState == [Packages -> Versions]
ComponentActions == {"install", "adopt", "update", "remove"}
Kinds == ComponentActions \cup {"application"}
Plans == [kind : ComponentActions, target : Components, pkgs : SUBSET Packages]
         \cup [kind : {"application"}, target : {Application}, pkgs : SUBSET Packages]
Previews == [plan : Plans, digest : HostState, by : Procs]
Stages == {"free", "draft", "stored", "issued", "lost"}
Locks == [job : Requests, pid : Pids]
EntryPoints == {"execute", "start", "deploy", "rollback"}
Calls == [at : Procs, mode : EntryPoints, tok : Tokens, job : Requests]

ASSUME ConfigAssumption ==
    /\ PackagesOf \in [Components -> SUBSET Packages]
    /\ RivalsOf \in [Components -> SUBSET Packages]
    /\ Stack \subseteq Packages /\ Conffiles \subseteq Packages
    /\ InitialHost \in HostState
    /\ PlanKinds \subseteq Kinds
    /\ Modes \subseteq EntryPoints
    /\ PidReuse \in BOOLEAN
    /\ MaxExits \in Nat

ASSUME NullAssumption ==
    /\ NoPreview \notin Previews
    /\ NoReq \notin Requests
    /\ NoReq \notin Calls
    /\ NoLock \notin Locks
    /\ NoPid \notin Pids

VARIABLES
    \* The host and the database, which survive every process.
    host,      \* what dpkg has of every package
    apps,      \* jobs whose provisioned site, database and files exist
    preview,   \* what each token was issued for, and by which process
    stage,     \* how far the preview call that issues a token has come
    open,      \* software_plans: tokens whose row has their hash and consumed = 0
    expired,   \* tokens older than five minutes
    jobState,  \* software_jobs.state
    lock,      \* software_transaction_lock
    managed,   \* software_components with managed = 1
    deployed,  \* software_deployments, by job
    \* Memory of each process.
    pid,       \* its process id, NoPid while it is not running
    recon,     \* progress of the reconciled OnceCell
    mem,       \* previews: the tokens in its preview map
    mutex,     \* holder of the in-process transaction mutex
    cancels,   \* cancellation_requests
    owned,     \* owned_components
    drops,     \* jobs whose lock DELETE was spawned by Drop and has not run
    \* One request each.
    call,      \* its arguments
    pc,        \* where it stands
    todo,      \* packages of the plan not applied, or already rolled back
    out,       \* the terminal job state it is about to record
    \* The environment.
    orphans,   \* apt-get children that outlived the request that ran them
    spent,     \* process ids handed out so far
    exits      \* process deaths so far

hostVars == <<host, apps>>
planVars == <<preview, stage, open, expired>>
jobVars == <<jobState, lock, managed, deployed>>
bootVars == <<pid, recon, spent, exits>>
memVars == <<mem, cancels, owned>>
vars == <<hostVars, planVars, jobVars, bootVars, memVars, mutex, drops,
          call, pc, todo, out, orphans>>

-----------------------------------------------------------------------------
(* Job states, and where a request can stand.                              *)

ActiveStates == {"queued", "running", "validating", "rolling_back"}
TerminalStates == {"succeeded", "failed", "cancelled", "rolled_back", "interrupted"}
JobStates == {"none"} \cup ActiveStates \cup TerminalStates

\* Not yet admitted: the confirmation is still unspent, or was refused.
PendingPcs == {"idle", "enter", "take", "select", "consume", "refused"}
\* Holding a DurableTransactionLock value, before and while driving packages.
QueuedPcs == {"queue", "wait", "begin", "reopen"}
MutatingPcs == {"apply", "provision", "checkpoint", "validate", "manage",
                "dismantle", "unwind", "settle", "persist"}
GuardPcs == QueuedPcs \cup MutatingPcs
\* Finished: returned, or gone with its process.
FinalPcs == {"refused", "ended", "lost"}
Pcs == PendingPcs \cup GuardPcs \cup FinalPcs \cup {"check", "acquire", "release"}

At(r) == call[r].at
Mode(r) == call[r].mode
Tok(r) == call[r].tok
Job(r) == call[r].job
Plan(r) == preview[Tok(r)].plan
Kind(r) == Plan(r).kind
Applied(r) == Plan(r).pkgs \ todo[r]

InFlight(r) == pc[r] \notin FinalPcs \cup {"idle"}
Mutating(r) == pc[r] \in MutatingPcs
Granted(r) == pc[r] \notin PendingPcs /\ Mode(r) # "rollback"

Alive(i) == \E p \in Procs : pid[p] = i
Ready(p) == pid[p] # NoPid /\ recon[p] = "done"

-----------------------------------------------------------------------------
(* The package manager: HostPackageManager on a host with apt-get.         *)

\* dpkg-query -W -f=${Package}\t${Version} has no status filter: it lists the
\* version of a removed package whose configuration files remain.  The digest
\* of a host is the digest of this listing.
Listed(v) ==
    CASE v = "old_config" -> "old"
      [] v = "new_config" -> "new"
      [] OTHER            -> v

Listing(h) == [q \in Packages |-> Listed(h[q])]

\* installed_packages: what is listed, which is not what is installed.
Installed(h, pkgs) == \A q \in pkgs : h[q] # "absent"

\* Whether the files of a package are there.
Present(h, q) == h[q] \in {"old", "new"}

\* apt-get remove, which is not purge.
LeftBy(q, v) ==
    CASE q \notin Conffiles -> "absent"
      [] v = "old"          -> "old_config"
      [] v = "new"          -> "new_config"
      [] OTHER              -> v

\* apt-get remove, install --only-upgrade, and install of one package.
Effect(kind, q, v) ==
    CASE kind = "remove" -> LeftBy(q, v)
      [] kind = "update" -> IF v \in {"old", "new"} THEN "new" ELSE v
      [] OTHER           -> "new"

ApplyTo(h, kind, q) == [h EXCEPT ![q] = Effect(kind, q, @)]

-----------------------------------------------------------------------------
(* Control-flow helpers.                                                   *)

Goto(r, l) == pc' = [pc EXCEPT ![r] = l]
FreeMutex(r) == mutex' = [mutex EXCEPT ![At(r)] = IF @ = r THEN NoReq ELSE @]
PushJob(r, s) == jobState' = [jobState EXCEPT ![Job(r)] = s]
TakeCancellation(r) == cancels' = [cancels EXCEPT ![At(r)] = @ \ {Job(r)}]
CancelRequested(r) == Job(r) \in cancels[At(r)]

\* Return an error before a DurableTransactionLock exists.
Refuse(r, l) ==
    /\ Goto(r, l)
    /\ FreeMutex(r)
    /\ UNCHANGED <<hostVars, planVars, jobVars, bootVars, memVars, drops, call, todo, out, orphans>>

\* Mutant: the guard has no Drop.
DropGuardForgets(r) == UNCHANGED drops

\* DurableTransactionLock::drop spawns the DELETE of this job's lock row.
DropGuard(r) == drops' = [drops EXCEPT ![At(r)] = @ \cup {Job(r)}]

\* Mutant: the provisioned application is not dismantled.
CompensatePackagesOnly(r, s) ==
    /\ Goto(r, "unwind")
    /\ out' = [out EXCEPT ![r] = s]

\* Turn to the compensation branch, which will record s.
Compensate(r, s) ==
    /\ Goto(r, IF r \in apps THEN "dismantle" ELSE "unwind")
    /\ out' = [out EXCEPT ![r] = s]

\* What a killed or abandoned apt-get leaves behind: nothing, its full
\* effect, or a child that goes on running.
Interrupted(kind, pkgs) ==
    \/ UNCHANGED <<host, orphans>>
    \/ \E q \in pkgs : /\ host' = ApplyTo(host, kind, q)
                       /\ UNCHANGED orphans
    \/ /\ "orphan" \in Faults
       /\ \E q \in pkgs : orphans' = orphans \cup {[kind |-> kind, pkg |-> q]}
       /\ UNCHANGED host

\* Packages request r may have an apt-get running for.
Touching(r) == IF pc[r] = "apply" THEN todo[r] ELSE {}

-----------------------------------------------------------------------------
(* Process life: start, lazy reconciliation, exit.                         *)

\* A panel process starts, with empty memory.
Start(p, i) ==
    /\ pid[p] = NoPid
    /\ ~Alive(i)
    /\ PidReuse \/ i \notin spent
    /\ pid' = [pid EXCEPT ![p] = i]
    /\ spent' = spent \cup {i}
    /\ UNCHANGED <<hostVars, planVars, jobVars, recon, exits, memVars, mutex, drops, call, pc, todo, out, orphans>>

\* ensure_reconciled: a lock whose owner_pid exists under /proc ends it.
ReconcileRead(p) ==
    /\ pid[p] # NoPid /\ recon[p] = "no"
    /\ recon' = [recon EXCEPT ![p] =
                    IF lock # NoLock /\ Alive(lock.pid) THEN "done" ELSE "mark"]
    /\ UNCHANGED <<hostVars, planVars, jobVars, pid, spent, exits, memVars, mutex, drops, call, pc, todo, out, orphans>>

\* Mutant: the UPDATE writes a label that no JobState has.
ReconcileMarkAborted(p) ==
    /\ recon[p] = "mark"
    /\ jobState' = [j \in Requests |->
                      IF jobState[j] \in ActiveStates THEN "aborted" ELSE jobState[j]]
    /\ recon' = [recon EXCEPT ![p] = "clear"]
    /\ UNCHANGED <<hostVars, planVars, lock, managed, deployed, pid, spent, exits, memVars, mutex, drops, call, pc, todo, out, orphans>>

\* Every job in a non-terminal state becomes interrupted.
ReconcileMark(p) ==
    /\ recon[p] = "mark"
    /\ jobState' = [j \in Requests |->
                      IF jobState[j] \in ActiveStates THEN "interrupted" ELSE jobState[j]]
    /\ recon' = [recon EXCEPT ![p] = "clear"]
    /\ UNCHANGED <<hostVars, planVars, lock, managed, deployed, pid, spent, exits, memVars, mutex, drops, call, pc, todo, out, orphans>>

\* The lock row goes, whoever holds it by now.
ReconcileClear(p) ==
    /\ recon[p] = "clear"
    /\ lock' = NoLock
    /\ recon' = [recon EXCEPT ![p] = "done"]
    /\ UNCHANGED <<hostVars, planVars, jobState, managed, deployed, pid, spent, exits, memVars, mutex, drops, call, pc, todo, out, orphans>>

\* The process dies, or a CLI command ends: its memory and its requests go.
Exit(p) ==
    /\ pid[p] # NoPid
    /\ exits < MaxExits
    /\ exits' = exits + 1
    /\ pid' = [pid EXCEPT ![p] = NoPid]
    /\ recon' = [recon EXCEPT ![p] = "no"]
    /\ mem' = [mem EXCEPT ![p] = {}]
    /\ cancels' = [cancels EXCEPT ![p] = {}]
    /\ owned' = [owned EXCEPT ![p] = {}]
    /\ mutex' = [mutex EXCEPT ![p] = NoReq]
    /\ drops' = [drops EXCEPT ![p] = {}]
    /\ pc' = [r \in Requests |->
                IF ~InFlight(r) \/ At(r) # p THEN pc[r]
                ELSE IF pc[r] \in PendingPcs THEN "refused" ELSE "lost"]
    /\ stage' = [t \in Tokens |->
                   IF stage[t] \in {"draft", "stored"} /\ preview[t].by = p THEN "lost" ELSE stage[t]]
    /\ IF mutex[p] # NoReq /\ Touching(mutex[p]) # {}
       THEN Interrupted(Kind(mutex[p]), Touching(mutex[p]))
       ELSE UNCHANGED <<host, orphans>>
    /\ UNCHANGED <<apps, preview, open, expired, jobVars, spent, call, todo, out>>

\* The DELETE spawned by a dropped guard runs.
RunDrop(p) ==
    \E j \in drops[p] :
       /\ drops' = [drops EXCEPT ![p] = @ \ {j}]
       /\ lock' = IF lock # NoLock /\ lock.job = j THEN NoLock ELSE lock
       /\ UNCHANGED <<hostVars, planVars, jobState, managed, deployed, bootVars, memVars, mutex, call, pc, todo, out, orphans>>

\* An apt-get that outlived its request completes.
OrphanEnds(o) ==
    /\ orphans' = orphans \ {o}
    /\ host' = ApplyTo(host, o.kind, o.pkg)
    /\ UNCHANGED <<apps, planVars, jobVars, bootVars, memVars, mutex, drops, call, pc, todo, out>>

-----------------------------------------------------------------------------
(* Previews.                                                               *)

\* The host is inspected and the plan and its token are made; the token
\* reaches the client only when the call returns.
Draft(p, t, plan) ==
    /\ stage[t] = "free"
    /\ preview' = [preview EXCEPT ![t] = [plan |-> plan, digest |-> Listing(host), by |-> p]]
    /\ stage' = [stage EXCEPT ![t] = "draft"]
    /\ UNCHANGED <<hostVars, open, expired, jobVars, bootVars, memVars, mutex, drops, call, pc, todo, out, orphans>>

\* persist_plan upserts the row of the plan's digest.
PersistPlan(t) ==
    /\ stage[t] = "draft"
    /\ open' = {u \in open : preview[u].plan # preview[t].plan} \cup {t}
    /\ stage' = [stage EXCEPT ![t] = "stored"]
    /\ UNCHANGED <<hostVars, preview, expired, jobVars, bootVars, memVars, mutex, drops, call, pc, todo, out, orphans>>

\* Then the process replaces its map entry of that digest, and returns.
RememberPreview(t) ==
    /\ stage[t] = "stored"
    /\ mem' = [mem EXCEPT ![preview[t].by] =
                  {u \in @ : preview[u].plan # preview[t].plan} \cup {t}]
    /\ stage' = [stage EXCEPT ![t] = "issued"]
    /\ UNCHANGED <<hostVars, preview, open, expired, jobVars, bootVars, cancels, owned, mutex, drops, call, pc, todo, out, orphans>>

\* managed_components: what this process remembers and what the table says.
ManagedComponents(p) == managed \cup owned[p]

\* dependency_count: the sites and databases of applications need the stack.
Dependents(c) == IF PackagesOf[c] \cap Stack = {} THEN {} ELSE apps

\* Whether preview_component accepts action a on component c.
Permitted(p, c, a) ==
    LET installed == Installed(host, PackagesOf[c])
        isManaged == c \in ManagedComponents(p)
    IN  /\ a = "install" => ~installed
        /\ a = "adopt" => installed /\ ~isManaged
        /\ a \in {"update", "remove"} => installed /\ isManaged
        /\ a = "remove" => Dependents(c) = {}
        /\ \A q \in RivalsOf[c] : host[q] = "absent"

\* Mutant: an installation also plans the packages that are already there.
PlanForWhole(c, a) ==
    [kind |-> a, target |-> c, pkgs |-> IF a = "adopt" THEN {} ELSE PackagesOf[c]]

\* The package actions of the plan: an installation leaves out what is there.
PlanFor(c, a) ==
    [kind |-> a, target |-> c,
     pkgs |-> CASE a = "install" -> {q \in PackagesOf[c] : host[q] = "absent"}
                [] a = "adopt"   -> {}
                [] OTHER         -> PackagesOf[c]]

\* preview_component; what it reads is read at the snapshot of the host.
PreviewComponent(p, t, c, a) ==
    /\ Ready(p)
    /\ Permitted(p, c, a)
    /\ Draft(p, t, PlanFor(c, a))

\* preview_deployment plans the missing packages of the stack.
PreviewDeployment(p, t) ==
    /\ "application" \in PlanKinds
    /\ Ready(p)
    /\ Draft(p, t, [kind |-> "application", target |-> Application,
                    pkgs |-> {q \in Stack : host[q] = "absent"}])

\* retry_preview re-issues the stored plan against the current host.
RetryPreview(p, t, j) ==
    /\ Ready(p)
    /\ jobState[j] = "interrupted"
    /\ Draft(p, t, Plan(j))

\* Five minutes pass.
Expire(t) ==
    /\ preview[t] # NoPreview
    /\ expired' = expired \cup {t}
    /\ UNCHANGED <<hostVars, preview, stage, open, jobVars, bootVars, memVars, mutex, drops, call, pc, todo, out, orphans>>

-----------------------------------------------------------------------------
(* Requests up to the durable lock.                                        *)

\* cancel reads the job and inserts the request into this process's set.
Cancel(p, j) ==
    /\ Ready(p)
    /\ jobState[j] \in {"queued", "running", "validating"}
    /\ cancels' = [cancels EXCEPT ![p] = @ \cup {j}]
    /\ UNCHANGED <<hostVars, planVars, jobVars, bootVars, mem, owned, mutex, drops, call, pc, todo, out, orphans>>

\* execute locks the mutex first; start_execute does not; execute_deployment
\* and rollback_interrupted lock it after ensure_reconciled.
Submit(r, p, m, t) ==
    /\ pc[r] = "idle"
    /\ pid[p] # NoPid
    /\ stage[t] = "issued"
    /\ m = "deploy" => recon[p] = "done"
    /\ call' = [call EXCEPT ![r] = [at |-> p, mode |-> m, tok |-> t, job |-> r]]
    /\ Goto(r, IF m = "start" THEN "take" ELSE "enter")
    /\ UNCHANGED <<hostVars, planVars, jobVars, bootVars, memVars, mutex, drops, todo, out, orphans>>

\* rollback_interrupted looks the job and its plan up before the mutex; it
\* takes only component installs.
SubmitRollback(r, p, j) ==
    /\ "rollback" \in Modes
    /\ pc[r] = "idle"
    /\ Ready(p)
    /\ jobState[j] = "interrupted"
    /\ Kind(j) = "install"
    /\ call' = [call EXCEPT ![r] = [at |-> p, mode |-> "rollback", tok |-> Tok(j), job |-> j]]
    /\ Goto(r, "enter")
    /\ UNCHANGED <<hostVars, planVars, jobVars, bootVars, memVars, mutex, drops, todo, out, orphans>>

\* Mutant: nothing waits for the mutex.
EnterRegardless(r) ==
    /\ pc[r] \in {"enter", "wait"}
    /\ mutex' = [mutex EXCEPT ![At(r)] = r]
    /\ Goto(r, CASE pc[r] = "wait"        -> "begin"
                 [] Mode(r) = "rollback"  -> "acquire"
                 [] OTHER                 -> "take")
    /\ UNCHANGED <<hostVars, planVars, jobVars, bootVars, memVars, drops, call, todo, out, orphans>>

\* transaction.lock().await
EnterMutex(r) ==
    /\ pc[r] \in {"enter", "wait"}
    /\ mutex[At(r)] = NoReq
    /\ mutex' = [mutex EXCEPT ![At(r)] = r]
    /\ Goto(r, CASE pc[r] = "wait"        -> "begin"
                 [] Mode(r) = "rollback"  -> "acquire"
                 [] OTHER                 -> "take")
    /\ UNCHANGED <<hostVars, planVars, jobVars, bootVars, memVars, drops, call, todo, out, orphans>>

\* Mutant: take_preview does not call ensure_reconciled.
TakeUnreconciled(r) ==
    /\ pc[r] = "take"
    /\ mem' = [mem EXCEPT ![At(r)] = @ \ {Tok(r)}]
    /\ Goto(r, "select")
    /\ UNCHANGED <<hostVars, planVars, jobVars, bootVars, cancels, owned, mutex, drops, call, todo, out, orphans>>

\* take_preview, the in-memory half: an entry of the same digest must carry
\* this token unexpired, and is removed; no entry defers to the database.
TakeMemory(r) ==
    /\ pc[r] = "take"
    /\ Ready(At(r))
    /\ IF \/ Tok(r) \in mem[At(r)] \ expired
          \/ \A u \in mem[At(r)] : preview[u].plan # Plan(r)
       THEN /\ mem' = [mem EXCEPT ![At(r)] = @ \ {Tok(r)}]
            /\ Goto(r, "select")
            /\ UNCHANGED <<hostVars, planVars, jobVars, bootVars, cancels, owned, mutex, drops, call, todo, out, orphans>>
       ELSE Refuse(r, "refused")

\* take_preview reads the row: unconsumed, this token's hash, not expired.
SelectRow(r) ==
    /\ pc[r] = "select"
    /\ IF Tok(r) \in open \ expired
       THEN /\ Goto(r, "consume")
            /\ UNCHANGED <<hostVars, planVars, jobVars, bootVars, memVars, mutex, drops, call, todo, out, orphans>>
       ELSE Refuse(r, "refused")

\* Mutant: rows_affected of the UPDATE is not looked at.
ConsumeBlindly(r) ==
    /\ pc[r] = "consume"
    /\ open' = open \ {Tok(r)}
    /\ Goto(r, "check")
    /\ UNCHANGED <<hostVars, preview, stage, expired, jobVars, bootVars, memVars, mutex, drops, call, todo, out, orphans>>

\* UPDATE ... SET consumed=1 WHERE digest=? AND consumed=0 AND token_hash=?
ConsumeRow(r) ==
    /\ pc[r] = "consume"
    /\ IF Tok(r) \in open
       THEN /\ open' = open \ {Tok(r)}
            /\ Goto(r, "check")
            /\ UNCHANGED <<hostVars, preview, stage, expired, jobVars, bootVars, memVars, mutex, drops, call, todo, out, orphans>>
       ELSE Refuse(r, "refused")

\* Mutant: the host digest is not compared again.
CheckNothing(r) ==
    /\ pc[r] = "check"
    /\ Goto(r, "acquire")
    /\ UNCHANGED <<hostVars, planVars, jobVars, bootVars, memVars, mutex, drops, call, todo, out, orphans>>

\* execute_deployment takes only application plans; then both compare the
\* digest of the host with the previewed one.
CheckHost(r) ==
    /\ pc[r] = "check"
    /\ IF /\ Mode(r) = "deploy" => Kind(r) = "application"
          /\ Listing(host) = preview[Tok(r)].digest
       THEN /\ Goto(r, "acquire")
            /\ UNCHANGED <<hostVars, planVars, jobVars, bootVars, memVars, mutex, drops, call, todo, out, orphans>>
       ELSE Refuse(r, "ended")

\* INSERT ... ON CONFLICT(singleton) DO NOTHING
AcquireLock(r) ==
    /\ pc[r] = "acquire"
    /\ IF lock = NoLock
       THEN /\ lock' = [job |-> Job(r), pid |-> pid[At(r)]]
            /\ Goto(r, CASE Mode(r) = "start"    -> "queue"
                         [] Mode(r) = "rollback" -> "reopen"
                         [] OTHER                -> "begin")
            /\ UNCHANGED <<hostVars, planVars, jobState, managed, deployed, bootVars, memVars, mutex, drops, call, todo, out, orphans>>
       ELSE Refuse(r, "ended")

\* start_execute records the job and spawns run_execute_job.
PushQueued(r) ==
    /\ pc[r] = "queue"
    /\ PushJob(r, "queued")
    /\ Goto(r, "wait")
    /\ UNCHANGED <<hostVars, planVars, lock, managed, deployed, bootVars, memVars, mutex, drops, call, todo, out, orphans>>

-----------------------------------------------------------------------------
(* The transaction.                                                        *)

\* The job runs; nothing of the plan is applied yet.
Begin(r) ==
    /\ pc[r] = "begin"
    /\ PushJob(r, "running")
    /\ todo' = [todo EXCEPT ![r] = Plan(r).pkgs]
    /\ Goto(r, "apply")
    /\ UNCHANGED <<hostVars, planVars, lock, managed, deployed, bootVars, memVars, mutex, drops, call, out, orphans>>

\* One apt-get, then, outside a deployment, the package-boundary checkpoint.
ApplyPackage(r) ==
    /\ pc[r] = "apply"
    /\ \E q \in todo[r] :
          /\ host' = ApplyTo(host, Kind(r), q)
          /\ todo' = [todo EXCEPT ![r] = @ \ {q}]
    /\ IF Mode(r) # "deploy" /\ CancelRequested(r)
       THEN TakeCancellation(r) /\ Compensate(r, "cancelled")
       ELSE UNCHANGED <<cancels, pc, out>>
    /\ UNCHANGED <<apps, planVars, jobVars, bootVars, mem, owned, mutex, drops, call, orphans>>

\* A failed apt-get: the job fails and nothing is rolled back.
ApplyFails(r) ==
    /\ "apply" \in Faults
    /\ pc[r] = "apply"
    /\ \E q \in todo[r] : host' \in {host, ApplyTo(host, Kind(r), q)}
    /\ Goto(r, "settle")
    /\ out' = [out EXCEPT ![r] = "failed"]
    /\ UNCHANGED <<apps, planVars, jobVars, bootVars, memVars, mutex, drops, call, todo, orphans>>

\* Mutant: the loop over the packages ends early.
CheckpointEarly(r) ==
    /\ pc[r] \in {"apply", "checkpoint"}
    /\ Goto(r, "validate")
    /\ PushJob(r, "validating")
    /\ UNCHANGED <<hostVars, planVars, lock, managed, deployed, bootVars, memVars, mutex, drops, call, todo, out, orphans>>

\* All packages applied, or the application provisioned: the checkpoint
\* before validation (a deployment first provisions).
Checkpoint(r) ==
    /\ pc[r] = "checkpoint" \/ (pc[r] = "apply" /\ todo[r] = {})
    /\ IF CancelRequested(r)
       THEN /\ TakeCancellation(r)
            /\ Compensate(r, "cancelled")
            /\ UNCHANGED jobState
       ELSE /\ IF Mode(r) = "deploy" /\ pc[r] = "apply"
               THEN Goto(r, "provision") /\ UNCHANGED jobState
               ELSE Goto(r, "validate") /\ PushJob(r, "validating")
            /\ UNCHANGED <<cancels, out>>
    /\ UNCHANGED <<hostVars, planVars, lock, managed, deployed, bootVars, mem, owned, mutex, drops, call, todo, orphans>>

\* The provisioner creates the application's site, database and files.
Provision(r) ==
    /\ pc[r] = "provision"
    /\ apps' = apps \cup {r}
    /\ Goto(r, "checkpoint")
    /\ UNCHANGED <<host, planVars, jobVars, bootVars, memVars, mutex, drops, call, todo, out, orphans>>

\* It fails: the packages are rolled back and the job fails.
ProvisionFails(r) ==
    /\ "provision" \in Faults
    /\ pc[r] = "provision"
    /\ Compensate(r, "failed")
    /\ UNCHANGED <<hostVars, planVars, jobVars, bootVars, memVars, mutex, drops, call, todo, orphans>>

\* set_managed first updates owned_components.
Own(r) ==
    owned' = [owned EXCEPT ![At(r)] = IF Kind(r) = "remove" THEN @ \ {Plan(r).target}
                                                           ELSE @ \cup {Plan(r).target}]

\* Validation passed (a removal is not validated); then the last checkpoint
\* and, outside a deployment, the in-memory half of set_managed.
Validate(r) ==
    /\ pc[r] = "validate"
    /\ (Kind(r) = "application") => (Mode(r) = "deploy")
    /\ IF CancelRequested(r)
       THEN TakeCancellation(r) /\ Compensate(r, "cancelled") /\ UNCHANGED owned
       ELSE /\ out' = [out EXCEPT ![r] = "succeeded"]
            /\ IF Mode(r) = "deploy"
               THEN Goto(r, "settle") /\ UNCHANGED owned
               ELSE Goto(r, "manage") /\ Own(r)
            /\ UNCHANGED cancels
    /\ UNCHANGED <<hostVars, planVars, jobVars, bootVars, mem, mutex, drops, call, todo, orphans>>

\* Validation fails: compensate, and the job fails.
ValidateFails(r) ==
    /\ "validate" \in Faults
    /\ pc[r] = "validate"
    /\ Kind(r) # "remove"
    /\ (Kind(r) = "application") => (Mode(r) = "deploy")
    /\ Compensate(r, "failed")
    /\ UNCHANGED <<hostVars, planVars, jobVars, bootVars, memVars, mutex, drops, call, todo, orphans>>

\* run_execute_job meets PreviewKind::Application only here, and returns.
RejectApplication(r) ==
    /\ pc[r] = "validate"
    /\ Kind(r) = "application" /\ Mode(r) # "deploy"
    /\ Goto(r, "ended")
    /\ FreeMutex(r)
    /\ DropGuard(r)
    /\ UNCHANGED <<hostVars, planVars, jobVars, bootVars, memVars, call, todo, out, orphans>>

\* The rows of software_components.
SetManaged(r) ==
    /\ pc[r] = "manage"
    /\ managed' = IF Kind(r) = "remove" THEN managed \ {Plan(r).target}
                                        ELSE managed \cup {Plan(r).target}
    /\ Goto(r, "settle")
    /\ UNCHANGED <<hostVars, planVars, jobState, lock, deployed, bootVars, memVars, mutex, drops, call, todo, out, orphans>>

-----------------------------------------------------------------------------
(* Compensation and the end of the transaction.                            *)

\* Its error is ignored: the packages are unwound either way.
Dismantle(r) ==
    /\ pc[r] = "dismantle"
    /\ \/ apps' = apps \ {r}
       \/ "rollback" \in Faults /\ UNCHANGED apps
    /\ Goto(r, "unwind")
    /\ UNCHANGED <<host, planVars, jobVars, bootVars, memVars, mutex, drops, call, todo, out, orphans>>

\* PackageManager::rollback removes what was installed or updated, package by
\* package.
UnwindPackage(r) ==
    /\ pc[r] = "unwind"
    /\ Kind(r) # "remove"
    /\ \E q \in Applied(r) :
          /\ host' = ApplyTo(host, "remove", q)
          /\ todo' = [todo EXCEPT ![r] = @ \cup {q}]
    /\ UNCHANGED <<apps, planVars, jobVars, bootVars, memVars, mutex, drops, call, pc, out, orphans>>

\* Mutant: rollback_interrupted ignores the error of a rollback.
UnwindSwallowsError(r) ==
    /\ pc[r] = "unwind"
    /\ Applied(r) = {} \/ "rollback" \in Faults
    /\ Goto(r, "settle")
    /\ UNCHANGED <<hostVars, planVars, jobVars, bootVars, memVars, mutex, drops, call, todo, out, orphans>>

\* It ends when nothing is left, refuses removals, and stops at an error; only
\* rollback_interrupted looks at its result.
UnwindEnds(r) ==
    /\ pc[r] = "unwind"
    /\ \/ Applied(r) = {} /\ UNCHANGED out
       \/ /\ Applied(r) # {}
          /\ Kind(r) = "remove" \/ "rollback" \in Faults
          /\ out' = [out EXCEPT ![r] = IF Mode(r) = "rollback" THEN "failed" ELSE @]
    /\ Goto(r, "settle")
    /\ UNCHANGED <<hostVars, planVars, jobVars, bootVars, memVars, mutex, drops, call, todo, orphans>>

\* rollback_interrupted reopens the job as rolling_back.
Reopen(r) ==
    /\ pc[r] = "reopen"
    /\ PushJob(r, "rolling_back")
    /\ todo' = [todo EXCEPT ![r] = {}]
    /\ out' = [out EXCEPT ![r] = "rolled_back"]
    /\ Goto(r, "unwind")
    /\ UNCHANGED <<hostVars, planVars, lock, managed, deployed, bootVars, memVars, mutex, drops, call, orphans>>

\* Mutant: a failure returns before its job is recorded.
SettleForgetsFailure(r) ==
    /\ pc[r] = "settle"
    /\ IF out[r] = "failed"
       THEN Goto(r, "ended") /\ FreeMutex(r) /\ DropGuard(r) /\ UNCHANGED jobState
       ELSE Goto(r, "release") /\ PushJob(r, out[r]) /\ UNCHANGED <<mutex, drops>>
    /\ UNCHANGED <<hostVars, planVars, lock, managed, deployed, bootVars, memVars, call, todo, out, orphans>>

\* Record the outcome.  A failure returns Err and drops the guard.
Settle(r) ==
    /\ pc[r] = "settle"
    /\ PushJob(r, out[r])
    /\ IF out[r] = "failed"
       THEN Goto(r, "ended") /\ FreeMutex(r) /\ DropGuard(r)
       ELSE /\ Goto(r, IF Mode(r) = "deploy" /\ out[r] = "succeeded" THEN "persist" ELSE "release")
            /\ UNCHANGED <<mutex, drops>>
    /\ UNCHANGED <<hostVars, planVars, lock, managed, deployed, bootVars, memVars, call, todo, out, orphans>>

\* The row of software_deployments.
PersistDeployment(r) ==
    /\ pc[r] = "persist"
    /\ deployed' = deployed \cup {r}
    /\ Goto(r, "release")
    /\ UNCHANGED <<hostVars, planVars, jobState, lock, managed, bootVars, memVars, mutex, drops, call, todo, out, orphans>>

\* DurableTransactionLock::release deletes the row of this job, then the
\* mutex guard goes out of scope.
Release(r) ==
    /\ pc[r] = "release"
    /\ lock' = IF lock # NoLock /\ lock.job = Job(r) THEN NoLock ELSE lock
    /\ Goto(r, "ended")
    /\ FreeMutex(r)
    /\ UNCHANGED <<hostVars, planVars, jobState, managed, deployed, bootVars, memVars, drops, call, todo, out, orphans>>

\* Where a spawned start_execute task can stop: at a failed statement.
StatementPcs == {"take", "select", "consume", "check", "acquire", "queue", "begin",
                 "checkpoint", "manage", "settle", "release"}

\* The client goes away and the handler's future is dropped, or a statement
\* fails.  Drop deletes the lock later; release() has already emptied the
\* guard, so there the row stays.
Abandon(r) ==
    /\ "abandon" \in Faults
    /\ InFlight(r)
    /\ Mode(r) = "start" => pc[r] \in StatementPcs
    /\ Goto(r, IF pc[r] \in PendingPcs THEN "refused" ELSE "ended")
    /\ FreeMutex(r)
    /\ IF pc[r] \in GuardPcs THEN DropGuard(r) ELSE UNCHANGED drops
    /\ IF Touching(r) # {} THEN Interrupted(Kind(r), Touching(r)) ELSE UNCHANGED <<host, orphans>>
    /\ UNCHANGED <<apps, planVars, jobVars, bootVars, memVars, call, todo, out>>

-----------------------------------------------------------------------------
Init ==
    /\ host = InitialHost
    /\ apps = {}
    /\ preview = [t \in Tokens |-> NoPreview]
    /\ stage = [t \in Tokens |-> "free"]
    /\ open = {}
    /\ expired = {}
    /\ jobState = [r \in Requests |-> "none"]
    /\ lock = NoLock
    /\ managed = {}
    /\ deployed = {}
    /\ pid = [p \in Procs |-> NoPid]
    /\ recon = [p \in Procs |-> "no"]
    /\ mem = [p \in Procs |-> {}]
    /\ mutex = [p \in Procs |-> NoReq]
    /\ cancels = [p \in Procs |-> {}]
    /\ owned = [p \in Procs |-> {}]
    /\ drops = [p \in Procs |-> {}]
    /\ call = [r \in Requests |-> NoReq]
    /\ pc = [r \in Requests |-> "idle"]
    /\ todo = [r \in Requests |-> {}]
    /\ out = [r \in Requests |-> "none"]
    /\ orphans = {}
    /\ spent = {}
    /\ exits = 0

\* The steps a running request takes by itself.
Step(r) ==
    \/ EnterMutex(r) \/ TakeMemory(r) \/ SelectRow(r) \/ ConsumeRow(r)
    \/ CheckHost(r) \/ AcquireLock(r) \/ PushQueued(r) \/ Begin(r)
    \/ ApplyPackage(r) \/ Checkpoint(r) \/ Provision(r) \/ Validate(r)
    \/ RejectApplication(r) \/ SetManaged(r) \/ Dismantle(r)
    \/ UnwindPackage(r) \/ UnwindEnds(r) \/ Reopen(r) \/ Settle(r)
    \/ PersistDeployment(r) \/ Release(r)

Fault(r) == ApplyFails(r) \/ ProvisionFails(r) \/ ValidateFails(r) \/ Abandon(r)

Reconcile(p) == ReconcileRead(p) \/ ReconcileMark(p) \/ ReconcileClear(p)

Next ==
    \/ \E p \in Procs :
          \/ \E i \in Pids : Start(p, i)
          \/ Reconcile(p) \/ Exit(p) \/ RunDrop(p)
          \/ \E t \in Tokens :
                \/ \E c \in Components, a \in PlanKinds \cap ComponentActions :
                      PreviewComponent(p, t, c, a)
                \/ PreviewDeployment(p, t)
                \/ \E j \in Requests : RetryPreview(p, t, j)
                \/ \E r \in Requests, m \in Modes \ {"rollback"} : Submit(r, p, m, t)
          \/ \E j \in Requests :
                \/ Cancel(p, j)
                \/ \E r \in Requests : SubmitRollback(r, p, j)
    \/ \E t \in Tokens : PersistPlan(t) \/ RememberPreview(t) \/ Expire(t)
    \/ \E o \in orphans : OrphanEnds(o)
    \/ \E r \in Requests : Step(r) \/ Fault(r)

Spec == Init /\ [][Next]_vars

\* What the runtime keeps doing by itself: a started task is polled until it
\* ends, spawned deletes run, the service manager restarts the panel and the
\* first operation reconciles.
Fairness ==
    /\ \A r \in Requests : WF_vars(Step(r))
    /\ \A p \in Procs : /\ WF_vars(\E i \in Pids : Start(p, i))
                        /\ WF_vars(Reconcile(p))
                        /\ WF_vars(RunDrop(p))

FairSpec == Spec /\ Fairness
=============================================================================
