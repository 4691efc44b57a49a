------------------------------- MODULE Backups -------------------------------
(***************************************************************************)
(* Backups: one plan and the cron job that runs it, the rows of            *)
(* backup_runs, the directories the runs keep their artifacts in, and the  *)
(* document roots that restores replace.  Calls come from the server and   *)
(* from the command line (cron starts `openpanel backup run`), which share *)
(* the database and the disk and nothing else.  Every step ends at an      *)
(* await; CronService is one step of a call here.                          *)
(*                                                                         *)
(* What a site holds is Empty or a version its owner wrote; an archive     *)
(* holds what it was taken from.  Runs are numbered by created_at.         *)
(***************************************************************************)
EXTENDS Naturals, FiniteSets, Sequences

CONSTANTS
    Requests,    \* calls of the service, each made once
    Sites,
    Parents, ParentOf,  \* the parent directory of each document root
    Resources,   \* the sites of the plan, in its order
    Copies,      \* retention counts a plan can be given
    Initial,     \* completed runs at the start
    MaxRuns,     \* bound on the rows of backup_runs
    MaxEdits, MaxFaults,  \* bounds on what happens from outside
    NoPlan, Gone, NoRow, NoDir, Missing, Empty

Ops == {"create", "update", "enable", "disable", "delete_plan",
        "run", "verify", "restore", "delete_run"}

ASSUME BackupAssumption ==
    /\ Resources \in Seq(Sites) /\ Resources # <<>>
    /\ ParentOf \in [Sites -> Parents]
    /\ Copies \subseteq Nat \ {0}
    /\ Initial \in Nat /\ MaxRuns \in Nat /\ Initial <= MaxRuns
    /\ MaxEdits \in Nat /\ MaxFaults \in Nat

RunIds == 1 .. MaxRuns
Contents == {Empty} \cup (Sites \X (0 .. MaxEdits))
PlanRows == [enabled : BOOLEAN, copies : Copies]

States == {"running", "completed", "failed", "corrupt"}
Archives == [at : {"staging", "runs"}, intact : BOOLEAN, holds : [Sites -> Contents \cup {Missing}]]

ASSUME BackupNulls ==
    /\ NoPlan # Gone /\ NoPlan \notin PlanRows \cup {"on", "off"}
    /\ Gone \notin PlanRows \cup {"on", "off"}
    /\ NoRow \notin States /\ NoDir \notin Archives /\ Missing \notin Contents

\* What a call has read and decided.
Locals == [op : Ops \cup {"none"}, run : RunIds \cup {0}, plan : PlanRows \cup {NoPlan},
           overwrite : BOOLEAN, sites : Seq(Sites), doomed : SUBSET RunIds]

VARIABLES
    plan,    \* the row of backup_plans
    cron,    \* its cron job
    rows,    \* backup_runs: the state of each run
    dirs,    \* .staging/<run> or runs/<run>
    issued,  \* runs created so far
    target,  \* the document root of each site
    safety,  \* .openpanel-safety-<job> in each parent directory
    staged,  \* .openpanel-restore-<job> beside the site being restored
    restored,  \* restore_jobs
    pc, job,   \* where each call stands, and its local variables
    latest,    \* what the owner of each site wrote last
    finished, least,  \* runs completed so far; the lowest retention count in force
    dropped,   \* a deletion was requested or a run found corrupt
    cut,       \* runs whose operation was cut short
    edits, faults   \* counted up to their bounds

planVars == <<plan, cron, least>>
runVars == <<rows, dirs, issued, finished, dropped>>
siteVars == <<target, safety, staged, restored, latest, edits>>
faultVars == <<cut, faults>>
vars == <<planVars, runVars, siteVars, faultVars, pc, job>>

Blank == [op |-> "none", run |-> 0, plan |-> NoPlan, overwrite |-> FALSE,
          sites |-> <<>>, doomed |-> {}]
Completed == {r \in RunIds : rows[r] = "completed"}
Stored(p) == p \notin {NoPlan, Gone}
Finalized(r) == dirs[r] # NoDir /\ dirs[r].at = "runs"
NonEmpty(path) == path \notin {Missing, Empty}
Least(m, n) == IF m < n THEN m ELSE n

Init ==
    /\ \/ plan = NoPlan /\ cron = NoPlan /\ issued = 0 /\ least = 0
       \/ \E c \in Copies :
             /\ plan = [enabled |-> TRUE, copies |-> c] /\ cron = "on" /\ least = c
             /\ issued = Initial
    /\ rows = [r \in RunIds |-> IF r <= issued THEN "completed" ELSE NoRow]
    /\ dirs = [r \in RunIds |->
          IF r <= issued
          THEN [at |-> "runs", intact |-> TRUE, holds |-> [s \in Sites |-> <<s, 0>>]]
          ELSE NoDir]
    /\ finished = issued
    /\ target \in [Sites -> {Empty}] \cup [Sites -> {Missing} \cup (Sites \X {0})]
    /\ \A s \in Sites : target[s] \in {<<s, 0>>, Empty, Missing}
    /\ latest = target
    /\ safety = [a \in Requests |-> [d \in Parents |-> Missing]]
    /\ staged = [a \in Requests |-> Missing]
    /\ restored = {} /\ cut = {} /\ dropped = FALSE
    /\ pc = [a \in Requests |-> "idle"]
    /\ job = [a \in Requests |-> Blank]
    /\ edits = 0 /\ faults = 0

-----------------------------------------------------------------------------
Goto(a, l) == pc' = [pc EXCEPT ![a] = l]

\* The call returns, with or without an error.
Return(a) == Goto(a, "done") /\ job' = [job EXCEPT ![a] = Blank]

\* UPDATE backup_plans SET payload = ?: nothing when the plan is gone.
SavePlan(p) == plan' = IF Stored(plan) THEN p ELSE plan

-----------------------------------------------------------------------------
(* Plans *)

\* create_plan: CronService::create, then the row.
PlanCreateCron(a, c) ==
    /\ pc[a] = "idle" /\ plan = NoPlan /\ cron = NoPlan
    /\ cron' = "on"
    /\ job' = [job EXCEPT ![a] = [Blank EXCEPT !.op = "create",
                                     !.plan = [enabled |-> TRUE, copies |-> c]]]
    /\ Goto(a, "insert_plan")
    /\ UNCHANGED <<plan, least, runVars, siteVars, faultVars>>

PlanInsert(a) ==
    /\ pc[a] = "insert_plan"
    /\ plan' = job[a].plan /\ least' = job[a].plan.copies
    /\ Return(a)
    /\ UNCHANGED <<cron, runVars, siteVars, faultVars>>

\* Every other call on a plan reads it first and changes its own copy.
Changed(op, p, c) ==
    CASE op = "update"  -> [p EXCEPT !.copies = c]
      [] op = "enable"  -> [p EXCEPT !.enabled = TRUE]
      [] op = "disable" -> [p EXCEPT !.enabled = FALSE]
      [] OTHER          -> p

PlanCall(a, op, c) ==
    /\ pc[a] = "idle" /\ op \in {"update", "enable", "disable", "delete_plan"}
    /\ Stored(plan)
    /\ job' = [job EXCEPT ![a] = [Blank EXCEPT !.op = op, !.plan = Changed(op, plan, c)]]
    /\ Goto(a, IF op = "update" THEN "save_plan" ELSE "cron")
    /\ UNCHANGED <<planVars, runVars, siteVars, faultVars>>

\* Mutant: the cron job of a disabled plan is not deleted with it.
PlanCronKeeps(a) ==
    /\ pc[a] = "cron" /\ cron # Gone
    /\ cron' = CASE job[a].op = "enable"  -> "on"
                 [] job[a].op = "disable" -> "off"
                 [] OTHER                 -> IF job[a].plan.enabled THEN Gone ELSE cron
    /\ Goto(a, IF job[a].op = "delete_plan" THEN "delete_plan" ELSE "save_plan")
    /\ UNCHANGED <<plan, least, runVars, siteVars, faultVars, job>>

\* CronService::set_enabled and delete fail when the job is gone.
PlanCron(a) ==
    /\ pc[a] = "cron"
    /\ \/ /\ cron # Gone
          /\ cron' = CASE job[a].op = "enable"  -> "on"
                       [] job[a].op = "disable" -> "off"
                       [] OTHER                 -> Gone
          /\ Goto(a, IF job[a].op = "delete_plan" THEN "delete_plan" ELSE "save_plan")
          /\ UNCHANGED job
       \/ cron = Gone /\ Return(a) /\ UNCHANGED cron
    /\ UNCHANGED <<plan, least, runVars, siteVars, faultVars>>

PlanSave(a) ==
    /\ pc[a] = "save_plan"
    /\ SavePlan(job[a].plan)
    /\ least' = Least(least, job[a].plan.copies)
    /\ Return(a)
    /\ UNCHANGED <<cron, runVars, siteVars, faultVars>>

PlanDelete(a) ==
    /\ pc[a] = "delete_plan"
    /\ plan' = Gone
    /\ Return(a)
    /\ UNCHANGED <<cron, least, runVars, siteVars, faultVars>>

-----------------------------------------------------------------------------
(* run_plan *)

\* The plan is read and the run gets its id and its created_at.
RunStart(a) ==
    /\ pc[a] = "idle" /\ Stored(plan) /\ issued < MaxRuns
    /\ issued' = issued + 1
    /\ job' = [job EXCEPT ![a] = [Blank EXCEPT !.op = "run", !.run = issued + 1,
                                     !.plan = plan, !.sites = Resources]]
    /\ Goto(a, "insert_run")
    /\ UNCHANGED <<planVars, rows, dirs, finished, dropped, siteVars, faultVars>>

RunInsert(a) ==
    /\ pc[a] = "insert_run"
    /\ rows' = [rows EXCEPT ![job[a].run] = "running"]
    /\ dirs' = [dirs EXCEPT ![job[a].run] =
                  [at |-> "staging", intact |-> TRUE, holds |-> [s \in Sites |-> Missing]]]
    /\ Goto(a, "capture")
    /\ UNCHANGED <<planVars, issued, finished, dropped, siteVars, faultVars, job>>

\* Mutant: a document root that is missing is passed over.
CaptureSkips(a) ==
    LET s == Head(job[a].sites) IN
    /\ pc[a] = "capture" /\ job[a].sites # <<>>
    /\ dirs' = [dirs EXCEPT ![job[a].run].holds[s] = target[s]]
    /\ job' = [job EXCEPT ![a].sites = Tail(@)]
    /\ UNCHANGED <<planVars, rows, issued, finished, dropped, siteVars, faultVars, pc>>

\* One resource at a time; a document root that is not a directory ends the capture.
Capture(a) ==
    LET r == job[a].run
        s == Head(job[a].sites)
    IN
    /\ pc[a] = "capture" /\ job[a].sites # <<>>
    /\ \/ /\ target[s] # Missing
          /\ dirs' = [dirs EXCEPT ![r].holds[s] = target[s]]
          /\ job' = [job EXCEPT ![a].sites = Tail(@)]
          /\ UNCHANGED pc
       \/ target[s] = Missing /\ Goto(a, "discard") /\ UNCHANGED <<dirs, job>>
    /\ UNCHANGED <<planVars, rows, issued, finished, dropped, siteVars, faultVars>>

\* The manifest is written and .staging/<run> renamed to runs/<run>.
Finalize(a) ==
    /\ pc[a] = "capture" /\ job[a].sites = <<>>
    /\ dirs' = [dirs EXCEPT ![job[a].run].at = "runs"]
    /\ Goto(a, "complete")
    /\ UNCHANGED <<planVars, rows, issued, finished, dropped, siteVars, faultVars, job>>

RunComplete(a) ==
    /\ pc[a] = "complete"
    /\ rows' = [rows EXCEPT ![job[a].run] = "completed"]
    /\ finished' = finished + 1
    /\ Goto(a, "retention")
    /\ UNCHANGED <<planVars, dirs, issued, dropped, siteVars, faultVars, job>>

\* Mutant: the error is returned and the run left as it is.
DiscardReturns(a) ==
    /\ pc[a] = "discard"
    /\ dirs' = [dirs EXCEPT ![job[a].run] = NoDir]
    /\ Return(a)
    /\ UNCHANGED <<planVars, rows, issued, finished, dropped, siteVars, faultVars>>

\* An error of the capture: the staging directory goes, then the run has failed.
Discard(a) ==
    /\ pc[a] = "discard"
    /\ dirs' = [dirs EXCEPT ![job[a].run] = NoDir]
    /\ Goto(a, "fail")
    /\ UNCHANGED <<planVars, rows, issued, finished, dropped, siteVars, faultVars, job>>

RunFail(a) ==
    /\ pc[a] = "fail"
    /\ rows' = [rows EXCEPT ![job[a].run] = "failed"]
    /\ Return(a)
    /\ UNCHANGED <<planVars, dirs, issued, finished, dropped, siteVars, faultVars>>

-----------------------------------------------------------------------------
(* apply_retention and delete_run *)

\* Mutant: the run just completed is not counted.
DeletionsOneMore(copies) ==
    {r \in Completed : Cardinality({n \in Completed : n > r}) + 1 >= copies}

\* RetentionPolicy::deletions of the runs as they are now: the completed ones
\* that have at least `copies` newer completed ones.
Deletions(copies) ==
    {r \in Completed : Cardinality({n \in Completed : n > r}) >= copies}

\* The plan is the one the run was started with.
Retention(a) ==
    /\ pc[a] = "retention"
    /\ job' = [job EXCEPT ![a].doomed = Deletions(job[a].plan.copies)]
    /\ Goto(a, "prune")
    /\ UNCHANGED <<planVars, runVars, siteVars, faultVars>>

\* delete_run reads the run again, newest first; a run that is gone is an error.
Prune(a) ==
    /\ pc[a] = "prune"
    /\ \/ \E r \in job[a].doomed :
             /\ \A d \in job[a].doomed : d <= r
             /\ rows[r] # NoRow
             /\ job' = [job EXCEPT ![a].run = r, ![a].doomed = @ \ {r}]
             /\ Goto(a, "remove")
       \/ /\ \/ job[a].doomed = {}
             \/ \E r \in job[a].doomed : rows[r] = NoRow /\ \A d \in job[a].doomed : d <= r
          /\ Return(a)
    /\ UNCHANGED <<planVars, runVars, siteVars, faultVars>>

\* A call to delete a run: active runs are refused.
DeleteRun(a, r) ==
    /\ pc[a] = "idle"
    /\ rows[r] \in States \ {"running"}
    /\ job' = [job EXCEPT ![a] = [Blank EXCEPT !.op = "delete_run", !.run = r]]
    /\ dropped' = TRUE
    /\ Goto(a, "remove")
    /\ UNCHANGED <<planVars, rows, dirs, issued, finished, siteVars, faultVars>>

RemoveFiles(a) ==
    LET r == job[a].run IN
    /\ pc[a] = "remove"
    /\ dirs' = [dirs EXCEPT ![r] = IF Finalized(r) THEN NoDir ELSE @]
    /\ Goto(a, "delete_row")
    /\ UNCHANGED <<planVars, rows, issued, finished, dropped, siteVars, faultVars, job>>

DeleteRow(a) ==
    /\ pc[a] = "delete_row"
    /\ rows' = [rows EXCEPT ![job[a].run] = NoRow]
    /\ IF job[a].op = "run"
       THEN Goto(a, "prune") /\ UNCHANGED job
       ELSE Return(a)
    /\ UNCHANGED <<planVars, dirs, issued, finished, dropped, siteVars, faultVars>>

-----------------------------------------------------------------------------
(* verify and restore *)

\* The run is read; only a completed one is verified.  restore verifies twice,
\* the second time for its preview.
VerifyCall(a, r, op, overwrite, sites) ==
    /\ pc[a] = "idle" /\ op \in {"verify", "restore"}
    /\ rows[r] = "completed"
    /\ job' = [job EXCEPT ![a] = [Blank EXCEPT !.op = op, !.run = r,
                                     !.overwrite = overwrite, !.sites = sites]]
    /\ Goto(a, "check")
    /\ UNCHANGED <<planVars, runVars, siteVars, faultVars>>

VerifyAgain(a) ==
    /\ pc[a] = "again"
    /\ \/ rows[job[a].run] = "completed" /\ Goto(a, "recheck") /\ UNCHANGED job
       \/ rows[job[a].run] # "completed" /\ Return(a)
    /\ UNCHANGED <<planVars, runVars, siteVars, faultVars>>

\* The artifacts are read and hashed; a missing one is an error.
VerifyFiles(a) ==
    LET r == job[a].run IN
    /\ pc[a] \in {"check", "recheck"}
    /\ \/ /\ Finalized(r) /\ dirs[r].intact
          /\ \/ job[a].op = "verify" /\ Return(a)
             \/ job[a].op = "restore" /\ pc[a] = "check" /\ Goto(a, "again") /\ UNCHANGED job
             \/ job[a].op = "restore" /\ pc[a] = "recheck" /\ Goto(a, "preview") /\ UNCHANGED job
       \/ Finalized(r) /\ ~dirs[r].intact /\ Goto(a, "corrupt") /\ UNCHANGED job
       \/ ~Finalized(r) /\ Return(a)
    /\ UNCHANGED <<planVars, runVars, siteVars, faultVars>>

MarkCorrupt(a) ==
    LET r == job[a].run IN
    /\ pc[a] = "corrupt"
    /\ rows' = [rows EXCEPT ![r] = IF @ = NoRow THEN @ ELSE "corrupt"]
    /\ dropped' = TRUE
    /\ Return(a)
    /\ UNCHANGED <<planVars, dirs, issued, finished, siteVars, faultVars>>

\* Without overwrite, no site of the backup may have files in its target.
Preview(a) ==
    LET conflict == \E i \in DOMAIN Resources : NonEmpty(target[Resources[i]]) IN
    /\ pc[a] = "preview"
    /\ \/ (job[a].overwrite \/ ~conflict) /\ Goto(a, "extract") /\ UNCHANGED job
       \/ ~job[a].overwrite /\ conflict /\ Return(a)
    /\ UNCHANGED <<planVars, runVars, siteVars, faultVars>>

\* restore_site, for one site after the other: the archive is unpacked beside
\* the target ...
Extract(a) ==
    LET r == job[a].run IN
    /\ pc[a] = "extract" /\ job[a].sites # <<>>
    /\ \/ /\ Finalized(r)
          /\ staged' = [staged EXCEPT ![a] = dirs[r].holds[Head(job[a].sites)]]
          /\ Goto(a, "probe")
          /\ UNCHANGED job
       \/ ~Finalized(r) /\ Return(a) /\ UNCHANGED staged
    /\ UNCHANGED <<planVars, runVars, target, safety, restored, latest, edits, faultVars>>

Probe(a) ==
    /\ pc[a] = "probe"
    /\ Goto(a, IF target[Head(job[a].sites)] = Missing THEN "install" ELSE "aside")
    /\ UNCHANGED <<planVars, runVars, siteVars, faultVars, job>>

\* Mutant: without overwrite the target goes with whatever it holds.
AsideClears(a) ==
    LET s == Head(job[a].sites)
        d == ParentOf[s]
        moves == job[a].overwrite /\ target[s] # Missing /\ ~NonEmpty(safety[a][d])
        removes == ~job[a].overwrite /\ target[s] # Missing
    IN
    /\ pc[a] = "aside"
    /\ \/ moves /\ safety' = [safety EXCEPT ![a][d] = target[s]]
       \/ ~moves /\ UNCHANGED safety
    /\ \/ (moves \/ removes) /\ target' = [target EXCEPT ![s] = Missing]
          /\ Goto(a, "install") /\ UNCHANGED job
       \/ ~(moves \/ removes) /\ Return(a) /\ UNCHANGED target
    /\ UNCHANGED <<planVars, runVars, staged, restored, latest, edits, faultVars>>

\* ... the target is renamed to the safety copy, or removed if it is empty.
\* rename(2) refuses to replace a directory with files in it.
Aside(a) ==
    LET s == Head(job[a].sites)
        d == ParentOf[s]
        moves == job[a].overwrite /\ target[s] # Missing /\ ~NonEmpty(safety[a][d])
        removes == ~job[a].overwrite /\ target[s] = Empty
    IN
    /\ pc[a] = "aside"
    /\ \/ moves /\ safety' = [safety EXCEPT ![a][d] = target[s]]
       \/ ~moves /\ UNCHANGED safety
    /\ \/ (moves \/ removes) /\ target' = [target EXCEPT ![s] = Missing]
          /\ Goto(a, "install") /\ UNCHANGED job
       \/ ~(moves \/ removes) /\ Return(a) /\ UNCHANGED target
    /\ UNCHANGED <<planVars, runVars, staged, restored, latest, edits, faultVars>>

\* ... and what was unpacked takes its place.
Install(a) ==
    LET s == Head(job[a].sites) IN
    /\ pc[a] = "install"
    /\ \/ /\ ~NonEmpty(target[s])
          /\ target' = [target EXCEPT ![s] = staged[a]]
          /\ staged' = [staged EXCEPT ![a] = Missing]
          /\ job' = [job EXCEPT ![a].sites = Tail(@)]
          /\ Goto(a, "extract")
       \/ NonEmpty(target[s]) /\ Goto(a, "put_back") /\ UNCHANGED <<target, staged, job>>
    /\ UNCHANGED <<planVars, runVars, safety, restored, latest, edits, faultVars>>

\* A failed rename brings the safety copy back, if there is one and it can.
PutBack(a) ==
    LET s == Head(job[a].sites)
        d == ParentOf[s]
        back == safety[a][d] # Missing /\ ~NonEmpty(target[s])
    IN
    /\ pc[a] = "put_back"
    /\ target' = [target EXCEPT ![s] = IF back THEN safety[a][d] ELSE @]
    /\ safety' = [safety EXCEPT ![a][d] = IF back THEN Missing ELSE @]
    /\ Return(a)
    /\ UNCHANGED <<planVars, runVars, staged, restored, latest, edits, faultVars>>

Restored(a) ==
    /\ pc[a] = "extract" /\ job[a].sites = <<>>
    /\ restored' = restored \cup {a}
    /\ Return(a)
    /\ UNCHANGED <<planVars, runVars, target, safety, staged, latest, edits, faultVars>>

-----------------------------------------------------------------------------
(* What happens from outside *)

\* The owner of a site changes its files.
Edit(s) ==
    /\ target[s] # Missing /\ edits < MaxEdits
    /\ edits' = edits + 1
    /\ target' = [target EXCEPT ![s] = <<s, edits + 1>>]
    /\ latest' = [latest EXCEPT ![s] = <<s, edits + 1>>]
    /\ UNCHANGED <<planVars, runVars, safety, staged, restored, faultVars, pc, job>>

\* The disk damages a stored artifact.
Rot(r) ==
    /\ dirs[r] # NoDir /\ dirs[r].intact /\ faults < MaxFaults
    /\ faults' = faults + 1
    /\ dirs' = [dirs EXCEPT ![r].intact = FALSE]
    /\ UNCHANGED <<planVars, rows, issued, finished, dropped, siteVars, cut, pc, job>>

\* The disk, mysqldump or a rename fails where the code has an answer to it.
HandledFailure(a) ==
    /\ faults < MaxFaults
    /\ faults' = faults + 1
    /\ \/ pc[a] = "capture" /\ Goto(a, "discard")
       \/ pc[a] = "install" /\ Goto(a, "put_back")
    /\ UNCHANGED <<planVars, runVars, siteVars, cut, job>>

\* The process ends, the caller goes away or the database refuses: nothing
\* more of the call happens.
CutShort(a) ==
    /\ pc[a] \notin {"idle", "done"} /\ faults < MaxFaults
    /\ faults' = faults + 1
    /\ cut' = IF job[a].run = 0 THEN cut ELSE cut \cup {job[a].run}
    /\ Return(a)
    /\ UNCHANGED <<planVars, runVars, siteVars>>

-----------------------------------------------------------------------------
PlanStep(a) == PlanInsert(a) \/ PlanCron(a) \/ PlanSave(a) \/ PlanDelete(a)

RunStep(a) ==
    \/ RunInsert(a) \/ Capture(a) \/ Finalize(a) \/ RunComplete(a)
    \/ Discard(a) \/ RunFail(a) \/ Retention(a) \/ Prune(a)
    \/ RemoveFiles(a) \/ DeleteRow(a)

RestoreStep(a) ==
    \/ VerifyAgain(a) \/ VerifyFiles(a) \/ MarkCorrupt(a) \/ Preview(a)
    \/ Extract(a) \/ Probe(a) \/ Aside(a) \/ Install(a) \/ PutBack(a) \/ Restored(a)

Step(a) == PlanStep(a) \/ RunStep(a) \/ RestoreStep(a)

Call(a) ==
    \/ \E c \in Copies : PlanCreateCron(a, c) \/ \E op \in Ops : PlanCall(a, op, c)
    \/ RunStart(a)
    \/ \E r \in RunIds :
          \/ DeleteRun(a, r)
          \/ VerifyCall(a, r, "verify", FALSE, <<>>)
          \/ \E overwrite \in BOOLEAN : VerifyCall(a, r, "restore", overwrite, Resources)

Next ==
    \/ \E a \in Requests : Call(a) \/ Step(a) \/ HandledFailure(a) \/ CutShort(a)
    \/ \E s \in Sites : Edit(s)
    \/ \E r \in RunIds : Rot(r)

Spec == Init /\ [][Next]_vars

\* The runtime polls every call it has begun.
FairSpec == Spec /\ \A a \in Requests : WF_vars(Step(a))

-----------------------------------------------------------------------------
\* The rows, the directories and every call's local variables are well formed.
TypeOK ==
    /\ plan \in PlanRows \cup {NoPlan, Gone}
    /\ cron \in {"on", "off", NoPlan, Gone}
    /\ rows \in [RunIds -> States \cup {NoRow}]
    /\ dirs \in [RunIds -> Archives \cup {NoDir}]
    /\ issued \in 0 .. MaxRuns /\ finished \in Nat
    /\ least \in Copies \cup {0}
    /\ target \in [Sites -> Contents \cup {Missing}]
    /\ latest \in [Sites -> Contents \cup {Missing}]
    /\ safety \in [Requests -> [Parents -> Contents \cup {Missing}]]
    /\ staged \in [Requests -> Contents \cup {Missing}]
    /\ restored \subseteq Requests /\ cut \subseteq RunIds
    /\ dropped \in BOOLEAN
    /\ pc \in [Requests -> {"idle", "done", "insert_plan", "cron", "save_plan", "delete_plan",
                            "insert_run", "capture", "complete", "discard", "fail", "retention",
                            "prune", "remove", "delete_row", "check", "again", "recheck",
                            "corrupt", "preview", "extract", "probe", "aside", "install",
                            "put_back"}]
    /\ job \in [Requests -> Locals]
    /\ edits \in 0 .. MaxEdits /\ faults \in 0 .. MaxFaults

\* Whoever is removing a run takes its files first.
BeingDeleted(r) == \E a \in Requests : pc[a] = "delete_row" /\ job[a].run = r

\* "Partial runs never enter the restorable set": a run that is offered as
\* completed has its finalized directory with every resource of the plan,
\* unless a deletion is between its two steps or ended there.
CompletedHasFiles ==
    \A r \in Completed :
       \/ /\ Finalized(r)
          /\ \A i \in DOMAIN Resources : dirs[r].holds[Resources[i]] # Missing
       \/ BeingDeleted(r) \/ r \in cut

\* What the owner of a site wrote last is in its document root or in a safety
\* copy beside it, through concurrent restores, edits between the preview and
\* the rename, renames that fail and calls that are cut short.
LiveContentKept ==
    \A s \in Sites : NonEmpty(latest[s]) =>
       latest[s] \in {target[s]} \cup {safety[a][ParentOf[s]] : a \in Requests}

\* Retentions of concurrent runs, each working through the list it made and
\* some of them cut short, leave as many completed runs with their files as
\* the lowest count in force, as long as nobody deletes runs meanwhile.
RetentionSpares ==
    ~dropped => Cardinality({r \in Completed : Finalized(r)}) >= Least(least, finished)

\* delete_plan takes the cron job first: a plan that is gone is not run by a
\* cron job that is left, however calls on it interleave and end.
NoOrphanSchedule == plan = Gone => cron = Gone

\* A run does not stay active for ever, unless the call that made it was cut short.
RunsSettle ==
    \A r \in RunIds : rows[r] = "running" ~> (rows[r] # "running" \/ r \in cut)
=============================================================================
