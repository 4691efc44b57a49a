---------------------------- MODULE BackupsProofs ----------------------------
(***************************************************************************)
(* Theorems about Backups for every plan, number of calls, sites, runs,    *)
(* edits and faults.                                                       *)
(***************************************************************************)
EXTENDS Backups, FiniteSetTheorems, TLAPS

Places == {"idle", "done", "insert_plan", "cron", "save_plan", "delete_plan",
           "insert_run", "capture", "complete", "discard", "fail", "retention",
           "prune", "remove", "delete_row", "check", "again", "recheck",
           "corrupt", "preview", "extract", "probe", "aside", "install", "put_back"}

\* The call is making this run, or works on one that it found.
Owns(a) == pc[a] \in {"insert_run", "capture", "complete", "discard", "fail"}
Refers(a) == pc[a] \in {"remove", "delete_row", "check", "again", "recheck", "corrupt",
                        "preview", "extract", "probe", "aside", "install", "put_back"}

\* What a call has in its local variables, at each place of the code that uses it.
Bound(a) ==
    /\ pc[a] \in {"insert_plan", "cron", "save_plan", "delete_plan"} => job[a].plan \in PlanRows
    /\ Owns(a) => job[a].op = "run" /\ job[a].doomed = {}
    /\ pc[a] \in {"retention", "prune"} => job[a].op = "run"
    /\ job[a].op = "run" => job[a].plan \in PlanRows
    /\ Owns(a) \/ Refers(a) => job[a].run \in RunIds
    /\ pc[a] \in {"probe", "aside", "install", "put_back"} => job[a].sites # <<>>

\* The variables of the calls.
ActorInv ==
    /\ pc \in [Requests -> Places]
    /\ job \in [Requests -> Locals]
    /\ \A a \in Requests : Bound(a)

\* The plan, its schedule and the lowest retention count.
PlanTypes ==
    /\ plan \in PlanRows \cup {NoPlan, Gone}
    /\ cron \in {"on", "off", NoPlan, Gone}
    /\ least \in Copies \cup {0}

\* The runs and their directories.
RunTypes ==
    /\ rows \in [RunIds -> States \cup {NoRow}]
    /\ dirs \in [RunIds -> Archives \cup {NoDir}]
    /\ issued \in 0 .. MaxRuns /\ finished \in Nat
    /\ cut \subseteq RunIds /\ dropped \in BOOLEAN /\ faults \in 0 .. MaxFaults

\* The document roots and what restores put beside them.
SiteTypes ==
    /\ target \in [Sites -> Contents \cup {Missing}]
    /\ latest \in [Sites -> Contents \cup {Missing}]
    /\ safety \in [Requests -> [Parents -> Contents \cup {Missing}]]
    /\ staged \in [Requests -> Contents \cup {Missing}]
    /\ restored \subseteq Requests /\ edits \in 0 .. MaxEdits

Inv == ActorInv /\ PlanTypes /\ RunTypes /\ SiteTypes

\* The parts of the types.
LEMMA TypeParts == Inv => TypeOK
BY DEF Inv, TypeOK, ActorInv, PlanTypes, RunTypes, SiteTypes, Places

-----------------------------------------------------------------------------
(* One call moves, the others stay *)

\* The other calls stay where they are.
OthersStay(a) == \A b \in Requests \ {a} : pc'[b] = pc[b] /\ job'[b] = job[b]

\* The call goes to place l with local variables j.
Moves(a, l, j) == ActorInv' /\ OthersStay(a) /\ pc'[a] = l /\ job'[a] = j

\* A call that returns keeps nothing.
LEMMA BlankLocals ==
  /\ Blank \in Locals
  /\ Blank.op = "none" /\ Blank.run = 0 /\ Blank.doomed = {} /\ Blank.sites = <<>>
BY DEF Blank, Locals, Ops

\* A move to a place whose local variables are bound keeps the invariant.
LEMMA MoveInv ==
  ASSUME ActorInv, NEW a \in Requests, NEW l \in Places, NEW j \in Locals,
         pc' = [pc EXCEPT ![a] = l], job' = [job EXCEPT ![a] = j],
         l \in {"insert_plan", "cron", "save_plan", "delete_plan"} => j.plan \in PlanRows,
         l \in {"insert_run", "capture", "complete", "discard", "fail"}
            => j.op = "run" /\ j.doomed = {} /\ j.run \in RunIds,
         l \in {"retention", "prune"} => j.op = "run",
         j.op = "run" => j.plan \in PlanRows,
         l \in {"remove", "delete_row", "check", "again", "recheck", "corrupt",
                "preview", "extract", "probe", "aside", "install", "put_back"}
            => j.run \in RunIds,
         l \in {"probe", "aside", "install", "put_back"} => j.sites # <<>>
  PROVE  Moves(a, l, j)
<1>1. pc' \in [Requests -> Places] /\ job' \in [Requests -> Locals]
  BY DEF ActorInv
<1>2. pc'[a] = l /\ job'[a] = j /\ OthersStay(a)
  BY DEF ActorInv, OthersStay
<1>3. Bound(a)'
  BY <1>2 DEF Bound, Owns, Refers
<1>4. \A b \in Requests \ {a} : Bound(b)'
  BY <1>2 DEF OthersStay, ActorInv, Bound, Owns, Refers
<1> QED
  BY <1>1, <1>2, <1>3, <1>4 DEF Moves, ActorInv

\* A call that returns.
LEMMA ReturnMoves ==
  ASSUME ActorInv, NEW a \in Requests, Return(a)
  PROVE  Moves(a, "done", Blank)
<1>1. pc' = [pc EXCEPT ![a] = "done"] /\ job' = [job EXCEPT ![a] = Blank]
  BY DEF Return, Goto
<1> QED
  BY <1>1, BlankLocals, MoveInv DEF Places

\* A call that goes on with what it has.
LEMMA GotoMoves ==
  ASSUME ActorInv, NEW a \in Requests, NEW l \in Places, Goto(a, l), job' = job,
         l \in {"insert_plan", "cron", "save_plan", "delete_plan"} => job[a].plan \in PlanRows,
         l \in {"insert_run", "capture", "complete", "discard", "fail"} => Owns(a),
         l \in {"retention", "prune"} => job[a].op = "run",
         l \in {"remove", "delete_row", "check", "again", "recheck", "corrupt",
                "preview", "extract", "probe", "aside", "install", "put_back"} => Refers(a),
         l \in {"probe", "aside", "install", "put_back"} => job[a].sites # <<>>
  PROVE  Moves(a, l, job[a])
<1>1. job[a] \in Locals /\ job' = [job EXCEPT ![a] = job[a]] /\ Bound(a)
  BY DEF ActorInv
<1>2. pc' = [pc EXCEPT ![a] = l]
  BY DEF Goto
<1> QED
  BY <1>1, <1>2, MoveInv DEF Bound

\* A place gives what Bound says of it.
LEMMA AtPlace ==
  ASSUME ActorInv, NEW a \in Requests
  PROVE  pc[a] \in Places /\ job[a] \in Locals /\ Bound(a)
BY DEF ActorInv

\* create_plan begins with the plan it will store.
LEMMA CreateMoves ==
  ASSUME Inv, NEW a \in Requests, NEW c \in Copies, PlanCreateCron(a, c)
  PROVE  \E j \in Locals : /\ Moves(a, "insert_plan", j)
                           /\ j.plan = [enabled |-> TRUE, copies |-> c]
                           /\ j.op = "create" /\ j.doomed = {} /\ j.run = 0
<1> DEFINE p == [enabled |-> TRUE, copies |-> c]
           j == [Blank EXCEPT !.op = "create", !.plan = p]
<1>1. p \in PlanRows
  BY DEF PlanRows
<1>2. /\ j \in Locals /\ j.plan = p /\ j.op = "create" /\ j.run = 0 /\ j.doomed = {}
      /\ j.sites = <<>>
  BY <1>1, BlankLocals DEF Locals, Ops
<1>3. pc' = [pc EXCEPT ![a] = "insert_plan"] /\ job' = [job EXCEPT ![a] = j]
  BY DEF PlanCreateCron, Goto
<1> HIDE DEF j
<1>4. Moves(a, "insert_plan", j)
  BY <1>1, <1>2, <1>3, MoveInv DEF Inv, Places
<1> QED
  BY <1>2, <1>4

\* The other calls begin with a copy of the plan.
LEMMA PlanCallMoves ==
  ASSUME Inv, NEW a \in Requests, NEW op \in Ops, NEW c \in Copies, PlanCall(a, op, c)
  PROVE  \E j \in Locals : /\ Moves(a, IF op = "update" THEN "save_plan" ELSE "cron", j)
                           /\ j.plan \in PlanRows
                           /\ j.op # "run" /\ j.doomed = {} /\ j.run = 0
<1> DEFINE p == Changed(op, plan, c)
           j == [Blank EXCEPT !.op = op, !.plan = p]
           l == IF op = "update" THEN "save_plan" ELSE "cron"
<1>1. plan \in PlanRows /\ op \in {"update", "enable", "disable", "delete_plan"}
  BY DEF PlanCall, Stored, Inv, PlanTypes
<1>2. p \in PlanRows
  <2>1. CASE op = "update"
    BY <1>1, <2>1 DEF Changed, PlanRows
  <2>2. CASE op = "enable"
    BY <1>1, <2>2 DEF Changed, PlanRows
  <2>3. CASE op = "disable"
    BY <1>1, <2>3 DEF Changed, PlanRows
  <2>4. CASE op = "delete_plan"
    BY <1>1, <2>4 DEF Changed
  <2> QED
    BY <1>1, <2>1, <2>2, <2>3, <2>4
<1> HIDE DEF p
<1>3. /\ j \in Locals /\ j.plan = p /\ j.op = op /\ j.run = 0 /\ j.doomed = {}
      /\ j.sites = <<>>
  BY <1>2, BlankLocals DEF Locals
<1>4. pc' = [pc EXCEPT ![a] = l] /\ job' = [job EXCEPT ![a] = j]
  BY DEF PlanCall, Goto, p
<1> HIDE DEF j
<1>5. l \in Places /\ l \in {"save_plan", "cron"}
  BY DEF Places
<1>6. Moves(a, l, j)
  BY <1>1, <1>2, <1>3, <1>4, <1>5, MoveInv DEF Inv
<1> QED
  BY <1>1, <1>2, <1>3, <1>6

\* They return, or go on to the row once the cron job is changed.
LEMMA PlanStepMoves ==
  ASSUME Inv, NEW a \in Requests, PlanStep(a)
  PROVE  \/ Moves(a, "done", Blank)
         \/ /\ PlanCron(a) /\ cron # Gone /\ pc[a] = "cron" /\ job[a].plan \in PlanRows
            /\ Moves(a, IF job[a].op = "delete_plan" THEN "delete_plan" ELSE "save_plan", job[a])
<1>1. CASE PlanInsert(a) \/ PlanSave(a) \/ PlanDelete(a) \/ (PlanCron(a) /\ cron = Gone)
  BY <1>1, ReturnMoves DEF PlanInsert, PlanSave, PlanDelete, PlanCron, Inv
<1>2. CASE PlanCron(a) /\ cron # Gone
  <2> DEFINE l == IF job[a].op = "delete_plan" THEN "delete_plan" ELSE "save_plan"
  <2>1. pc[a] = "cron" /\ Goto(a, l) /\ job' = job
    BY <1>2 DEF PlanCron
  <2>2. job[a].plan \in PlanRows
    BY <2>1, AtPlace DEF Inv, Bound
  <2>3. l \in Places /\ l \in {"delete_plan", "save_plan"}
    BY DEF Places
  <2> HIDE DEF l
  <2>4. Moves(a, l, job[a])
    BY <2>1, <2>2, <2>3, GotoMoves DEF Inv
  <2> QED
    BY <1>2, <2>1, <2>2, <2>4 DEF l
<1> QED
  BY <1>1, <1>2 DEF PlanStep

\* run_plan begins with the next id and the plan as it is.
LEMMA RunStartMoves ==
  ASSUME Inv, NEW a \in Requests, RunStart(a)
  PROVE  \E j \in Locals : /\ Moves(a, "insert_run", j)
                           /\ j.op = "run" /\ j.run = issued + 1 /\ j.plan = plan
                           /\ j.sites = Resources /\ j.doomed = {}
                           /\ plan \in PlanRows /\ issued + 1 \in RunIds
<1> DEFINE r == issued + 1
           j == [Blank EXCEPT !.op = "run", !.run = r, !.plan = plan, !.sites = Resources]
<1>1. plan \in PlanRows
  BY DEF RunStart, Stored, Inv, PlanTypes
<1>2. r \in RunIds
  BY BackupAssumption DEF RunStart, Inv, RunTypes, RunIds
<1>3. pc' = [pc EXCEPT ![a] = "insert_run"] /\ job' = [job EXCEPT ![a] = j]
  BY DEF RunStart, Goto
<1> HIDE DEF r
<1>4. /\ j \in Locals /\ j.plan = plan /\ j.op = "run" /\ j.run = r /\ j.doomed = {}
      /\ j.sites = Resources
  BY <1>1, <1>2, BackupAssumption DEF Blank, Locals, Ops
<1> HIDE DEF j
<1>5. Moves(a, "insert_run", j)
  BY <1>1, <1>2, <1>3, <1>4, MoveInv DEF Inv, Places
<1> QED
  BY <1>1, <1>2, <1>4, <1>5 DEF r

\* The steps that keep the local variables of a run, and its failure.
LEMMA MakingMoves ==
  ASSUME Inv, NEW a \in Requests
  PROVE  /\ RunInsert(a) => Moves(a, "capture", job[a])
         /\ Finalize(a) => Moves(a, "complete", job[a])
         /\ RunComplete(a) => Moves(a, "retention", job[a])
         /\ Discard(a) => Moves(a, "fail", job[a])
         /\ RunFail(a) => Moves(a, "done", Blank)
<1>1. Bound(a)
  BY AtPlace DEF Inv
<1>2. ASSUME RunInsert(a) PROVE Moves(a, "capture", job[a])
  BY <1>1, <1>2, GotoMoves DEF RunInsert, Inv, Owns, Places
<1>3. ASSUME Finalize(a) PROVE Moves(a, "complete", job[a])
  BY <1>1, <1>3, GotoMoves DEF Finalize, Inv, Owns, Places
<1>4. ASSUME RunComplete(a) PROVE Moves(a, "retention", job[a])
  BY <1>1, <1>4, GotoMoves DEF RunComplete, Inv, Owns, Places, Bound
<1>5. ASSUME Discard(a) PROVE Moves(a, "fail", job[a])
  BY <1>1, <1>5, GotoMoves DEF Discard, Inv, Owns, Places
<1>6. ASSUME RunFail(a) PROVE Moves(a, "done", Blank)
  BY <1>6, ReturnMoves DEF RunFail, Inv
<1> QED
  BY <1>2, <1>3, <1>4, <1>5, <1>6

\* A resource is captured and taken off the list, or the capture is given up.
LEMMA CaptureMoves ==
  ASSUME Inv, NEW a \in Requests, Capture(a)
  PROVE  \/ /\ target[Head(job[a].sites)] = Missing /\ dirs' = dirs
            /\ Moves(a, "discard", job[a])
         \/ \E j \in Locals :
               /\ Moves(a, "capture", j)
               /\ target[Head(job[a].sites)] # Missing
               /\ dirs' = [dirs EXCEPT ![job[a].run].holds[Head(job[a].sites)]
                                          = target[Head(job[a].sites)]]
               /\ j.run = job[a].run /\ j.doomed = job[a].doomed /\ j.op = job[a].op
               /\ j.plan = job[a].plan /\ j.sites = Tail(job[a].sites)
<1>1. pc[a] = "capture" /\ job[a].sites # <<>> /\ Bound(a) /\ job[a] \in Locals
  BY AtPlace DEF Capture, Inv
<1>2. CASE target[Head(job[a].sites)] = Missing
  <2>1. Goto(a, "discard") /\ UNCHANGED <<dirs, job>>
    BY <1>2 DEF Capture
  <2> QED
    BY <1>1, <1>2, <2>1, GotoMoves DEF Owns, Places, Inv
<1>3. CASE target[Head(job[a].sites)] # Missing
  <2> DEFINE t == Tail(job[a].sites)
             j == [job[a] EXCEPT !.sites = t]
  <2>1. t \in Seq(Sites)
    BY <1>1 DEF Locals
  <2>2. job' = [job EXCEPT ![a] = j] /\ UNCHANGED pc
    BY <1>3 DEF Capture
  <2>3. dirs' = [dirs EXCEPT ![job[a].run].holds[Head(job[a].sites)]
                                          = target[Head(job[a].sites)]]
    BY <1>3 DEF Capture
  <2> HIDE DEF t
  <2>4. /\ j \in Locals /\ j.run = job[a].run /\ j.doomed = job[a].doomed /\ j.op = job[a].op
        /\ j.plan = job[a].plan /\ j.sites = t
    BY <1>1, <2>1 DEF Locals
  <2>5. pc' = [pc EXCEPT ![a] = "capture"]
    BY <1>1, <2>2 DEF Inv, ActorInv
  <2> HIDE DEF j
  <2>6. Moves(a, "capture", j)
    BY <1>1, <2>2, <2>4, <2>5, MoveInv DEF Inv, Bound, Owns, Places
  <2> QED
    BY <1>3, <2>3, <2>4, <2>6 DEF t
<1> QED
  BY <1>2, <1>3

\* apply_retention makes its list.
LEMMA RetentionMoves ==
  ASSUME Inv, NEW a \in Requests, Retention(a)
  PROVE  \E j \in Locals : /\ Moves(a, "prune", j)
                           /\ j.doomed = Deletions(job[a].plan.copies)
                           /\ j.op = "run" /\ j.plan = job[a].plan
<1>1. pc[a] = "retention" /\ Bound(a) /\ job[a] \in Locals
  BY AtPlace DEF Retention, Inv
<1> DEFINE d == Deletions(job[a].plan.copies)
           j == [job[a] EXCEPT !.doomed = d]
<1>2. d \in SUBSET RunIds
  BY DEF Deletions, Completed
<1>3. pc' = [pc EXCEPT ![a] = "prune"] /\ job' = [job EXCEPT ![a] = j]
  BY DEF Retention, Goto
<1> HIDE DEF d
<1>4. /\ j \in Locals /\ j.doomed = d /\ j.op = job[a].op /\ j.plan = job[a].plan
  BY <1>1, <1>2 DEF Locals
<1> HIDE DEF j
<1>5. job[a].op = "run" /\ job[a].plan \in PlanRows
  BY <1>1 DEF Bound
<1>6. Moves(a, "prune", j)
  BY <1>3, <1>4, <1>5, MoveInv DEF Inv, Places
<1> QED
  BY <1>4, <1>5, <1>6 DEF d

\* The next run of the list, or the end of it.
LEMMA PruneMoves ==
  ASSUME Inv, NEW a \in Requests, Prune(a)
  PROVE  \/ Moves(a, "done", Blank)
         \/ \E j \in Locals, r \in job[a].doomed :
               /\ Moves(a, "remove", j)
               /\ j.run = r /\ j.doomed = job[a].doomed \ {r} /\ r \in RunIds
               /\ j.op = "run" /\ j.plan = job[a].plan
<1>1. pc[a] = "prune" /\ Bound(a) /\ job[a] \in Locals
  BY AtPlace DEF Prune, Inv
<1>2. job[a].doomed \subseteq RunIds /\ job[a].op = "run" /\ job[a].plan \in PlanRows
  BY <1>1 DEF Bound, Locals
<1>3. CASE Return(a)
  BY <1>3, ReturnMoves DEF Inv
<1>4. ASSUME NEW r \in job[a].doomed,
             job' = [job EXCEPT ![a].run = r, ![a].doomed = @ \ {r}], Goto(a, "remove")
      PROVE  \E j \in Locals :
               /\ Moves(a, "remove", j)
               /\ j.run = r /\ j.doomed = job[a].doomed \ {r} /\ r \in RunIds
               /\ j.op = "run" /\ j.plan = job[a].plan
  <2> DEFINE d == job[a].doomed \ {r}
             j == [job[a] EXCEPT !.run = r, !.doomed = d]
  <2>1. d \in SUBSET RunIds /\ r \in RunIds
    BY <1>2
  <2>2. pc' = [pc EXCEPT ![a] = "remove"]
    BY <1>4 DEF Goto
  <2>3. job' = [job EXCEPT ![a] = j]
    BY <1>4, <1>1 DEF Inv, ActorInv, Locals
  <2> HIDE DEF d
  <2>4. /\ j \in Locals /\ j.run = r /\ j.doomed = d /\ j.op = "run" /\ j.plan = job[a].plan
    BY <1>1, <1>2, <2>1 DEF Locals
  <2> HIDE DEF j
  <2>5. Moves(a, "remove", j)
    BY <1>2, <2>1, <2>2, <2>3, <2>4, MoveInv DEF Inv, Places
  <2> QED
    BY <2>1, <2>4, <2>5 DEF d
<1>5. \/ Return(a)
      \/ \E r \in job[a].doomed :
            /\ job' = [job EXCEPT ![a].run = r, ![a].doomed = @ \ {r}]
            /\ Goto(a, "remove")
  BY DEF Prune
<1> QED
  BY <1>3, <1>4, <1>5

\* delete_run begins with a run.
LEMMA DeleteRunMoves ==
  ASSUME Inv, NEW a \in Requests, NEW r \in RunIds, DeleteRun(a, r)
  PROVE  \E j \in Locals : /\ Moves(a, "remove", j)
                           /\ j.run = r /\ j.doomed = {} /\ j.op = "delete_run"
<1> DEFINE j == [Blank EXCEPT !.op = "delete_run", !.run = r]
<1>1. j \in Locals /\ j.run = r /\ j.doomed = {} /\ j.op = "delete_run"
  BY BlankLocals DEF Locals, Ops
<1>2. pc' = [pc EXCEPT ![a] = "remove"] /\ job' = [job EXCEPT ![a] = j]
  BY DEF DeleteRun, Goto
<1> HIDE DEF j
<1>3. Moves(a, "remove", j)
  BY <1>1, <1>2, MoveInv DEF Inv, Places
<1> QED
  BY <1>1, <1>3

\* delete_run takes the files, then the row.
LEMMA RemovalMoves ==
  ASSUME Inv, NEW a \in Requests
  PROVE  /\ RemoveFiles(a) => Moves(a, "delete_row", job[a])
         /\ DeleteRow(a) => \/ Moves(a, "done", Blank)
                            \/ Moves(a, "prune", job[a])
<1>1. ASSUME RemoveFiles(a) PROVE Moves(a, "delete_row", job[a])
  BY <1>1, GotoMoves DEF RemoveFiles, Inv, Refers, Places
<1>2. ASSUME DeleteRow(a), job[a].op = "run" PROVE Moves(a, "prune", job[a])
  <2>1. Goto(a, "prune") /\ job' = job
    BY <1>2 DEF DeleteRow
  <2> QED
    BY <1>2, <2>1, GotoMoves DEF Inv, Places
<1>3. ASSUME DeleteRow(a), job[a].op # "run" PROVE Moves(a, "done", Blank)
  <2>1. Return(a)
    BY <1>3 DEF DeleteRow
  <2> QED
    BY <2>1, ReturnMoves DEF Inv
<1> QED
  BY <1>1, <1>2, <1>3

\* verify and restore begin with a completed run.
LEMMA VerifyMoves ==
  ASSUME Inv, NEW a \in Requests, NEW r \in RunIds, NEW op, NEW overwrite \in BOOLEAN,
         NEW sites \in Seq(Sites), VerifyCall(a, r, op, overwrite, sites)
  PROVE  \E j \in Locals : /\ Moves(a, "check", j)
                           /\ j.run = r /\ j.doomed = {} /\ j.op # "run"
<1> DEFINE j == [Blank EXCEPT !.op = op, !.run = r, !.overwrite = overwrite, !.sites = sites]
<1>1. op \in {"verify", "restore"}
  BY DEF VerifyCall
<1>2. j \in Locals /\ j.run = r /\ j.doomed = {} /\ j.op = op
  BY <1>1, BlankLocals DEF Locals, Ops
<1>3. pc' = [pc EXCEPT ![a] = "check"] /\ job' = [job EXCEPT ![a] = j]
  BY DEF VerifyCall, Goto
<1> HIDE DEF j
<1>4. Moves(a, "check", j)
  BY <1>1, <1>2, <1>3, MoveInv DEF Inv, Places
<1> QED
  BY <1>1, <1>2, <1>4

\* The steps of verify and restore work on the run they began with: they go to
\* another place of theirs or return.
LEMMA RestoreMoves ==
  ASSUME Inv, NEW a \in Requests, RestoreStep(a)
  PROVE  /\ Refers(a) /\ pc[a] \notin {"remove", "delete_row"}
         /\ \/ Moves(a, "done", Blank)
            \/ \E j \in Locals, l \in Places :
                  /\ Moves(a, l, j) /\ Refers(a)' /\ l \notin {"remove", "delete_row"}
                  /\ j.run = job[a].run /\ j.doomed = job[a].doomed /\ j.op = job[a].op
                  /\ j.plan = job[a].plan
<1> DEFINE Stays(j, l) ==
              /\ Moves(a, l, j) /\ Refers(a)' /\ l \notin {"remove", "delete_row"}
              /\ j.run = job[a].run /\ j.doomed = job[a].doomed /\ j.op = job[a].op
              /\ j.plan = job[a].plan
<1>0. ActorInv /\ job[a] \in Locals /\ Bound(a)
  BY AtPlace DEF Inv
<1>1. Refers(a) /\ pc[a] \notin {"remove", "delete_row"}
  BY DEF RestoreStep, VerifyAgain, VerifyFiles, MarkCorrupt, Preview, Extract, Probe, Aside,
         Install, PutBack, Restored, Refers
<1>2. CASE Return(a)
  BY <1>0, <1>1, <1>2, ReturnMoves
<1>3. ASSUME NEW l \in {"recheck", "again", "preview", "corrupt", "extract"},
             Goto(a, l), job' = job
      PROVE  Stays(job[a], l) /\ l \in Places
  <2>1. Moves(a, l, job[a])
    BY <1>0, <1>1, <1>3, GotoMoves DEF Places
  <2> QED
    BY <2>1 DEF Refers, Moves, Places
<1>4. ASSUME NEW l \in {"probe", "install", "aside", "put_back"},
             Goto(a, l), job' = job, job[a].sites # <<>>
      PROVE  Stays(job[a], l) /\ l \in Places
  <2>1. Moves(a, l, job[a])
    BY <1>0, <1>1, <1>4, GotoMoves DEF Places
  <2> QED
    BY <2>1 DEF Refers, Moves, Places
<1>5. ASSUME Install(a), ~NonEmpty(target[Head(job[a].sites)])
      PROVE  \E j \in Locals : Stays(j, "extract")
  <2> DEFINE t == Tail(job[a].sites)
             j == [job[a] EXCEPT !.sites = t]
  <2>1. job[a].sites # <<>>
    BY <1>0, <1>5 DEF Install, Bound
  <2>2. t \in Seq(Sites)
    BY <1>0, <2>1 DEF Locals
  <2>3. job' = [job EXCEPT ![a] = j] /\ pc' = [pc EXCEPT ![a] = "extract"]
    BY <1>5 DEF Install, Goto
  <2> HIDE DEF t
  <2>4. /\ j \in Locals /\ j.run = job[a].run /\ j.doomed = job[a].doomed /\ j.op = job[a].op
        /\ j.plan = job[a].plan
    BY <1>0, <2>2 DEF Locals
  <2> HIDE DEF j
  <2>5. job[a].run \in RunIds /\ (job[a].op = "run" => job[a].plan \in PlanRows)
    BY <1>0, <1>1 DEF Bound
  <2>6. Moves(a, "extract", j)
    BY <1>0, <2>3, <2>4, <2>5, MoveInv DEF Places
  <2> QED
    BY <2>4, <2>6 DEF Refers, Moves
<1>6. \/ Return(a)
      \/ \E l \in {"recheck", "again", "preview", "corrupt", "extract"} : Goto(a, l) /\ job' = job
      \/ /\ job[a].sites # <<>>
         /\ \E l \in {"probe", "install", "aside", "put_back"} : Goto(a, l) /\ job' = job
      \/ Install(a) /\ ~NonEmpty(target[Head(job[a].sites)])
  <2>1. CASE VerifyAgain(a) \/ VerifyFiles(a) \/ MarkCorrupt(a) \/ Preview(a) \/ PutBack(a)
             \/ Restored(a)
    BY <2>1 DEF VerifyAgain, VerifyFiles, MarkCorrupt, Preview, PutBack, Restored
  <2>2. CASE Extract(a)
    BY <2>2 DEF Extract
  <2>3. CASE Probe(a)
    <3>1. job[a].sites # <<>>
      BY <1>0, <2>3 DEF Probe, Bound
    <3>2. Goto(a, "install") \/ Goto(a, "aside")
      BY <2>3 DEF Probe
    <3> QED
      BY <2>3, <3>1, <3>2 DEF Probe
  <2>4. CASE Aside(a)
    <3>1. job[a].sites # <<>>
      BY <1>0, <2>4 DEF Aside, Bound
    <3> QED
      BY <2>4, <3>1 DEF Aside
  <2>5. CASE Install(a)
    <3>1. job[a].sites # <<>>
      BY <1>0, <2>5 DEF Install, Bound
    <3> QED
      BY <2>5, <3>1 DEF Install
  <2> QED
    BY <2>1, <2>2, <2>3, <2>4, <2>5 DEF RestoreStep
<1> HIDE DEF Stays
<1>7. \/ Moves(a, "done", Blank)
      \/ \E j \in Locals, l \in Places : Stays(j, l)
  BY <1>0, <1>2, <1>3, <1>4, <1>5, <1>6, ReturnMoves DEF Places
<1> QED
  BY <1>1, <1>7 DEF Stays

\* A failure that is handled, or not.
LEMMA FailureMoves ==
  ASSUME Inv, NEW a \in Requests
  PROVE  /\ HandledFailure(a) =>
               \/ pc[a] = "capture" /\ Moves(a, "discard", job[a])
               \/ pc[a] = "install" /\ Moves(a, "put_back", job[a])
         /\ CutShort(a) => Moves(a, "done", Blank)
<1>0. ActorInv /\ job[a] \in Locals /\ Bound(a)
  BY AtPlace DEF Inv
<1>1. ASSUME HandledFailure(a), pc[a] = "capture" PROVE Moves(a, "discard", job[a])
  BY <1>0, <1>1, GotoMoves DEF HandledFailure, Owns, Places
<1>2. ASSUME HandledFailure(a), pc[a] = "install" PROVE Moves(a, "put_back", job[a])
  BY <1>0, <1>2, GotoMoves DEF HandledFailure, Refers, Places, Bound
<1>3. ASSUME CutShort(a) PROVE Moves(a, "done", Blank)
  BY <1>0, <1>3, ReturnMoves DEF CutShort
<1> QED
  BY <1>1, <1>2, <1>3 DEF HandledFailure

-----------------------------------------------------------------------------
(* Types *)

\* Every step keeps the variables of the calls.
LEMMA ActorStep ==
  ASSUME Inv, [Next]_vars
  PROVE  ActorInv'
<1>1. CASE UNCHANGED <<pc, job>>
  BY <1>1 DEF Inv, ActorInv, Bound, Owns, Refers
<1>2. CASE UNCHANGED vars \/ (\E s \in Sites : Edit(s)) \/ (\E r \in RunIds : Rot(r))
  BY <1>1, <1>2 DEF vars, Edit, Rot
<1>3. ASSUME NEW a \in Requests, Call(a)
      PROVE  ActorInv'
  <2>1. <<>> \in Seq(Sites) /\ Resources \in Seq(Sites) /\ FALSE \in BOOLEAN
    BY BackupAssumption
  <2> QED
    BY <1>3, <2>1, CreateMoves, PlanCallMoves, RunStartMoves, DeleteRunMoves, VerifyMoves
       DEF Call, Moves
<1>4. ASSUME NEW a \in Requests, PlanStep(a)
      PROVE  ActorInv'
  BY <1>4, PlanStepMoves DEF Moves
<1>5. ASSUME NEW a \in Requests, RunStep(a)
      PROVE  ActorInv'
  BY <1>5, MakingMoves, CaptureMoves, RetentionMoves, PruneMoves, RemovalMoves DEF RunStep, Moves
<1>6. ASSUME NEW a \in Requests, RestoreStep(a)
      PROVE  ActorInv'
  BY <1>6, RestoreMoves DEF Moves
<1>7. ASSUME NEW a \in Requests, HandledFailure(a) \/ CutShort(a)
      PROVE  ActorInv'
  BY <1>7, FailureMoves DEF Moves
<1> QED
  BY <1>2, <1>3, <1>4, <1>5, <1>6, <1>7 DEF Next, Step

\* Only the calls on the plan change it, its schedule and the lowest count.
LEMMA PlanFrame ==
  ASSUME [Next]_vars
  PROVE  \/ UNCHANGED planVars
         \/ \E a \in Requests : PlanStep(a) \/ \E c \in Copies : PlanCreateCron(a, c)
<1>1. CASE UNCHANGED vars \/ (\E s \in Sites : Edit(s)) \/ (\E r \in RunIds : Rot(r))
  BY <1>1 DEF vars, Edit, Rot
<1>2. ASSUME NEW a \in Requests, Call(a), ~\E c \in Copies : PlanCreateCron(a, c)
      PROVE  UNCHANGED planVars
  BY <1>2 DEF Call, PlanCall, RunStart, DeleteRun, VerifyCall
<1>3. ASSUME NEW a \in Requests, RunStep(a)
      PROVE  UNCHANGED planVars
  BY <1>3 DEF RunStep, RunInsert, Capture, Finalize, RunComplete, Discard, RunFail, Retention,
              Prune, RemoveFiles, DeleteRow
<1>4. ASSUME NEW a \in Requests, RestoreStep(a)
      PROVE  UNCHANGED planVars
  BY <1>4 DEF RestoreStep, VerifyAgain, VerifyFiles, MarkCorrupt, Preview, Extract, Probe, Aside,
              Install, PutBack, Restored
<1>5. ASSUME NEW a \in Requests, HandledFailure(a) \/ CutShort(a)
      PROVE  UNCHANGED planVars
  BY <1>5 DEF HandledFailure, CutShort
<1> QED
  BY <1>1, <1>2, <1>3, <1>4, <1>5 DEF Next, Step

\* Rows, directories and counters of the runs change in these steps only.
LEMMA RunFrame ==
  ASSUME [Next]_vars
  PROVE  \/ UNCHANGED <<runVars, faultVars>>
         \/ \E a \in Requests :
               \/ RunStart(a) \/ RunInsert(a) \/ Capture(a) \/ Finalize(a) \/ RunComplete(a)
               \/ Discard(a) \/ RunFail(a) \/ RemoveFiles(a) \/ DeleteRow(a) \/ MarkCorrupt(a)
               \/ HandledFailure(a) \/ CutShort(a)
               \/ \E r \in RunIds : DeleteRun(a, r)
         \/ \E r \in RunIds : Rot(r)
<1>1. CASE UNCHANGED vars \/ (\E s \in Sites : Edit(s))
  BY <1>1 DEF vars, Edit
<1>2. ASSUME NEW a \in Requests, Call(a), ~RunStart(a), ~\E r \in RunIds : DeleteRun(a, r)
      PROVE  UNCHANGED <<runVars, faultVars>>
  BY <1>2 DEF Call, PlanCall, PlanCreateCron, VerifyCall
<1>3. ASSUME NEW a \in Requests, PlanStep(a) \/ Retention(a) \/ Prune(a)
      PROVE  UNCHANGED <<runVars, faultVars>>
  BY <1>3 DEF PlanStep, PlanInsert, PlanCron, PlanSave, PlanDelete, Retention, Prune
<1>4. ASSUME NEW a \in Requests, RestoreStep(a), ~MarkCorrupt(a)
      PROVE  UNCHANGED <<runVars, faultVars>>
  BY <1>4 DEF RestoreStep, VerifyAgain, VerifyFiles, Preview, Extract, Probe, Aside,
              Install, PutBack, Restored
<1> QED
  BY <1>1, <1>2, <1>3, <1>4 DEF Next, Step, RunStep

\* The document roots change in restores and by their owners.
LEMMA SiteFrame ==
  ASSUME [Next]_vars
  PROVE  \/ UNCHANGED siteVars
         \/ \E a \in Requests : Extract(a) \/ Aside(a) \/ Install(a) \/ PutBack(a) \/ Restored(a)
         \/ \E s \in Sites : Edit(s)
<1>1. CASE UNCHANGED vars \/ (\E r \in RunIds : Rot(r))
  BY <1>1 DEF vars, Rot
<1>2. ASSUME NEW a \in Requests, Call(a)
      PROVE  UNCHANGED siteVars
  BY <1>2 DEF Call, PlanCall, PlanCreateCron, VerifyCall, RunStart, DeleteRun
<1>3. ASSUME NEW a \in Requests, PlanStep(a)
      PROVE  UNCHANGED siteVars
  BY <1>3 DEF PlanStep, PlanInsert, PlanCron, PlanSave, PlanDelete
<1>4. ASSUME NEW a \in Requests, RunStep(a)
      PROVE  UNCHANGED siteVars
  BY <1>4 DEF RunStep, RunInsert, Capture, Finalize, RunComplete, Discard, RunFail, Retention,
              Prune, RemoveFiles, DeleteRow
<1>5. ASSUME NEW a \in Requests,
             \/ VerifyAgain(a) \/ VerifyFiles(a) \/ MarkCorrupt(a) \/ Preview(a) \/ Probe(a)
             \/ HandledFailure(a) \/ CutShort(a)
      PROVE  UNCHANGED siteVars
  BY <1>5 DEF VerifyAgain, VerifyFiles, MarkCorrupt, Preview, Probe, HandledFailure, CutShort
<1> QED
  BY <1>1, <1>2, <1>3, <1>4, <1>5 DEF Next, Step, RestoreStep

\* What a call on the plan does to it.
LEMMA PlanTypesStep ==
  ASSUME Inv, [Next]_vars
  PROVE  PlanTypes'
<1>1. CASE UNCHANGED planVars
  BY <1>1 DEF planVars, Inv, PlanTypes
<1>2. ASSUME NEW a \in Requests, NEW c \in Copies, PlanCreateCron(a, c)
      PROVE  PlanTypes'
  BY <1>2 DEF PlanCreateCron, Inv, PlanTypes
<1>3. ASSUME NEW a \in Requests, PlanStep(a)
      PROVE  PlanTypes'
  <2>1. Bound(a)
    BY AtPlace DEF Inv
  <2>2. CASE PlanInsert(a)
    BY <2>1, <2>2 DEF PlanInsert, Bound, Inv, PlanTypes, PlanRows
  <2>3. CASE PlanCron(a)
    <3>1. cron' \in {"on", "off", Gone, cron} /\ UNCHANGED <<plan, least>>
      BY <2>3 DEF PlanCron
    <3> QED
      BY <3>1 DEF Inv, PlanTypes
  <2>4. CASE PlanSave(a)
    <3>1. job[a].plan \in PlanRows
      BY <2>1, <2>4 DEF PlanSave, Bound
    <3>2. job[a].plan.copies \in Copies
      BY <3>1 DEF PlanRows
    <3>3. least' \in {least, job[a].plan.copies} /\ plan' \in {plan, job[a].plan} /\ cron' = cron
      BY <2>4 DEF PlanSave, SavePlan, Least
    <3> QED
      BY <3>1, <3>2, <3>3 DEF Inv, PlanTypes
  <2>5. CASE PlanDelete(a)
    BY <2>5 DEF PlanDelete, Inv, PlanTypes
  <2> QED
    BY <1>3, <2>2, <2>3, <2>4, <2>5 DEF PlanStep
<1> QED
  BY <1>1, <1>2, <1>3, PlanFrame

\* The run of a call that makes it or works on it.
LEMMA RunOf ==
  ASSUME Inv, NEW a \in Requests, Owns(a) \/ Refers(a)
  PROVE  job[a].run \in RunIds
BY AtPlace DEF Inv, Bound

\* The head of a list of sites is a site, and the rest is a list of sites.
LEMMA HeadSite ==
  ASSUME Inv, NEW a \in Requests, job[a].sites # <<>>
  PROVE  Head(job[a].sites) \in Sites /\ Tail(job[a].sites) \in Seq(Sites)
BY AtPlace DEF Inv, Locals

\* An archive, its place and its contents.
LEMMA ArchiveChanges ==
  ASSUME NEW d \in Archives
  PROVE  /\ d # NoDir
         /\ [d EXCEPT !.at = "runs"] \in Archives /\ [d EXCEPT !.intact = FALSE] \in Archives
         /\ [d EXCEPT !.at = "runs"].holds = d.holds /\ [d EXCEPT !.at = "runs"].at = "runs"
         /\ [d EXCEPT !.intact = FALSE].holds = d.holds /\ [d EXCEPT !.intact = FALSE].at = d.at
         /\ d.holds \in [Sites -> Contents \cup {Missing}]
         /\ \A h \in [Sites -> Contents \cup {Missing}] :
               /\ [d EXCEPT !.holds = h] \in Archives
               /\ [d EXCEPT !.holds = h].holds = h /\ [d EXCEPT !.holds = h].at = d.at
<1>1. d # NoDir
  BY BackupNulls
<1> QED
  BY <1>1 DEF Archives

\* The directory a run starts with holds nothing.
FreshDir == [at |-> "staging", intact |-> TRUE, holds |-> [s \in Sites |-> Missing]]

\* It is an archive.
LEMMA FreshArchive == FreshDir \in Archives /\ FreshDir # NoDir
<1>1. FreshDir \in Archives
  BY DEF FreshDir, Archives
<1> QED
  BY <1>1, BackupNulls

\* What a capture adds to the directory of its run.
LEMMA CaptureDir ==
  ASSUME Inv, NEW r \in RunIds, NEW s \in Sites, dirs[r] \in Archives,
         dirs' = [dirs EXCEPT ![r].holds[s] = target[s]]
  PROVE  /\ dirs' \in [RunIds -> Archives \cup {NoDir}]
         /\ \A x \in RunIds \ {r} : dirs'[x] = dirs[x]
         /\ dirs'[r] \in Archives
         /\ dirs'[r].at = dirs[r].at
         /\ dirs'[r].holds[s] = target[s]
         /\ \A x \in Sites \ {s} : dirs'[r].holds[x] = dirs[r].holds[x]
<1> DEFINE h == [dirs[r].holds EXCEPT ![s] = target[s]]
           d == [dirs[r] EXCEPT !.holds = h]
<1>1. dirs \in [RunIds -> Archives \cup {NoDir}] /\ target[s] \in Contents \cup {Missing}
  BY DEF Inv, RunTypes, SiteTypes
<1>2. dirs[r].holds \in [Sites -> Contents \cup {Missing}]
  BY ArchiveChanges
<1>3. /\ h \in [Sites -> Contents \cup {Missing}] /\ h[s] = target[s]
      /\ \A x \in Sites \ {s} : h[x] = dirs[r].holds[x]
  BY <1>1, <1>2
<1>4. dirs' = [dirs EXCEPT ![r] = d]
  OBVIOUS
<1> HIDE DEF h
<1>5. d \in Archives /\ d.holds = h /\ d.at = dirs[r].at
  BY ONLY <1>3, dirs[r] \in Archives, ArchiveChanges DEF d
<1> HIDE DEF d
<1>6. dirs'[r] = d /\ dirs' \in [RunIds -> Archives \cup {NoDir}]
      /\ \A x \in RunIds \ {r} : dirs'[x] = dirs[x]
  BY <1>1, <1>4, <1>5
<1> QED
  BY <1>3, <1>5, <1>6

-----------------------------------------------------------------------------
(* Runs have one owner *)

\* The runs a call has picked: its list, and the one it works on.
Chosen(a) == job[a].doomed \cup (IF Refers(a) THEN {job[a].run} ELSE {})

\* The directory of a run that may be offered for restoring.
Full(r) == Finalized(r) /\ \A i \in DOMAIN Resources : dirs[r].holds[Resources[i]] # Missing

\* The resource is still on the list.
ToCome(a, s) == \E k \in DOMAIN job[a].sites : job[a].sites[k] = s

\* What the maker of a run finds in its row and its directory.
Owned(a) ==
    /\ job[a].run <= issued
    /\ pc[a] = "insert_run" =>
          rows[job[a].run] = NoRow /\ dirs[job[a].run] = NoDir /\ job[a].sites = Resources
    /\ pc[a] # "insert_run" => rows[job[a].run] = "running"
    /\ pc[a] = "capture" =>
          /\ dirs[job[a].run] # NoDir
          /\ \A i \in DOMAIN Resources :
                dirs[job[a].run].holds[Resources[i]] # Missing \/ ToCome(a, Resources[i])
    /\ pc[a] = "complete" => Full(job[a].run)

\* A run has at most one maker, and nobody else works on it until it has ended.
RunsOwned ==
    /\ \A r \in RunIds : r > issued => rows[r] = NoRow /\ dirs[r] = NoDir
    /\ \A a \in Requests : Owns(a) => Owned(a)
    /\ \A a, b \in Requests : Owns(a) /\ Owns(b) /\ a # b => job[a].run # job[b].run
    /\ \A a, b \in Requests : Owns(a) => job[a].run \notin Chosen(b)
    /\ \A a \in Requests : \A r \in Chosen(a) : r \in RunIds /\ r <= issued

\* A run that has ended.
Ended(r) == rows[r] \in {"completed", "failed", "corrupt"}

\* The directory is the same but for damage.
SameDir(r) ==
    /\ dirs'[r] = NoDir <=> dirs[r] = NoDir
    /\ dirs[r] # NoDir => dirs'[r].at = dirs[r].at /\ dirs'[r].holds = dirs[r].holds

\* The maker of a run whose row and directory stay keeps what it has found.
LEMMA OwnedStays ==
  ASSUME NEW b \in Requests, Owned(b), pc'[b] = pc[b], job'[b] = job[b], issued <= issued',
         issued \in Nat, issued' \in Nat, job[b].run \in Nat,
         rows'[job[b].run] = rows[job[b].run], SameDir(job[b].run)
  PROVE  Owned(b)'
<1> DEFINE r == job[b].run
<1>1. r <= issued'
  BY DEF Owned
<1>2. /\ pc'[b] = "insert_run" =>
            rows'[r] = NoRow /\ dirs'[r] = NoDir /\ job'[b].sites = Resources
      /\ pc'[b] # "insert_run" => rows'[r] = "running"
  BY DEF Owned, SameDir
<1>3. pc'[b] = "capture" =>
         /\ dirs'[r] # NoDir
         /\ \A i \in DOMAIN Resources :
               dirs'[r].holds[Resources[i]] # Missing \/ ToCome(b, Resources[i])'
  BY DEF Owned, SameDir, ToCome
<1>4. pc'[b] = "complete" => Full(r)'
  BY DEF Owned, SameDir, Full, Finalized
<1> QED
  BY <1>1, <1>2, <1>3, <1>4 DEF Owned

\* A step of one call that changes at most the run it makes or has picked, and
\* picks runs that have ended, leaves every run its owner.
LEMMA OwnedFrame ==
  ASSUME Inv, RunsOwned, NEW a \in Requests, ActorInv', OthersStay(a), issued' = issued,
         \A r \in RunIds : \/ rows'[r] = rows[r] /\ SameDir(r)
                           \/ r = job[a].run /\ (Owns(a) \/ r \in Chosen(a)),
         Owns(a)' => Owns(a) /\ job'[a].run = job[a].run /\ Owned(a)',
         \A r \in Chosen(a)' : r \in Chosen(a) \/ (r \in RunIds /\ Ended(r))
  PROVE  RunsOwned'
<1>1. issued \in Nat /\ \A r \in RunIds : r \in Nat
  BY BackupAssumption DEF Inv, RunTypes, RunIds
<1>2. \A b \in Requests : Owns(b) => job[b].run \in RunIds
  BY RunOf
<1>3. \A r \in Chosen(a) : r \in RunIds /\ r <= issued
  BY DEF RunsOwned
<1>4. ASSUME NEW r \in RunIds, r > issued'
      PROVE  rows'[r] = NoRow /\ dirs'[r] = NoDir
  <2>1. rows[r] = NoRow /\ dirs[r] = NoDir
    BY <1>4 DEF RunsOwned
  <2>2. ~(r = job[a].run /\ (Owns(a) \/ r \in Chosen(a)))
    BY <1>1, <1>3, <1>4 DEF RunsOwned, Owned
  <2> QED
    BY <2>1, <2>2 DEF SameDir
<1>5. ASSUME NEW b \in Requests \ {a}, Owns(b)'
      PROVE  Owns(b) /\ job'[b].run = job[b].run /\ Owned(b)'
  <2>1. Owns(b) /\ job'[b] = job[b] /\ pc'[b] = pc[b]
    BY <1>5 DEF OthersStay, Owns
  <2>2. job[b].run \in RunIds /\ Owned(b)
    BY <1>2, <2>1 DEF RunsOwned
  <2>3. ~(job[b].run = job[a].run /\ (Owns(a) \/ job[b].run \in Chosen(a)))
    BY <2>1 DEF RunsOwned
  <2>4. rows'[job[b].run] = rows[job[b].run] /\ SameDir(job[b].run)
    BY <2>2, <2>3
  <2> QED
    BY <1>1, <2>1, <2>2, <2>4, OwnedStays
<1>6. \A b \in Requests : Owns(b)' => Owns(b) /\ job'[b].run = job[b].run /\ Owned(b)'
  BY <1>5
<1>7. \A b \in Requests \ {a} : Chosen(b)' = Chosen(b)
  BY DEF OthersStay, Chosen, Refers
<1>8. ASSUME NEW r \in RunIds, Ended(r)
      PROVE  r <= issued /\ \A b \in Requests : Owns(b) => job[b].run # r
  <2>1. rows[r] # NoRow /\ rows[r] # "running"
    BY <1>8, BackupNulls DEF Ended, States
  <2> QED
    BY <1>1, <2>1 DEF RunsOwned, Owned
<1>9. \A b, c \in Requests : Owns(b)' => job'[b].run \notin Chosen(c)'
  <2> SUFFICES ASSUME NEW b \in Requests, NEW c \in Requests, Owns(b)', job'[b].run \in Chosen(c)'
               PROVE  FALSE
    OBVIOUS
  <2>1. Owns(b) /\ job'[b].run = job[b].run
    BY <1>6
  <2>2. job[b].run \notin Chosen(c)
    BY <2>1 DEF RunsOwned
  <2> QED
    BY <1>7, <1>8, <2>1, <2>2
<1>10. \A b \in Requests : \A r \in Chosen(b)' : r \in RunIds /\ r <= issued'
  BY <1>3, <1>7, <1>8 DEF RunsOwned
<1>11. \A b, c \in Requests : Owns(b)' /\ Owns(c)' /\ b # c => job'[b].run # job'[c].run
  BY <1>6 DEF RunsOwned
<1> QED
  BY <1>4, <1>6, <1>9, <1>10, <1>11 DEF RunsOwned

-----------------------------------------------------------------------------
(* What each step does to the rows and the directories *)

\* Only the run of the call changes, and it stays within its types.
Touches(a) ==
    /\ job[a].run \in RunIds /\ issued' = issued
    /\ rows' \in [RunIds -> States \cup {NoRow}]
    /\ dirs' \in [RunIds -> Archives \cup {NoDir}]
    /\ \A r \in RunIds \ {job[a].run} : rows'[r] = rows[r] /\ dirs'[r] = dirs[r]
    /\ UNCHANGED <<cut, faults>>

\* An update of one row.
LEMMA RowUpdate ==
  ASSUME Inv, NEW r \in RunIds, NEW v \in States \cup {NoRow}, rows' = [rows EXCEPT ![r] = v]
  PROVE  /\ rows' \in [RunIds -> States \cup {NoRow}] /\ rows'[r] = v
         /\ \A x \in RunIds \ {r} : rows'[x] = rows[x]
BY DEF Inv, RunTypes

\* An update of one directory.
LEMMA DirUpdate ==
  ASSUME Inv, NEW r \in RunIds, NEW d \in Archives \cup {NoDir}, dirs' = [dirs EXCEPT ![r] = d]
  PROVE  /\ dirs' \in [RunIds -> Archives \cup {NoDir}] /\ dirs'[r] = d
         /\ \A x \in RunIds \ {r} : dirs'[x] = dirs[x]
BY DEF Inv, RunTypes

\* The tables as they are.
LEMMA TablesTyped ==
  ASSUME Inv
  PROVE  /\ rows \in [RunIds -> States \cup {NoRow}]
         /\ dirs \in [RunIds -> Archives \cup {NoDir}]
BY DEF Inv, RunTypes

\* The row of a new run and its staging directory.
LEMMA InsertEffect ==
  ASSUME Inv, NEW a \in Requests, RunInsert(a)
  PROVE  /\ Touches(a) /\ Owns(a) /\ UNCHANGED <<finished, dropped>>
         /\ rows'[job[a].run] = "running" /\ dirs'[job[a].run] = FreshDir
<1>1. Owns(a) /\ UNCHANGED <<issued, finished, dropped, cut, faults>>
  BY DEF RunInsert, Owns, faultVars
<1>2. job[a].run \in RunIds
  BY <1>1, RunOf
<1>3. /\ rows' = [rows EXCEPT ![job[a].run] = "running"]
      /\ dirs' = [dirs EXCEPT ![job[a].run] = FreshDir]
  BY DEF RunInsert, FreshDir
<1> QED
  BY <1>1, <1>2, <1>3, RowUpdate, DirUpdate, FreshArchive DEF Touches, States

\* One resource more in the staging directory.
LEMMA CaptureEffect ==
  ASSUME Inv, RunsOwned, NEW a \in Requests, Capture(a)
  PROVE  /\ Touches(a) /\ Owns(a) /\ UNCHANGED <<rows, finished, dropped>>
         /\ dirs[job[a].run] \in Archives
         /\ \/ dirs' = dirs
            \/ /\ dirs'[job[a].run] \in Archives
               /\ Head(job[a].sites) \in Sites
               /\ target[Head(job[a].sites)] # Missing
               /\ dirs'[job[a].run].at = dirs[job[a].run].at
               /\ dirs'[job[a].run].holds[Head(job[a].sites)] = target[Head(job[a].sites)]
               /\ \A x \in Sites \ {Head(job[a].sites)} :
                     dirs'[job[a].run].holds[x] = dirs[job[a].run].holds[x]
<1> DEFINE s == Head(job[a].sites)
           r == job[a].run
<1>1. Owns(a) /\ UNCHANGED <<rows, issued, finished, dropped, cut, faults>>
      /\ pc[a] = "capture" /\ job[a].sites # <<>>
  BY DEF Capture, Owns, faultVars
<1>2. r \in RunIds /\ s \in Sites
  BY <1>1, RunOf, HeadSite
<1>3. dirs[r] \in Archives
  BY <1>1, <1>2, TablesTyped DEF RunsOwned, Owned
<1>4. \/ dirs' = dirs
      \/ target[s] # Missing /\ dirs' = [dirs EXCEPT ![r].holds[s] = target[s]]
  BY DEF Capture
<1>5. CASE dirs' = dirs
  BY <1>1, <1>2, <1>3, <1>5, TablesTyped DEF Touches
<1>6. CASE target[s] # Missing /\ dirs' = [dirs EXCEPT ![r].holds[s] = target[s]]
  <2> HIDE DEF r, s
  <2>1. /\ dirs' \in [RunIds -> Archives \cup {NoDir}]
        /\ \A x \in RunIds \ {r} : dirs'[x] = dirs[x]
        /\ dirs'[r] \in Archives
        /\ dirs'[r].at = dirs[r].at
        /\ dirs'[r].holds[s] = target[s]
        /\ \A x \in Sites \ {s} : dirs'[r].holds[x] = dirs[r].holds[x]
    BY <1>2, <1>3, <1>6, CaptureDir
  <2>2. Touches(a)
    BY <1>1, <1>2, <2>1, TablesTyped DEF Touches, r
  <2> QED
    BY <1>1, <1>2, <1>3, <1>6, <2>1, <2>2 DEF r, s
<1> QED
  BY <1>4, <1>5, <1>6

\* The staging directory becomes the directory of the run.
LEMMA FinalizeEffect ==
  ASSUME Inv, RunsOwned, NEW a \in Requests, Finalize(a)
  PROVE  /\ Touches(a) /\ Owns(a) /\ UNCHANGED <<rows, finished, dropped>>
         /\ dirs[job[a].run] \in Archives /\ dirs'[job[a].run] \in Archives
         /\ dirs'[job[a].run].at = "runs"
         /\ dirs'[job[a].run].holds = dirs[job[a].run].holds
<1> DEFINE r == job[a].run
           d == [dirs[r] EXCEPT !.at = "runs"]
<1>1. Owns(a) /\ UNCHANGED <<rows, issued, finished, dropped, cut, faults>> /\ pc[a] = "capture"
  BY DEF Finalize, Owns, faultVars
<1>2. r \in RunIds
  BY <1>1, RunOf
<1>3. dirs[r] \in Archives
  BY <1>1, <1>2, TablesTyped DEF RunsOwned, Owned
<1>4. dirs' = [dirs EXCEPT ![r] = d]
  BY DEF Finalize
<1>5. d \in Archives /\ d.at = "runs" /\ d.holds = dirs[r].holds
  BY <1>3, ArchiveChanges
<1> HIDE DEF d
<1>6. /\ dirs' \in [RunIds -> Archives \cup {NoDir}] /\ dirs'[r] = d
      /\ \A x \in RunIds \ {r} : dirs'[x] = dirs[x]
  BY <1>2, <1>4, <1>5, DirUpdate
<1>7. Touches(a)
  BY <1>1, <1>2, <1>6, TablesTyped DEF Touches
<1> QED
  BY <1>1, <1>3, <1>5, <1>6, <1>7

\* The run is completed.
LEMMA CompleteEffect ==
  ASSUME Inv, NEW a \in Requests, RunComplete(a)
  PROVE  /\ Touches(a) /\ Owns(a) /\ pc[a] = "complete" /\ UNCHANGED <<dirs, dropped>>
         /\ rows'[job[a].run] = "completed" /\ finished' = finished + 1
<1>1. Owns(a) /\ UNCHANGED <<dirs, issued, dropped, cut, faults>> /\ pc[a] = "complete"
      /\ finished' = finished + 1
  BY DEF RunComplete, Owns, faultVars
<1>2. job[a].run \in RunIds
  BY <1>1, RunOf
<1>3. rows' = [rows EXCEPT ![job[a].run] = "completed"]
  BY DEF RunComplete
<1> QED
  BY <1>1, <1>2, <1>3, RowUpdate, TablesTyped DEF Touches, States

\* An error: the directory goes, then the row says so.
LEMMA FailureEffect ==
  ASSUME Inv, NEW a \in Requests, Discard(a) \/ RunFail(a)
  PROVE  /\ Touches(a) /\ Owns(a) /\ UNCHANGED <<finished, dropped>>
         /\ \/ rows' = rows /\ dirs'[job[a].run] = NoDir /\ Discard(a)
            \/ rows'[job[a].run] = "failed" /\ dirs' = dirs /\ RunFail(a)
<1>1. Owns(a) /\ UNCHANGED <<issued, finished, dropped, cut, faults>>
  BY DEF Discard, RunFail, Owns, faultVars
<1>2. job[a].run \in RunIds
  BY <1>1, RunOf
<1>3. CASE Discard(a)
  <2>1. dirs' = [dirs EXCEPT ![job[a].run] = NoDir] /\ rows' = rows
    BY <1>3 DEF Discard
  <2> QED
    BY <1>1, <1>2, <1>3, <2>1, DirUpdate, TablesTyped DEF Touches
<1>4. CASE RunFail(a)
  <2>1. rows' = [rows EXCEPT ![job[a].run] = "failed"] /\ dirs' = dirs
    BY <1>4 DEF RunFail
  <2> QED
    BY <1>1, <1>2, <1>4, <2>1, RowUpdate, TablesTyped DEF Touches, States
<1> QED
  BY <1>3, <1>4

\* The files of a run go if they are finalized.
LEMMA RemoveEffect ==
  ASSUME Inv, NEW a \in Requests, RemoveFiles(a)
  PROVE  /\ Touches(a) /\ Refers(a) /\ pc[a] = "remove" /\ UNCHANGED <<rows, finished, dropped>>
         /\ Finalized(job[a].run) => dirs'[job[a].run] = NoDir
         /\ ~Finalized(job[a].run) => dirs'[job[a].run] = dirs[job[a].run]
<1> DEFINE r == job[a].run
           d == IF Finalized(r) THEN NoDir ELSE dirs[r]
<1>1. Refers(a) /\ UNCHANGED <<rows, issued, finished, dropped, cut, faults>> /\ pc[a] = "remove"
  BY DEF RemoveFiles, Refers, faultVars
<1>2. r \in RunIds
  BY <1>1, RunOf
<1>3. dirs' = [dirs EXCEPT ![r] = d]
  BY DEF RemoveFiles
<1>4. d \in Archives \cup {NoDir}
  BY <1>2, TablesTyped
<1>5. /\ dirs' \in [RunIds -> Archives \cup {NoDir}] /\ dirs'[r] = d
      /\ \A x \in RunIds \ {r} : dirs'[x] = dirs[x]
  BY <1>2, <1>3, <1>4, DirUpdate
<1> QED
  BY <1>1, <1>2, <1>5, TablesTyped DEF Touches

\* Then its row goes.
LEMMA DeleteRowEffect ==
  ASSUME Inv, NEW a \in Requests, DeleteRow(a)
  PROVE  /\ Touches(a) /\ Refers(a) /\ pc[a] = "delete_row" /\ UNCHANGED <<dirs, finished, dropped>>
         /\ rows'[job[a].run] = NoRow
<1>1. Refers(a) /\ UNCHANGED <<dirs, issued, finished, dropped, cut, faults>>
      /\ pc[a] = "delete_row"
  BY DEF DeleteRow, Refers, faultVars
<1>2. job[a].run \in RunIds
  BY <1>1, RunOf
<1>3. rows' = [rows EXCEPT ![job[a].run] = NoRow]
  BY DEF DeleteRow
<1> QED
  BY <1>1, <1>2, <1>3, RowUpdate, TablesTyped DEF Touches

\* verify marks a run it finds damaged.
LEMMA CorruptEffect ==
  ASSUME Inv, NEW a \in Requests, MarkCorrupt(a)
  PROVE  /\ Touches(a) /\ Refers(a) /\ UNCHANGED <<dirs, finished>> /\ dropped' = TRUE
         /\ rows'[job[a].run] \in {"corrupt", NoRow}
<1> DEFINE r == job[a].run
           v == IF rows[r] = NoRow THEN rows[r] ELSE "corrupt"
<1>1. Refers(a) /\ UNCHANGED <<dirs, issued, finished, cut, faults>> /\ dropped' = TRUE
  BY DEF MarkCorrupt, Refers, faultVars
<1>2. r \in RunIds
  BY <1>1, RunOf
<1>3. rows' = [rows EXCEPT ![r] = v]
  BY DEF MarkCorrupt
<1>4. v \in {"corrupt", NoRow} /\ v \in States \cup {NoRow}
  BY DEF States
<1> HIDE DEF v
<1>5. /\ rows' \in [RunIds -> States \cup {NoRow}] /\ rows'[r] = v
      /\ \A x \in RunIds \ {r} : rows'[x] = rows[x]
  BY <1>2, <1>3, <1>4, RowUpdate
<1> QED
  BY <1>1, <1>2, <1>4, <1>5, TablesTyped DEF Touches

\* Damage on the disk leaves a directory where it is.
LEMMA RotEffect ==
  ASSUME Inv, NEW r \in RunIds, Rot(r)
  PROVE  /\ UNCHANGED <<rows, issued, finished, dropped, cut, pc, job>>
         /\ faults' \in 0 .. MaxFaults
         /\ dirs' \in [RunIds -> Archives \cup {NoDir}]
         /\ \A x \in RunIds : SameDir(x)
<1> DEFINE d == [dirs[r] EXCEPT !.intact = FALSE]
<1>1. UNCHANGED <<rows, issued, finished, dropped, cut, pc, job>> /\ dirs[r] # NoDir
      /\ faults < MaxFaults /\ faults' = faults + 1
  BY DEF Rot
<1>2. dirs[r] \in Archives
  BY <1>1, TablesTyped
<1>3. dirs' = [dirs EXCEPT ![r] = d]
  BY DEF Rot
<1>4. d \in Archives /\ d # NoDir /\ d.at = dirs[r].at /\ d.holds = dirs[r].holds
  BY <1>2, ArchiveChanges
<1> HIDE DEF d
<1>5. /\ dirs' \in [RunIds -> Archives \cup {NoDir}] /\ dirs'[r] = d
      /\ \A x \in RunIds \ {r} : dirs'[x] = dirs[x]
  BY <1>3, <1>4, DirUpdate
<1>6. faults' \in 0 .. MaxFaults
  BY <1>1, BackupAssumption DEF Inv, RunTypes
<1> QED
  BY <1>1, <1>4, <1>5, <1>6 DEF SameDir

\* Every step keeps the runs within their types.
LEMMA RunTypesStep ==
  ASSUME Inv, RunsOwned, [Next]_vars
  PROVE  RunTypes'
<1>0. /\ rows \in [RunIds -> States \cup {NoRow}] /\ dirs \in [RunIds -> Archives \cup {NoDir}]
      /\ issued \in 0 .. MaxRuns /\ finished \in Nat
      /\ cut \subseteq RunIds /\ dropped \in BOOLEAN /\ faults \in 0 .. MaxFaults
  BY DEF Inv, RunTypes
<1>1. CASE UNCHANGED <<runVars, faultVars>>
  BY <1>0, <1>1 DEF runVars, faultVars, RunTypes
<1>2. ASSUME NEW a \in Requests, RunStart(a)
      PROVE  RunTypes'
  <2>1. issued' \in 0 .. MaxRuns
    BY <1>0, <1>2, BackupAssumption DEF RunStart
  <2>2. UNCHANGED <<rows, dirs, finished, dropped, cut, faults>>
    BY <1>2 DEF RunStart, faultVars
  <2> QED
    BY <1>0, <2>1, <2>2 DEF RunTypes
<1>3. ASSUME NEW a \in Requests, Touches(a), finished' \in Nat, dropped' \in BOOLEAN
      PROVE  RunTypes'
  BY <1>0, <1>3 DEF Touches, RunTypes
<1>4. ASSUME NEW a \in Requests,
             \/ RunInsert(a) \/ Capture(a) \/ Finalize(a) \/ RunComplete(a) \/ Discard(a)
             \/ RunFail(a) \/ RemoveFiles(a) \/ DeleteRow(a) \/ MarkCorrupt(a)
      PROVE  RunTypes'
  <2>1. Touches(a)
    BY <1>4, InsertEffect, CaptureEffect, FinalizeEffect, CompleteEffect, FailureEffect,
       RemoveEffect, DeleteRowEffect, CorruptEffect
  <2>2. finished' \in {finished, finished + 1} /\ (dropped' = dropped \/ dropped' = TRUE)
    BY <1>4, InsertEffect, CaptureEffect, FinalizeEffect, CompleteEffect, FailureEffect,
       RemoveEffect, DeleteRowEffect, CorruptEffect
  <2>3. finished' \in Nat
    BY <1>0, <2>2
  <2>4. dropped' \in BOOLEAN
    BY <1>0, <2>2, Zenon
  <2> QED
    BY <1>3, <2>1, <2>3, <2>4
<1>5. ASSUME NEW a \in Requests, HandledFailure(a) \/ CutShort(a)
      PROVE  RunTypes'
  <2>1. /\ UNCHANGED <<rows, dirs, issued, finished, dropped>>
        /\ faults < MaxFaults /\ faults' = faults + 1
        /\ cut' = cut \/ (job[a].run # 0 /\ cut' = cut \cup {job[a].run})
    BY <1>5 DEF HandledFailure, CutShort, runVars
  <2>2. job[a].run \in RunIds \cup {0}
    BY AtPlace DEF Inv, Locals
  <2>3. faults' \in 0 .. MaxFaults
    BY <1>0, <2>1, BackupAssumption
  <2> QED
    BY <1>0, <2>1, <2>2, <2>3 DEF RunTypes
<1>6. ASSUME NEW a \in Requests, NEW r \in RunIds, DeleteRun(a, r)
      PROVE  RunTypes'
  <2>1. UNCHANGED <<rows, dirs, issued, finished, cut, faults>> /\ dropped' = TRUE
    BY <1>6 DEF DeleteRun, faultVars
  <2> QED
    BY <1>0, <2>1 DEF RunTypes
<1>7. ASSUME NEW r \in RunIds, Rot(r)
      PROVE  RunTypes'
  BY <1>0, <1>7, RotEffect DEF RunTypes
<1> QED
  BY <1>1, <1>2, <1>4, <1>5, <1>6, <1>7, RunFrame

\* A step of one call that leaves the tables alone.
LEMMA QuietOwned ==
  ASSUME Inv, RunsOwned, NEW a \in Requests, NEW l, NEW j, Moves(a, l, j),
         UNCHANGED <<rows, dirs, issued>>,
         Owns(a)' => Owns(a) /\ j.run = job[a].run /\ Owned(a)',
         \A r \in Chosen(a)' : r \in Chosen(a) \/ (r \in RunIds /\ Ended(r))
  PROVE  RunsOwned'
<1>1. \A r \in RunIds : rows'[r] = rows[r] /\ SameDir(r)
  BY DEF SameDir
<1>2. ActorInv' /\ OthersStay(a) /\ job'[a] = j
  BY DEF Moves
<1> QED
  BY <1>1, <1>2, OwnedFrame

\* A call that returns lets go of its run.
LEMMA ReturnOwned ==
  ASSUME NEW a \in Requests, Moves(a, "done", Blank)
  PROVE  ~Owns(a)' /\ Chosen(a)' = {}
BY BlankLocals DEF Moves, Owns, Chosen, Refers

\* The calls.
LEMMA CallOwned ==
  ASSUME Inv, RunsOwned, NEW a \in Requests, Call(a)
  PROVE  RunsOwned'
<1>1. ASSUME NEW c \in Copies, PlanCreateCron(a, c)
      PROVE  RunsOwned'
  <2>1. PICK j \in Locals : Moves(a, "insert_plan", j) /\ j.doomed = {}
    BY <1>1, CreateMoves
  <2>2. ~Owns(a)' /\ Chosen(a)' = {}
    BY <2>1 DEF Moves, Owns, Chosen, Refers
  <2>3. UNCHANGED <<rows, dirs, issued>>
    BY <1>1 DEF PlanCreateCron, runVars
  <2> QED
    BY <2>1, <2>2, <2>3, QuietOwned
<1>2. ASSUME NEW c \in Copies, NEW op \in Ops, PlanCall(a, op, c)
      PROVE  RunsOwned'
  <2> DEFINE l == IF op = "update" THEN "save_plan" ELSE "cron"
  <2>1. PICK j \in Locals : Moves(a, l, j) /\ j.doomed = {}
    BY <1>2, PlanCallMoves
  <2>2. ~Owns(a)' /\ Chosen(a)' = {}
    BY <2>1 DEF Moves, Owns, Chosen, Refers
  <2>3. UNCHANGED <<rows, dirs, issued>>
    BY <1>2 DEF PlanCall, runVars
  <2> QED
    BY <2>1, <2>2, <2>3, QuietOwned
<1>3. ASSUME NEW r \in RunIds, DeleteRun(a, r)
      PROVE  RunsOwned'
  <2>1. PICK j \in Locals : Moves(a, "remove", j) /\ j.doomed = {} /\ j.run = r
    BY <1>3, DeleteRunMoves
  <2>2. ~Owns(a)' /\ Chosen(a)' = {r}
    BY <2>1 DEF Moves, Owns, Chosen, Refers
  <2>3. UNCHANGED <<rows, dirs, issued>> /\ Ended(r)
    BY <1>3 DEF DeleteRun, Ended, States
  <2> QED
    BY <2>1, <2>2, <2>3, QuietOwned
<1>4. ASSUME NEW r \in RunIds, NEW op, NEW overwrite \in BOOLEAN, NEW sites \in Seq(Sites),
             VerifyCall(a, r, op, overwrite, sites)
      PROVE  RunsOwned'
  <2>1. PICK j \in Locals : Moves(a, "check", j) /\ j.doomed = {} /\ j.run = r
    BY <1>4, VerifyMoves
  <2>2. ~Owns(a)' /\ Chosen(a)' = {r}
    BY <2>1 DEF Moves, Owns, Chosen, Refers
  <2>3. UNCHANGED <<rows, dirs, issued>> /\ Ended(r)
    BY <1>4 DEF VerifyCall, Ended, runVars
  <2> QED
    BY <2>1, <2>2, <2>3, QuietOwned
<1>5. CASE RunStart(a)
  <2>1. PICK j \in Locals : /\ Moves(a, "insert_run", j) /\ j.run = issued + 1 /\ j.doomed = {}
                            /\ issued + 1 \in RunIds /\ j.sites = Resources
    BY <1>5, RunStartMoves
  <2>2. UNCHANGED <<rows, dirs>> /\ issued' = issued + 1
    BY <1>5 DEF RunStart
  <2>3. /\ Owns(a)' /\ Chosen(a)' = {} /\ job'[a].run = issued + 1 /\ pc'[a] = "insert_run"
        /\ job'[a].sites = Resources /\ OthersStay(a)
    BY <2>1 DEF Moves, Owns, Chosen, Refers
  <2>4. issued \in Nat /\ issued' \in Nat /\ \A r \in RunIds : r \in Nat
    BY <2>2, BackupAssumption DEF Inv, RunTypes, RunIds
  <2>5. \A r \in RunIds : r > issued' => rows'[r] = NoRow /\ dirs'[r] = NoDir
    BY <2>2, <2>4 DEF RunsOwned
  <2>6. Owned(a)'
    <3>1. rows[issued + 1] = NoRow /\ dirs[issued + 1] = NoDir
      BY <2>1, <2>4 DEF RunsOwned
    <3> QED
      BY <2>2, <2>3, <2>4, <3>1 DEF Owned
  <2>7. ASSUME NEW b \in Requests \ {a}, Owns(b)'
        PROVE  Owns(b) /\ job'[b].run = job[b].run /\ job[b].run <= issued /\ Owned(b)'
    <3>1. Owns(b) /\ job'[b] = job[b] /\ pc'[b] = pc[b]
      BY <2>3, <2>7 DEF OthersStay, Owns
    <3>2. Owned(b) /\ job[b].run \in RunIds
      BY <3>1, RunOf DEF RunsOwned
    <3>3. rows'[job[b].run] = rows[job[b].run] /\ SameDir(job[b].run)
      BY <2>2 DEF SameDir
    <3>4. Owned(b)'
      BY <2>2, <2>4, <3>1, <3>2, <3>3, OwnedStays
    <3> QED
      BY <3>1, <3>2, <3>4 DEF Owned
  <2>8. \A b \in Requests \ {a} : Chosen(b)' = Chosen(b)
    BY <2>3 DEF OthersStay, Chosen, Refers
  <2>9. \A b, c \in Requests : Owns(b)' /\ Owns(c)' /\ b # c => job'[b].run # job'[c].run
    BY <2>3, <2>4, <2>7 DEF RunsOwned
  <2>10. \A b, c \in Requests : Owns(b)' => job'[b].run \notin Chosen(c)'
    BY <2>3, <2>4, <2>7, <2>8 DEF RunsOwned
  <2>11. \A b \in Requests : \A r \in Chosen(b)' : r \in RunIds /\ r <= issued'
    BY <2>2, <2>3, <2>4, <2>8 DEF RunsOwned
  <2> QED
    BY <2>5, <2>6, <2>7, <2>9, <2>10, <2>11 DEF RunsOwned
<1>6. <<>> \in Seq(Sites) /\ Resources \in Seq(Sites) /\ FALSE \in BOOLEAN
  BY BackupAssumption
<1> QED
  BY <1>1, <1>2, <1>3, <1>4, <1>5, <1>6 DEF Call

\* A step of the maker of a run, or of one who deletes or marks a run.
LEMMA TouchOwned ==
  ASSUME Inv, RunsOwned, NEW a \in Requests, NEW l, NEW j, Moves(a, l, j),
         Touches(a), Owns(a) \/ Refers(a),
         Owns(a)' => Owns(a) /\ j.run = job[a].run /\ Owned(a)',
         \A r \in Chosen(a)' : r \in Chosen(a)
  PROVE  RunsOwned'
<1>1. \A r \in RunIds : \/ rows'[r] = rows[r] /\ SameDir(r)
                        \/ r = job[a].run /\ (Owns(a) \/ r \in Chosen(a))
  BY DEF Touches, SameDir, Chosen
<1>2. ActorInv' /\ OthersStay(a) /\ job'[a] = j /\ issued' = issued
  BY DEF Moves, Touches
<1> QED
  BY <1>1, <1>2, OwnedFrame

\* The making of a run keeps it to its maker.
LEMMA MakingOwned ==
  ASSUME Inv, RunsOwned, NEW a \in Requests,
         RunInsert(a) \/ Capture(a) \/ Finalize(a) \/ RunComplete(a) \/ Discard(a) \/ RunFail(a)
  PROVE  RunsOwned'
<1> DEFINE r == job[a].run
<1>0. job[a] \in Locals /\ Bound(a) /\ DOMAIN Resources = 1 .. Len(Resources)
      /\ \A i \in DOMAIN Resources : Resources[i] \in Sites
  BY AtPlace, BackupAssumption DEF Inv
<1>1. CASE RunInsert(a)
  <2>1. /\ Moves(a, "capture", job[a]) /\ Touches(a) /\ Owns(a) /\ pc[a] = "insert_run"
        /\ rows'[r] = "running" /\ dirs'[r] = FreshDir
    BY <1>1, MakingMoves, InsertEffect DEF RunInsert
  <2>2. Chosen(a)' = {} /\ pc'[a] = "capture" /\ job'[a] = job[a]
    BY <1>0, <2>1 DEF Moves, Chosen, Refers, Bound
  <2>3. r <= issued'
    BY <2>1 DEF RunsOwned, Owned, Touches
  <2>4. \A i \in DOMAIN Resources : ToCome(a, Resources[i])'
    <3>1. job[a].sites = Resources
      BY <2>1 DEF RunsOwned, Owned
    <3> QED
      BY <2>2, <3>1 DEF ToCome
  <2>5. Owned(a)'
    BY <2>1, <2>2, <2>3, <2>4, FreshArchive DEF Owned
  <2> QED
    BY <2>1, <2>2, <2>5, TouchOwned
<1>2. CASE Capture(a)
  <2>1. /\ Touches(a) /\ Owns(a) /\ rows' = rows /\ dirs[r] \in Archives /\ pc[a] = "capture"
        /\ job[a].sites # <<>>
    BY <1>2, CaptureEffect DEF Capture
  <2>2. Owned(a) /\ r \in RunIds
    BY <2>1 DEF RunsOwned, Touches
  <2>3. CASE /\ target[Head(job[a].sites)] = Missing /\ dirs' = dirs
             /\ Moves(a, "discard", job[a])
    <3>1. Chosen(a)' = {} /\ pc'[a] = "discard" /\ job'[a] = job[a]
      BY <1>0, <2>1, <2>3 DEF Moves, Chosen, Refers, Bound
    <3>2. Owned(a)'
      BY <2>1, <2>2, <3>1 DEF Owned, Touches
    <3> QED
      BY <2>1, <2>3, <3>1, <3>2, TouchOwned
  <2>4. ASSUME NEW j \in Locals, Moves(a, "capture", j), target[Head(job[a].sites)] # Missing,
               dirs' = [dirs EXCEPT ![job[a].run].holds[Head(job[a].sites)]
                                       = target[Head(job[a].sites)]],
               j.run = job[a].run, j.doomed = job[a].doomed, j.sites = Tail(job[a].sites)
        PROVE  RunsOwned'
    <3> DEFINE s == Head(job[a].sites)
    <3>1. Chosen(a)' = {} /\ pc'[a] = "capture" /\ job'[a] = j
      BY <1>0, <2>1, <2>4 DEF Moves, Chosen, Refers, Bound
    <3>2. s \in Sites
      BY <2>1, HeadSite
    <3>3. /\ dirs'[r] \in Archives /\ dirs'[r].holds[s] = target[s]
          /\ \A x \in Sites \ {s} : dirs'[r].holds[x] = dirs[r].holds[x]
      <4>1. dirs' = [dirs EXCEPT ![r].holds[s] = target[s]]
        BY <2>4
      <4>2. dirs[r] \in Archives /\ r \in RunIds /\ s \in Sites
        BY <2>1, <2>2, <3>2
      <4> HIDE DEF r, s
      <4> QED
        BY ONLY Inv, <4>1, <4>2, CaptureDir
    <3>4. ASSUME NEW x \in Sites, ToCome(a, x), x # s
          PROVE  ToCome(a, x)'
      <4> DEFINE q == job[a].sites
      <4>1. PICK k \in DOMAIN q : q[k] = x
        BY <3>4 DEF ToCome
      <4>2. q \in Seq(Sites) /\ q # <<>>
        BY <1>0, <2>1 DEF Locals
      <4>3. k # 1
        BY <3>4, <4>1, <4>2
      <4>4. k - 1 \in DOMAIN Tail(q) /\ Tail(q)[k - 1] = q[k]
        BY <4>1, <4>2, <4>3
      <4> QED
        BY <2>4, <3>1, <4>1, <4>4 DEF ToCome
    <3>5. \A i \in DOMAIN Resources :
             dirs'[r].holds[Resources[i]] # Missing \/ ToCome(a, Resources[i])'
      <4> SUFFICES ASSUME NEW i \in DOMAIN Resources
                   PROVE  dirs'[r].holds[Resources[i]] # Missing \/ ToCome(a, Resources[i])'
        OBVIOUS
      <4>1. Resources[i] \in Sites
        BY <1>0
      <4>2. dirs[r].holds[Resources[i]] # Missing \/ ToCome(a, Resources[i])
        BY <2>1, <2>2 DEF Owned
      <4> QED
        BY <2>4, <3>3, <3>4, <4>1, <4>2
    <3>6. Owned(a)'
      <4>1. dirs'[r] # NoDir
        BY <3>3, BackupNulls
      <4> QED
        BY <2>1, <2>2, <2>4, <3>1, <3>5, <4>1 DEF Owned, Touches
    <3> QED
      BY <2>1, <2>4, <3>1, <3>6, TouchOwned
  <2> QED
    BY <1>2, <2>3, <2>4, CaptureMoves
<1>3. CASE Finalize(a)
  <2>1. /\ Touches(a) /\ Owns(a) /\ rows' = rows /\ dirs'[r] \in Archives /\ pc[a] = "capture"
        /\ dirs'[r].at = "runs" /\ dirs'[r].holds = dirs[r].holds /\ job[a].sites = <<>>
        /\ Moves(a, "complete", job[a])
    BY <1>3, FinalizeEffect, MakingMoves DEF Finalize
  <2>2. Owned(a)
    BY <2>1 DEF RunsOwned
  <2>3. Chosen(a)' = {} /\ pc'[a] = "complete" /\ job'[a] = job[a]
    BY <1>0, <2>1 DEF Moves, Chosen, Refers, Bound
  <2>4. \A s : ~ToCome(a, s)
    <3>1. DOMAIN job[a].sites = {}
      BY <2>1
    <3> QED
      BY <3>1 DEF ToCome
  <2>5. Full(r)'
    BY <2>1, <2>2, <2>3, <2>4, BackupNulls DEF Full, Finalized, Owned
  <2>6. Owned(a)'
    BY <2>1, <2>2, <2>3, <2>5 DEF Owned, Touches
  <2> QED
    BY <2>1, <2>3, <2>6, TouchOwned
<1>4. CASE RunComplete(a)
  <2>1. Touches(a) /\ Owns(a) /\ Moves(a, "retention", job[a])
    BY <1>4, CompleteEffect, MakingMoves
  <2>2. Chosen(a)' = {} /\ ~Owns(a)'
    BY <1>0, <2>1 DEF Moves, Chosen, Refers, Bound, Owns
  <2> QED
    BY <2>1, <2>2, TouchOwned
<1>5. CASE Discard(a)
  <2>1. /\ Touches(a) /\ Owns(a) /\ Moves(a, "fail", job[a]) /\ rows' = rows
        /\ pc[a] = "discard"
    BY <1>5, FailureEffect, MakingMoves DEF Discard
  <2>2. Chosen(a)' = {} /\ pc'[a] = "fail" /\ job'[a] = job[a]
    BY <1>0, <2>1 DEF Moves, Chosen, Refers, Bound
  <2>3. Owned(a)'
    BY <2>1, <2>2 DEF RunsOwned, Owned, Touches
  <2> QED
    BY <2>1, <2>2, <2>3, TouchOwned
<1>6. CASE RunFail(a)
  <2>1. Touches(a) /\ Owns(a) /\ Moves(a, "done", Blank)
    BY <1>6, FailureEffect, MakingMoves
  <2> QED
    BY <2>1, ReturnOwned, TouchOwned
<1> QED
  BY <1>1, <1>2, <1>3, <1>4, <1>5, <1>6

\* Every step leaves a run to its maker.
LEMMA OwnedStep ==
  ASSUME Inv, RunsOwned, [Next]_vars
  PROVE  RunsOwned'
<1>1. CASE UNCHANGED vars \/ \E s \in Sites : Edit(s)
  <2>1. UNCHANGED <<rows, dirs, issued, pc, job>>
    BY <1>1 DEF vars, runVars, Edit
  <2> QED
    BY <2>1 DEF RunsOwned, Owns, Owned, Chosen, Refers, ToCome, Full, Finalized
<1>2. ASSUME NEW a \in Requests, PlanStep(a)
      PROVE  RunsOwned'
  <2>1. UNCHANGED <<rows, dirs, issued>>
    BY <1>2 DEF PlanStep, PlanInsert, PlanCron, PlanSave, PlanDelete, runVars
  <2>2. CASE Moves(a, "done", Blank)
    BY <2>1, <2>2, ReturnOwned, QuietOwned
  <2>3. CASE /\ pc[a] = "cron"
             /\ Moves(a, IF job[a].op = "delete_plan" THEN "delete_plan" ELSE "save_plan", job[a])
    <3>1. ~Owns(a)' /\ \A r \in Chosen(a)' : r \in Chosen(a)
      BY <2>3 DEF Moves, Owns, Chosen, Refers
    <3> QED
      BY <2>1, <2>3, <3>1, QuietOwned
  <2> QED
    BY <1>2, <2>2, <2>3, PlanStepMoves
<1>3. ASSUME NEW a \in Requests, Retention(a)
      PROVE  RunsOwned'
  <2>1. PICK j \in Locals : Moves(a, "prune", j) /\ j.doomed = Deletions(job[a].plan.copies)
    BY <1>3, RetentionMoves
  <2>2. ~Owns(a)' /\ Chosen(a)' = Deletions(job[a].plan.copies)
    BY <2>1 DEF Moves, Owns, Chosen, Refers
  <2>3. \A r \in Chosen(a)' : r \in RunIds /\ Ended(r)
    BY <2>2 DEF Deletions, Completed, Ended
  <2>4. UNCHANGED <<rows, dirs, issued>>
    BY <1>3 DEF Retention, runVars
  <2> QED
    BY <2>1, <2>2, <2>3, <2>4, QuietOwned
<1>4. ASSUME NEW a \in Requests, Prune(a)
      PROVE  RunsOwned'
  <2>1. UNCHANGED <<rows, dirs, issued>>
    BY <1>4 DEF Prune, runVars
  <2>2. CASE Moves(a, "done", Blank)
    BY <2>1, <2>2, ReturnOwned, QuietOwned
  <2>3. ASSUME NEW j \in Locals, NEW r \in job[a].doomed, Moves(a, "remove", j),
               j.run = r, j.doomed = job[a].doomed \ {r}
        PROVE  RunsOwned'
    <3>1. ~Owns(a)' /\ \A x \in Chosen(a)' : x \in Chosen(a)
      BY <2>3 DEF Moves, Owns, Chosen, Refers
    <3> QED
      BY <2>1, <2>3, <3>1, QuietOwned
  <2> QED
    BY <1>4, <2>2, <2>3, PruneMoves
<1>5. ASSUME NEW a \in Requests, RemoveFiles(a)
      PROVE  RunsOwned'
  <2>1. Moves(a, "delete_row", job[a]) /\ Touches(a) /\ Refers(a)
    BY <1>5, RemovalMoves, RemoveEffect
  <2>2. ~Owns(a)' /\ \A r \in Chosen(a)' : r \in Chosen(a)
    BY <2>1 DEF Moves, Owns, Chosen, Refers
  <2> QED
    BY <2>1, <2>2, TouchOwned
<1>6. ASSUME NEW a \in Requests, DeleteRow(a)
      PROVE  RunsOwned'
  <2>1. Touches(a) /\ Refers(a)
    BY <1>6, DeleteRowEffect
  <2>2. CASE Moves(a, "done", Blank)
    BY <2>1, <2>2, ReturnOwned, TouchOwned
  <2>3. CASE Moves(a, "prune", job[a])
    <3>1. ~Owns(a)' /\ \A r \in Chosen(a)' : r \in Chosen(a)
      BY <2>3 DEF Moves, Owns, Chosen, Refers
    <3> QED
      BY <2>1, <2>3, <3>1, TouchOwned
  <2> QED
    BY <1>6, <2>2, <2>3, RemovalMoves
<1>7. ASSUME NEW a \in Requests, RestoreStep(a), ~MarkCorrupt(a)
      PROVE  RunsOwned'
  <2>1. UNCHANGED <<rows, dirs, issued>> /\ Refers(a)
    BY <1>7, RestoreMoves
       DEF RestoreStep, VerifyAgain, VerifyFiles, Preview, Extract, Probe, Aside,
           Install, PutBack, Restored, runVars
  <2>2. CASE Moves(a, "done", Blank)
    BY <2>1, <2>2, ReturnOwned, QuietOwned
  <2>3. ASSUME NEW j \in Locals, NEW l \in Places, Moves(a, l, j), Refers(a)',
               j.run = job[a].run, j.doomed = job[a].doomed
        PROVE  RunsOwned'
    <3>1. ~Owns(a)' /\ \A r \in Chosen(a)' : r \in Chosen(a)
      BY <2>1, <2>3 DEF Moves, Owns, Chosen, Refers
    <3> QED
      BY <2>1, <2>3, <3>1, QuietOwned
  <2> QED
    BY <1>7, <2>2, <2>3, RestoreMoves
<1>8. ASSUME NEW a \in Requests, MarkCorrupt(a)
      PROVE  RunsOwned'
  <2>1. Touches(a) /\ Refers(a) /\ Moves(a, "done", Blank)
    BY <1>8, CorruptEffect, ReturnMoves DEF MarkCorrupt, Inv
  <2> QED
    BY <2>1, ReturnOwned, TouchOwned
<1>9. ASSUME NEW a \in Requests, HandledFailure(a) \/ CutShort(a)
      PROVE  RunsOwned'
  <2>1. UNCHANGED <<rows, dirs, issued>>
    BY <1>9 DEF HandledFailure, CutShort, runVars
  <2>2. CASE Moves(a, "done", Blank)
    BY <2>1, <2>2, ReturnOwned, QuietOwned
  <2>3. CASE pc[a] = "capture" /\ Moves(a, "discard", job[a])
    <3>1. Owns(a) /\ Owned(a)
      BY <2>3 DEF Owns, RunsOwned
    <3>2. pc'[a] = "discard" /\ job'[a] = job[a] /\ \A r \in Chosen(a)' : r \in Chosen(a)
      BY <2>3 DEF Moves, Chosen, Refers
    <3>3. Owned(a)'
      BY <2>1, <2>3, <3>1, <3>2 DEF Owned
    <3> QED
      BY <2>1, <2>3, <3>1, <3>2, <3>3, QuietOwned
  <2>4. CASE pc[a] = "install" /\ Moves(a, "put_back", job[a])
    <3>1. ~Owns(a)' /\ \A r \in Chosen(a)' : r \in Chosen(a)
      BY <2>4 DEF Moves, Owns, Chosen, Refers
    <3> QED
      BY <2>1, <2>4, <3>1, QuietOwned
  <2> QED
    BY <1>9, <2>2, <2>3, <2>4, FailureMoves
<1>10. ASSUME NEW q \in RunIds, Rot(q)
       PROVE  RunsOwned'
  <2>1. /\ UNCHANGED <<rows, issued, pc, job>>
        /\ \A r \in RunIds : SameDir(r)
    BY <1>10, RotEffect
  <2>2. issued \in Nat /\ \A r \in RunIds : r \in Nat
    BY BackupAssumption DEF Inv, RunTypes, RunIds
  <2>3. \A a \in Requests : (Owns(a)' <=> Owns(a)) /\ Chosen(a)' = Chosen(a)
    BY <2>1 DEF Owns, Chosen, Refers
  <2>4. \A a \in Requests : Owns(a) => Owned(a)'
    <3> SUFFICES ASSUME NEW a \in Requests, Owns(a)
                 PROVE  Owned(a)'
      OBVIOUS
    <3>1. Owned(a) /\ job[a].run \in RunIds
      BY RunOf DEF RunsOwned
    <3> QED
      BY <2>1, <2>2, <3>1, OwnedStays
  <2>5. \A r \in RunIds : r > issued => rows'[r] = NoRow /\ dirs'[r] = NoDir
    BY <2>1 DEF RunsOwned, SameDir
  <2> QED
    BY <2>1, <2>3, <2>4, <2>5 DEF RunsOwned
<1> QED
  BY <1>1, <1>2, <1>3, <1>4, <1>5, <1>6, <1>7, <1>8, <1>9, <1>10, CallOwned, MakingOwned
     DEF Next, Step, RunStep, RestoreStep
-----------------------------------------------------------------------------
(* The document roots *)

\* A restore moves a target to its safety copy, or removes an empty one.
LEMMA AsideEffect ==
  ASSUME Inv, NEW a \in Requests, Aside(a)
  PROVE  \E s \in Sites :
           /\ UNCHANGED <<staged, restored, latest, edits>>
           /\ \/ UNCHANGED <<target, safety>>
              \/ /\ target' = [target EXCEPT ![s] = Missing]
                 /\ \/ target[s] = Empty /\ UNCHANGED safety
                    \/ /\ ~NonEmpty(safety[a][ParentOf[s]])
                       /\ safety' = [safety EXCEPT ![a][ParentOf[s]] = target[s]]
<1> DEFINE s == Head(job[a].sites)
<1>1. s \in Sites
  BY AtPlace, HeadSite DEF Aside, Bound, Inv
<1>2. UNCHANGED <<staged, restored, latest, edits>>
  BY DEF Aside
<1>3. \/ UNCHANGED <<target, safety>>
      \/ /\ target' = [target EXCEPT ![s] = Missing]
         /\ \/ target[s] = Empty /\ UNCHANGED safety
            \/ /\ ~NonEmpty(safety[a][ParentOf[s]])
               /\ safety' = [safety EXCEPT ![a][ParentOf[s]] = target[s]]
  BY DEF Aside
<1> QED
  BY <1>1, <1>2, <1>3

\* It installs what it has unpacked where there are no files, and after a
\* failure puts the safety copy back where there are none.
LEMMA InstallEffect ==
  ASSUME Inv, NEW a \in Requests, Install(a) \/ PutBack(a)
  PROVE  \E s \in Sites :
           /\ UNCHANGED <<restored, latest, edits>>
           /\ \/ UNCHANGED <<target, safety, staged>>
              \/ /\ ~NonEmpty(target[s]) /\ UNCHANGED safety
                 /\ target' = [target EXCEPT ![s] = staged[a]]
                 /\ staged' = [staged EXCEPT ![a] = Missing]
              \/ /\ ~NonEmpty(target[s]) /\ UNCHANGED staged
                 /\ target' = [target EXCEPT ![s] = safety[a][ParentOf[s]]]
                 /\ safety' = [safety EXCEPT ![a][ParentOf[s]] = Missing]
<1> DEFINE s == Head(job[a].sites)
           d == ParentOf[s]
<1>1. s \in Sites /\ d \in Parents
  BY AtPlace, HeadSite, BackupAssumption DEF Install, PutBack, Bound, Inv
<1>2. CASE Install(a)
  BY <1>1, <1>2 DEF Install
<1>3. CASE PutBack(a)
  <2> DEFINE back == safety[a][d] # Missing /\ ~NonEmpty(target[s])
  <2>1. /\ target' = [target EXCEPT ![s] = IF back THEN safety[a][d] ELSE @]
        /\ safety' = [safety EXCEPT ![a][d] = IF back THEN Missing ELSE @]
        /\ UNCHANGED <<staged, restored, latest, edits>>
    BY <1>3 DEF PutBack
  <2>2. CASE back
    BY <1>1, <2>1, <2>2
  <2>3. CASE ~back
    <3>1. target' = target
      BY <1>1, <2>1, <2>3 DEF Inv, SiteTypes
    <3>2. safety' = [safety EXCEPT ![a] = [safety[a] EXCEPT ![d] = safety[a][d]]]
      BY <1>1, <2>1, <2>3
    <3>3. [safety[a] EXCEPT ![d] = safety[a][d]] = safety[a]
      BY <1>1 DEF Inv, SiteTypes
    <3>4. safety' = safety
      BY <3>2, <3>3 DEF Inv, SiteTypes
    <3> QED
      BY <1>1, <2>1, <3>1, <3>4
  <2> QED
    BY <2>2, <2>3
<1> QED
  BY <1>2, <1>3

\* An update of one safety copy.
LEMMA SafetyUpdate ==
  ASSUME Inv, NEW a \in Requests, NEW d \in Parents, NEW v \in Contents \cup {Missing},
         safety' = [safety EXCEPT ![a][d] = v]
  PROVE  /\ safety' \in [Requests -> [Parents -> Contents \cup {Missing}]]
         /\ safety'[a][d] = v
         /\ \A b \in Requests, e \in Parents : b # a \/ e # d => safety'[b][e] = safety[b][e]
<1> DEFINE f == [safety[a] EXCEPT ![d] = v]
<1>1. safety \in [Requests -> [Parents -> Contents \cup {Missing}]]
  BY DEF Inv, SiteTypes
<1>2. /\ f \in [Parents -> Contents \cup {Missing}] /\ f[d] = v
      /\ \A e \in Parents \ {d} : f[e] = safety[a][e]
  BY <1>1
<1>3. safety' = [safety EXCEPT ![a] = f]
  OBVIOUS
<1> HIDE DEF f
<1>4. /\ safety' \in [Requests -> [Parents -> Contents \cup {Missing}]]
      /\ safety'[a] = f /\ \A b \in Requests \ {a} : safety'[b] = safety[b]
  BY <1>1, <1>2, <1>3
<1> QED
  BY <1>2, <1>4

\* A version that an owner writes.
LEMMA EditEffect ==
  ASSUME Inv, NEW s \in Sites, Edit(s)
  PROVE  /\ UNCHANGED <<safety, staged, restored>> /\ edits' \in 0 .. MaxEdits
         /\ \E v \in Contents : /\ target' = [target EXCEPT ![s] = v]
                                /\ latest' = [latest EXCEPT ![s] = v]
<1>1. /\ UNCHANGED <<safety, staged, restored>> /\ edits < MaxEdits /\ edits' = edits + 1
      /\ target' = [target EXCEPT ![s] = <<s, edits + 1>>]
      /\ latest' = [latest EXCEPT ![s] = <<s, edits + 1>>]
  BY DEF Edit
<1>2. edits + 1 \in 0 .. MaxEdits
  BY <1>1, BackupAssumption DEF Inv, SiteTypes
<1>3. <<s, edits + 1>> \in Contents
  BY <1>2 DEF Contents
<1> QED
  BY <1>1, <1>2, <1>3

\* Every step keeps the document roots within their types.
LEMMA SiteTypesStep ==
  ASSUME Inv, [Next]_vars
  PROVE  SiteTypes'
<1>0. /\ target \in [Sites -> Contents \cup {Missing}]
      /\ latest \in [Sites -> Contents \cup {Missing}]
      /\ safety \in [Requests -> [Parents -> Contents \cup {Missing}]]
      /\ staged \in [Requests -> Contents \cup {Missing}]
      /\ restored \subseteq Requests /\ edits \in 0 .. MaxEdits
      /\ \A s \in Sites : ParentOf[s] \in Parents
  BY BackupAssumption DEF Inv, SiteTypes
<1>1. CASE UNCHANGED siteVars
  BY <1>0, <1>1 DEF siteVars, SiteTypes
<1>2. ASSUME NEW a \in Requests, Extract(a)
      PROVE  SiteTypes'
  <2> DEFINE r == job[a].run
             s == Head(job[a].sites)
  <2>1. UNCHANGED <<target, safety, restored, latest, edits>>
    BY <1>2 DEF Extract
  <2>2. staged' = staged
        \/ (Finalized(r) /\ staged' = [staged EXCEPT ![a] = dirs[r].holds[s]])
    BY <1>2 DEF Extract
  <2>3. r \in RunIds /\ s \in Sites
    BY <1>2, AtPlace, HeadSite DEF Extract, Bound, Refers, Inv
  <2>4. Finalized(r) => dirs[r].holds[s] \in Contents \cup {Missing}
    BY <2>3, TablesTyped DEF Finalized, Archives
  <2>5. staged' \in [Requests -> Contents \cup {Missing}]
    BY <1>0, <2>2, <2>4
  <2> QED
    BY <1>0, <2>1, <2>5 DEF SiteTypes
<1>3. ASSUME NEW a \in Requests, Aside(a)
      PROVE  SiteTypes'
  <2>1. PICK s \in Sites :
           /\ UNCHANGED <<staged, restored, latest, edits>>
           /\ \/ UNCHANGED <<target, safety>>
              \/ /\ target' = [target EXCEPT ![s] = Missing]
                 /\ \/ target[s] = Empty /\ UNCHANGED safety
                    \/ /\ ~NonEmpty(safety[a][ParentOf[s]])
                       /\ safety' = [safety EXCEPT ![a][ParentOf[s]] = target[s]]
    BY <1>3, AsideEffect
  <2>2. target' \in [Sites -> Contents \cup {Missing}]
    BY <1>0, <2>1
  <2>3. safety' \in [Requests -> [Parents -> Contents \cup {Missing}]]
    BY <1>0, <2>1, SafetyUpdate
  <2> QED
    BY <1>0, <2>1, <2>2, <2>3 DEF SiteTypes
<1>4. ASSUME NEW a \in Requests, Install(a) \/ PutBack(a)
      PROVE  SiteTypes'
  <2>1. PICK s \in Sites :
           /\ UNCHANGED <<restored, latest, edits>>
           /\ \/ UNCHANGED <<target, safety, staged>>
              \/ /\ ~NonEmpty(target[s]) /\ UNCHANGED safety
                 /\ target' = [target EXCEPT ![s] = staged[a]]
                 /\ staged' = [staged EXCEPT ![a] = Missing]
              \/ /\ ~NonEmpty(target[s]) /\ UNCHANGED staged
                 /\ target' = [target EXCEPT ![s] = safety[a][ParentOf[s]]]
                 /\ safety' = [safety EXCEPT ![a][ParentOf[s]] = Missing]
    BY <1>4, InstallEffect
  <2>2. staged[a] \in Contents \cup {Missing}
        /\ safety[a][ParentOf[s]] \in Contents \cup {Missing}
    BY <1>0
  <2>4. target' \in [Sites -> Contents \cup {Missing}]
    BY <1>0, <2>1, <2>2
  <2>5. staged' \in [Requests -> Contents \cup {Missing}]
    BY <1>0, <2>1
  <2>3. safety' \in [Requests -> [Parents -> Contents \cup {Missing}]]
    BY <1>0, <2>1, SafetyUpdate
  <2> QED
    BY <1>0, <2>1, <2>3, <2>4, <2>5 DEF SiteTypes
<1>5. ASSUME NEW a \in Requests, Restored(a)
      PROVE  SiteTypes'
  <2>1. UNCHANGED <<target, safety, staged, latest, edits>> /\ restored' = restored \cup {a}
    BY <1>5 DEF Restored
  <2> QED
    BY <1>0, <2>1 DEF SiteTypes
<1>6. ASSUME NEW s \in Sites, Edit(s)
      PROVE  SiteTypes'
  <2>1. PICK v \in Contents : target' = [target EXCEPT ![s] = v] /\ latest' = [latest EXCEPT ![s] = v]
    BY <1>6, EditEffect
  <2>2. UNCHANGED <<safety, staged, restored>> /\ edits' \in 0 .. MaxEdits
    BY <1>6, EditEffect
  <2> QED
    BY <1>0, <2>1, <2>2 DEF SiteTypes
<1> QED
  BY <1>1, <1>2, <1>3, <1>4, <1>5, <1>6, SiteFrame

-----------------------------------------------------------------------------
(* The invariant of the module *)

\* The program starts with typed variables and no call under way.
LEMMA InitInv == Init => Inv /\ RunsOwned
<1> SUFFICES ASSUME Init PROVE Inv /\ RunsOwned
  OBVIOUS
<1>1. pc = [a \in Requests |-> "idle"] /\ job = [a \in Requests |-> Blank]
  BY DEF Init
<1>2. ActorInv
  <2>1. \A a \in Requests : Bound(a)
    BY <1>1, BlankLocals DEF Bound, Owns, Refers
  <2> QED
    BY <1>1, <2>1, BlankLocals DEF ActorInv, Places
<1>3. PlanTypes
  <2>1. CASE plan = NoPlan /\ cron = NoPlan /\ least = 0
    BY <2>1 DEF PlanTypes
  <2>2. ASSUME NEW c \in Copies, plan = [enabled |-> TRUE, copies |-> c], cron = "on", least = c
        PROVE  PlanTypes
    BY <2>2 DEF PlanTypes, PlanRows
  <2> QED
    BY <2>1, <2>2 DEF Init
<1>4. issued \in 0 .. MaxRuns /\ finished = issued
  BY BackupAssumption DEF Init
<1>5. RunTypes
  <2>1. rows \in [RunIds -> States \cup {NoRow}]
    BY DEF Init, States
  <2> DEFINE d == [at |-> "runs", intact |-> TRUE, holds |-> [s \in Sites |-> <<s, 0>>]]
  <2>2. d \in Archives
    <3>1. \A s \in Sites : <<s, 0>> \in Contents
      BY BackupAssumption DEF Contents
    <3> QED
      BY <3>1 DEF Archives
  <2>3. dirs = [r \in RunIds |-> IF r <= issued THEN d ELSE NoDir]
    BY DEF Init
  <2> HIDE DEF d
  <2>4. dirs \in [RunIds -> Archives \cup {NoDir}]
    BY <2>2, <2>3
  <2>5. cut = {} /\ dropped = FALSE /\ faults = 0
    BY DEF Init
  <2>6. 0 \in 0 .. MaxFaults
    BY BackupAssumption
  <2>7. finished \in Nat
    BY <1>4, BackupAssumption
  <2>8. cut \subseteq RunIds /\ dropped \in BOOLEAN
    BY <2>5, Zenon
  <2> QED
    BY <1>4, <2>1, <2>4, <2>5, <2>6, <2>7, <2>8 DEF RunTypes
<1>6. SiteTypes
  <2>1. 0 \in 0 .. MaxEdits
    BY BackupAssumption
  <2>2. \A s \in Sites : <<s, 0>> \in Contents
    BY <2>1 DEF Contents
  <2>3. \A s \in Sites : target[s] \in Contents \cup {Missing}
    <3>1. Empty \in Contents
      BY DEF Contents
    <3>2. \A s \in Sites : target[s] \in {<<s, 0>>, Empty, Missing}
      BY DEF Init
    <3> QED
      BY <2>2, <3>1, <3>2
  <2>4. target \in [Sites -> {Empty}] \cup [Sites -> {Missing} \cup (Sites \X {0})]
    BY DEF Init
  <2>5. target \in [Sites -> Contents \cup {Missing}]
    BY <2>3, <2>4
  <2>6. /\ latest = target /\ restored = {} /\ edits = 0
        /\ safety = [a \in Requests |-> [d \in Parents |-> Missing]]
        /\ staged = [a \in Requests |-> Missing]
    BY DEF Init
  <2> QED
    BY <2>1, <2>5, <2>6 DEF SiteTypes
<1>7. RunsOwned
  <2>1. \A a \in Requests : ~Owns(a) /\ Chosen(a) = {}
    BY <1>1, BlankLocals DEF Owns, Chosen, Refers
  <2>2. \A r \in RunIds : r > issued => rows[r] = NoRow /\ dirs[r] = NoDir
    <3>1. \A r \in RunIds : r \in Nat /\ issued \in Nat
      BY <1>4, BackupAssumption DEF RunIds
    <3> QED
      BY <3>1 DEF Init
  <2> QED
    BY <2>1, <2>2 DEF RunsOwned
<1> QED
  BY <1>2, <1>3, <1>5, <1>6, <1>7 DEF Inv

\* Every step keeps the types and leaves every run to its maker.
LEMMA InvStep == Inv /\ RunsOwned /\ [Next]_vars => Inv' /\ RunsOwned'
BY ActorStep, PlanTypesStep, RunTypesStep, SiteTypesStep, OwnedStep DEF Inv

\* It holds always.
LEMMA InvAlways == Spec => [](Inv /\ RunsOwned)
BY InitInv, InvStep, PTL DEF Spec

\* The rows of a plan and its runs, the directories, the document roots, the
\* safety copies and what every call has read are well formed in every state.
THEOREM BackupTypes == Spec => []TypeOK
BY InvAlways, TypeParts, PTL
-----------------------------------------------------------------------------
(* A plan that is gone has no schedule *)

\* Where each call begins.
LEMMA CallMoves ==
  ASSUME Inv, NEW a \in Requests, Call(a)
  PROVE  /\ OthersStay(a) /\ pc[a] = "idle"
         /\ pc'[a] \in {"insert_plan", "save_plan", "cron", "insert_run", "remove", "check"}
<1>1. pc[a] = "idle"
  BY DEF Call, PlanCreateCron, PlanCall, RunStart, DeleteRun, VerifyCall
<1>2. \E l \in {"insert_plan", "save_plan", "cron", "insert_run", "remove", "check"} : \E j :
         pc' = [pc EXCEPT ![a] = l] /\ job' = [job EXCEPT ![a] = j]
  <2>1. ASSUME NEW c \in Copies, PlanCreateCron(a, c)
        PROVE  pc' = [pc EXCEPT ![a] = "insert_plan"] /\ \E j : job' = [job EXCEPT ![a] = j]
    BY <2>1 DEF PlanCreateCron, Goto
  <2>2. ASSUME NEW op \in Ops, NEW c \in Copies, PlanCall(a, op, c)
        PROVE  /\ pc' = [pc EXCEPT ![a] = "save_plan"] \/ pc' = [pc EXCEPT ![a] = "cron"]
               /\ \E j : job' = [job EXCEPT ![a] = j]
    BY <2>2 DEF PlanCall, Goto
  <2>3. RunStart(a) => /\ pc' = [pc EXCEPT ![a] = "insert_run"]
                       /\ \E j : job' = [job EXCEPT ![a] = j]
    BY DEF RunStart, Goto
  <2>4. ASSUME NEW r \in RunIds, DeleteRun(a, r)
        PROVE  pc' = [pc EXCEPT ![a] = "remove"] /\ \E j : job' = [job EXCEPT ![a] = j]
    BY <2>4 DEF DeleteRun, Goto
  <2>5. ASSUME NEW r \in RunIds, NEW op, NEW overwrite, NEW sites, VerifyCall(a, r, op, overwrite, sites)
        PROVE  pc' = [pc EXCEPT ![a] = "check"] /\ \E j : job' = [job EXCEPT ![a] = j]
    BY <2>5 DEF VerifyCall, Goto
  <2> QED
    BY <2>1, <2>2, <2>3, <2>4, <2>5 DEF Call
<1> QED
  BY <1>1, <1>2 DEF OthersStay, Inv, ActorInv

\* A step of one call leaves the others where they are.
LEMMA OneMoves ==
  ASSUME Inv, NEW a \in Requests, Call(a) \/ Step(a) \/ HandledFailure(a) \/ CutShort(a)
  PROVE  OthersStay(a)
<1>1. CASE Call(a)
  BY <1>1, CallMoves
<1>2. CASE PlanStep(a)
  BY <1>2, PlanStepMoves DEF Moves
<1>3. CASE RunStep(a)
  BY <1>3, MakingMoves, CaptureMoves, RetentionMoves, PruneMoves, RemovalMoves DEF RunStep, Moves
<1>4. CASE RestoreStep(a)
  BY <1>4, RestoreMoves DEF Moves
<1>5. CASE HandledFailure(a) \/ CutShort(a)
  BY <1>5, FailureMoves DEF Moves
<1> QED
  BY <1>1, <1>2, <1>3, <1>4, <1>5 DEF Step

\* The cron job is gone before delete_plan comes to the row of the plan, and
\* nothing brings it back.
Scheduled ==
    /\ \A a \in Requests : pc[a] = "delete_plan" => cron = Gone
    /\ NoOrphanSchedule

\* Only the deletion of the cron job leads to the deletion of the plan.
LEMMA DeletePlanAfterCron ==
  ASSUME Inv, NEW a \in Requests, Call(a) \/ Step(a) \/ HandledFailure(a) \/ CutShort(a),
         pc'[a] = "delete_plan"
  PROVE  PlanCron(a) /\ job[a].op = "delete_plan" /\ cron # Gone
<1>1. CASE Call(a)
  BY <1>1, CallMoves
<1>2. CASE PlanStep(a)
  BY <1>2, PlanStepMoves DEF Moves
<1>3. CASE RunStep(a)
  BY <1>3, MakingMoves, CaptureMoves, RetentionMoves, PruneMoves, RemovalMoves DEF RunStep, Moves
<1>4. CASE RestoreStep(a)
  BY <1>4, RestoreMoves DEF Moves, Refers
<1>5. CASE HandledFailure(a) \/ CutShort(a)
  BY <1>5, FailureMoves DEF Moves
<1> QED
  BY <1>1, <1>2, <1>3, <1>4, <1>5 DEF Step

\* Every step keeps the order of the two deletions.
LEMMA ScheduledStep ==
  ASSUME Inv, Scheduled, [Next]_vars
  PROVE  Scheduled'
<1>1. cron = Gone => cron' = Gone
  <2>1. ASSUME NEW a \in Requests, NEW c \in Copies, PlanCreateCron(a, c)
        PROVE  cron # Gone
    BY <2>1, BackupNulls DEF PlanCreateCron
  <2>2. ASSUME NEW a \in Requests, PlanStep(a), cron = Gone
        PROVE  cron' = cron
    BY <2>2 DEF PlanStep, PlanInsert, PlanCron, PlanSave, PlanDelete
  <2> QED
    BY <2>1, <2>2, PlanFrame DEF planVars
<1>2. ASSUME NEW a \in Requests, PlanCron(a), job[a].op = "delete_plan", cron # Gone
      PROVE  cron' = Gone
  BY <1>2 DEF PlanCron
<1>3. ASSUME NEW b \in Requests, pc'[b] = "delete_plan"
      PROVE  cron' = Gone
  <2>1. CASE pc'[b] = pc[b]
    BY <1>1, <1>3, <2>1 DEF Scheduled
  <2>2. CASE pc'[b] # pc[b]
    <3>1. PICK a \in Requests : Call(a) \/ Step(a) \/ HandledFailure(a) \/ CutShort(a)
      BY <2>2 DEF Next, vars, Edit, Rot
    <3>2. b = a
      BY <2>2, <3>1, OneMoves DEF OthersStay
    <3> QED
      BY <1>2, <1>3, <3>1, <3>2, DeletePlanAfterCron
  <2> QED
    BY <2>1, <2>2
<1>4. ASSUME plan' = Gone
      PROVE  cron' = Gone
  <2>1. CASE UNCHANGED planVars
    BY <1>4, <2>1 DEF planVars, Scheduled, NoOrphanSchedule
  <2>2. ASSUME NEW a \in Requests, NEW c \in Copies, PlanCreateCron(a, c)
        PROVE  cron' = Gone
    BY <1>4, <2>2, BackupNulls DEF PlanCreateCron
  <2>3. ASSUME NEW a \in Requests, PlanStep(a)
        PROVE  cron' = Gone
    <3>1. CASE PlanDelete(a)
      BY <1>1, <3>1 DEF PlanDelete, Scheduled
    <3>2. CASE ~PlanDelete(a)
      <4>1. plan' = plan \/ (plan' = job[a].plan /\ pc[a] \in {"insert_plan", "save_plan"})
        BY <2>3, <3>2 DEF PlanStep, PlanInsert, PlanCron, PlanSave, SavePlan
      <4>2. pc[a] \in {"insert_plan", "save_plan"} => job[a].plan # Gone
        BY AtPlace, BackupNulls DEF Inv, Bound
      <4> QED
        BY <1>1, <1>4, <4>1, <4>2 DEF Scheduled, NoOrphanSchedule
    <3> QED
      BY <3>1, <3>2
  <2> QED
    BY <2>1, <2>2, <2>3, PlanFrame
<1> QED
  BY <1>3, <1>4 DEF Scheduled, NoOrphanSchedule

\* delete_plan removes the cron job before the plan, and set_enabled of a call
\* that read the plan earlier cannot bring it back: no cron job is left to run a
\* plan that is gone, whatever calls interleave and wherever they are cut short.
THEOREM NoScheduleLeft == Spec => []NoOrphanSchedule
<1>1. Init => Scheduled
  <2> SUFFICES ASSUME Init PROVE Scheduled
    OBVIOUS
  <2>1. \A a \in Requests : pc[a] = "idle"
    BY DEF Init
  <2>2. ASSUME NEW c \in Copies, plan = [enabled |-> TRUE, copies |-> c]
        PROVE  plan \in PlanRows
    BY <2>2 DEF PlanRows
  <2>3. plan = NoPlan \/ plan \in PlanRows
    BY <2>2 DEF Init
  <2> QED
    BY <2>1, <2>3, BackupNulls DEF Scheduled, NoOrphanSchedule
<1>2. Inv /\ Scheduled /\ [Next]_vars => Scheduled'
  BY ScheduledStep
<1>3. Scheduled => NoOrphanSchedule
  BY DEF Scheduled
<1> QED
  BY <1>1, <1>2, <1>3, InvAlways, PTL DEF Spec

-----------------------------------------------------------------------------
(* What an owner wrote last is not lost *)

\* What the owner of the site wrote last is at hand.
Kept(s) == NonEmpty(latest[s]) =>
    latest[s] = target[s] \/ \E a \in Requests : latest[s] = safety[a][ParentOf[s]]

\* The same, for every site.
LEMMA KeptEverywhere == LiveContentKept <=> \A s \in Sites : Kept(s)
BY DEF LiveContentKept, Kept

\* Every step keeps it, where no two sites share a parent directory.
LEMMA KeptStep ==
  ASSUME Inv, LiveContentKept, [Next]_vars,
         \A s, t \in Sites : ParentOf[s] = ParentOf[t] => s = t
  PROVE  LiveContentKept'
<1>0. /\ target \in [Sites -> Contents \cup {Missing}]
      /\ latest \in [Sites -> Contents \cup {Missing}]
      /\ safety \in [Requests -> [Parents -> Contents \cup {Missing}]]
      /\ \A s \in Sites : ParentOf[s] \in Parents /\ Kept(s)
  BY BackupAssumption, KeptEverywhere DEF Inv, SiteTypes
<1>1. CASE UNCHANGED <<target, safety, latest>>
  BY <1>0, <1>1, KeptEverywhere DEF Kept, LiveContentKept
<1>2. ASSUME NEW a \in Requests, Extract(a) \/ Restored(a)
      PROVE  UNCHANGED <<target, safety, latest>>
  BY <1>2 DEF Extract, Restored
<1>3. ASSUME NEW a \in Requests, Aside(a)
      PROVE  \A t \in Sites : Kept(t)'
  <2>1. PICK s \in Sites :
           /\ UNCHANGED <<staged, restored, latest, edits>>
           /\ \/ UNCHANGED <<target, safety>>
              \/ /\ target' = [target EXCEPT ![s] = Missing]
                 /\ \/ target[s] = Empty /\ UNCHANGED safety
                    \/ /\ ~NonEmpty(safety[a][ParentOf[s]])
                       /\ safety' = [safety EXCEPT ![a][ParentOf[s]] = target[s]]
    BY <1>3, AsideEffect
  <2>2. CASE UNCHANGED <<target, safety>>
    BY <1>0, <2>1, <2>2 DEF Kept
  <2>3. CASE /\ target' = [target EXCEPT ![s] = Missing]
             /\ target[s] = Empty /\ UNCHANGED safety
    BY <1>0, <2>1, <2>3 DEF Kept, NonEmpty
  <2>4. CASE /\ target' = [target EXCEPT ![s] = Missing]
             /\ ~NonEmpty(safety[a][ParentOf[s]])
             /\ safety' = [safety EXCEPT ![a][ParentOf[s]] = target[s]]
    <3>1. target[s] \in Contents \cup {Missing} /\ ParentOf[s] \in Parents
      BY <1>0
    <3>2. /\ safety'[a][ParentOf[s]] = target[s]
          /\ \A b \in Requests, e \in Parents :
                b # a \/ e # ParentOf[s] => safety'[b][e] = safety[b][e]
      <4> DEFINE v == target[s]
                 d == ParentOf[s]
      <4>1. v \in Contents \cup {Missing} /\ d \in Parents /\ safety' = [safety EXCEPT ![a][d] = v]
        BY <2>4, <3>1
      <4> HIDE DEF v, d
      <4>2. /\ safety'[a][d] = v
            /\ \A b \in Requests, e \in Parents : b # a \/ e # d => safety'[b][e] = safety[b][e]
        BY ONLY Inv, <4>1, a \in Requests, SafetyUpdate
      <4> QED
        BY <4>2 DEF v, d
    <3>3. ASSUME NEW t \in Sites, NonEmpty(latest[t])
          PROVE  latest[t] = target'[t] \/ \E b \in Requests : latest[t] = safety'[b][ParentOf[t]]
      <4>1. CASE latest[t] = target[t] /\ t = s
        BY <3>2, <4>1
      <4>2. CASE latest[t] = target[t] /\ t # s
        BY <1>0, <2>4, <4>2
      <4>3. ASSUME NEW b \in Requests, latest[t] = safety[b][ParentOf[t]]
            PROVE  latest[t] = safety'[b][ParentOf[t]]
        <5>1. b # a \/ ParentOf[t] # ParentOf[s]
          BY <2>4, <3>3, <4>3
        <5> QED
          BY <1>0, <3>2, <4>3, <5>1
      <4> QED
        BY <1>0, <3>3, <4>1, <4>2, <4>3 DEF Kept
    <3> QED
      BY <2>1, <3>3 DEF Kept
  <2> QED
    BY <2>1, <2>2, <2>3, <2>4
<1>4. ASSUME NEW a \in Requests, Install(a) \/ PutBack(a)
      PROVE  \A t \in Sites : Kept(t)'
  <2>1. PICK s \in Sites :
           /\ UNCHANGED <<restored, latest, edits>>
           /\ \/ UNCHANGED <<target, safety, staged>>
              \/ /\ ~NonEmpty(target[s]) /\ UNCHANGED safety
                 /\ target' = [target EXCEPT ![s] = staged[a]]
                 /\ staged' = [staged EXCEPT ![a] = Missing]
              \/ /\ ~NonEmpty(target[s]) /\ UNCHANGED staged
                 /\ target' = [target EXCEPT ![s] = safety[a][ParentOf[s]]]
                 /\ safety' = [safety EXCEPT ![a][ParentOf[s]] = Missing]
    BY <1>4, InstallEffect
  <2>2. CASE UNCHANGED <<target, safety>>
    BY <1>0, <2>1, <2>2 DEF Kept
  <2>3. CASE ~NonEmpty(target[s]) /\ UNCHANGED safety /\ target' = [target EXCEPT ![s] = staged[a]]
    BY <1>0, <2>1, <2>3 DEF Kept
  <2>4. CASE /\ ~NonEmpty(target[s])
             /\ target' = [target EXCEPT ![s] = safety[a][ParentOf[s]]]
             /\ safety' = [safety EXCEPT ![a][ParentOf[s]] = Missing]
    <3>1. \A b \in Requests, e \in Parents :
                b # a \/ e # ParentOf[s] => safety'[b][e] = safety[b][e]
      BY <1>0, <2>4, SafetyUpdate
    <3>2. ASSUME NEW t \in Sites, NonEmpty(latest[t])
          PROVE  latest[t] = target'[t] \/ \E b \in Requests : latest[t] = safety'[b][ParentOf[t]]
      <4>1. CASE latest[t] = target[t]
        BY <1>0, <2>4, <3>2, <4>1
      <4>2. ASSUME NEW b \in Requests, latest[t] = safety[b][ParentOf[t]], t = s, b = a
            PROVE  latest[t] = target'[t]
        BY <1>0, <2>4, <4>2
      <4>3. ASSUME NEW b \in Requests, latest[t] = safety[b][ParentOf[t]], t # s \/ b # a
            PROVE  latest[t] = safety'[b][ParentOf[t]]
        <5>1. b # a \/ ParentOf[t] # ParentOf[s]
          BY <4>3
        <5> QED
          BY <1>0, <3>1, <4>3, <5>1
      <4> QED
        BY <1>0, <3>2, <4>1, <4>2, <4>3 DEF Kept
    <3> QED
      BY <2>1, <3>2 DEF Kept
  <2> QED
    BY <2>1, <2>2, <2>3, <2>4
<1>5. ASSUME NEW s \in Sites, Edit(s)
      PROVE  \A t \in Sites : Kept(t)'
  <2>1. PICK v \in Contents : target' = [target EXCEPT ![s] = v] /\ latest' = [latest EXCEPT ![s] = v]
    BY <1>5, EditEffect
  <2>2. UNCHANGED safety
    BY <1>5, EditEffect
  <2> QED
    BY <1>0, <2>1, <2>2 DEF Kept
<1>6. (\A t \in Sites : Kept(t)') => LiveContentKept'
  BY DEF LiveContentKept, Kept
<1> QED
  BY <1>1, <1>2, <1>3, <1>4, <1>5, <1>6, SiteFrame DEF siteVars

\* Through concurrent restores, edits between the preview and the rename,
\* renames that fail and calls that are cut short, what the owner of a site
\* wrote last is in its document root or in a safety copy beside it.  It takes
\* the layout that SiteService gives sites by default, where each document
\* root has a parent directory of its own.
THEOREM LiveContentSafe ==
  ASSUME \A s, t \in Sites : ParentOf[s] = ParentOf[t] => s = t
  PROVE  Spec => []LiveContentKept
<1>1. Init => LiveContentKept
  BY DEF Init, LiveContentKept
<1>2. Inv /\ LiveContentKept /\ [Next]_vars => LiveContentKept'
  BY KeptStep
<1> QED
  BY <1>1, <1>2, InvAlways, PTL DEF Spec
-----------------------------------------------------------------------------
(* A completed run has its files *)

\* A run that is offered as completed has its files, or is on its way out.
Offered(r) == rows[r] = "completed" => Full(r) \/ BeingDeleted(r) \/ r \in cut

\* The same, for every run.
LEMMA OfferedEverywhere == CompletedHasFiles <=> \A r \in RunIds : Offered(r)
BY DEF CompletedHasFiles, Offered, Completed, Full

\* The files of a run stay full.
LEMMA FullStays ==
  ASSUME NEW r, SameDir(r), Full(r)
  PROVE  Full(r)'
BY DEF Full, Finalized, SameDir

\* A run whose row and directory stay, and which the call that moves is not
\* between the two steps of deleting.
LEMMA OfferedStays ==
  ASSUME NEW a \in Requests, OthersStay(a), NEW r \in RunIds, Offered(r),
         rows'[r] = rows[r], SameDir(r), cut \subseteq cut',
         pc[a] = "delete_row" /\ job[a].run = r => r \in cut'
  PROVE  Offered(r)'
<1>1. ASSUME rows'[r] = "completed"
      PROVE  Full(r)' \/ BeingDeleted(r)' \/ r \in cut'
  <2>1. CASE Full(r)
    BY <2>1, FullStays
  <2>2. CASE r \in cut
    BY <2>2
  <2>3. CASE BeingDeleted(r)
    <3>1. PICK b \in Requests : pc[b] = "delete_row" /\ job[b].run = r
      BY <2>3 DEF BeingDeleted
    <3>2. CASE b = a
      BY <3>1, <3>2
    <3>3. CASE b # a
      BY <3>1, <3>3 DEF OthersStay, BeingDeleted
    <3> QED
      BY <3>2, <3>3
  <2> QED
    BY <1>1, <2>1, <2>2, <2>3 DEF Offered
<1> QED
  BY <1>1 DEF Offered

\* The maker of a run completes it when the directory is full, and nobody
\* else changes a run until then.
LEMMA OfferedStep ==
  ASSUME Inv, RunsOwned, CompletedHasFiles, [Next]_vars
  PROVE  CompletedHasFiles'
<1>0. \A r \in RunIds : Offered(r)
  BY OfferedEverywhere
<1> SUFFICES ASSUME NEW r \in RunIds
             PROVE  Offered(r)'
  BY DEF CompletedHasFiles, Offered, Completed, Full
<1>1. CASE UNCHANGED vars \/ \E s \in Sites : Edit(s)
  <2>1. UNCHANGED <<rows, dirs, pc, job, cut>>
    BY <1>1 DEF vars, runVars, faultVars, Edit
  <2> QED
    BY <1>0, <2>1 DEF Offered, Full, Finalized, BeingDeleted
<1>2. ASSUME NEW q \in RunIds, Rot(q)
      PROVE  Offered(r)'
  <2>1. UNCHANGED <<rows, pc, job, cut>> /\ SameDir(r)
    BY <1>2, RotEffect
  <2> QED
    BY <1>0, <2>1, FullStays DEF Offered, BeingDeleted
<1>3. ASSUME NEW a \in Requests, Call(a) \/ Step(a) \/ HandledFailure(a) \/ CutShort(a),
             UNCHANGED <<rows, dirs>>, cut \subseteq cut',
             pc[a] = "delete_row" => job[a].run \in cut'
      PROVE  Offered(r)'
  <2>1. OthersStay(a) /\ rows'[r] = rows[r] /\ SameDir(r)
    BY <1>3, OneMoves DEF SameDir
  <2> QED
    BY <1>0, <1>3, <2>1, OfferedStays
<1>4. ASSUME NEW a \in Requests, Call(a)
      PROVE  Offered(r)'
  <2>1. UNCHANGED <<rows, dirs, cut>>
    BY <1>4 DEF Call, PlanCreateCron, PlanCall, RunStart, DeleteRun, VerifyCall, runVars, faultVars
  <2> QED
    BY <1>3, <1>4, <2>1, CallMoves
<1>5. ASSUME NEW a \in Requests, PlanStep(a) \/ Retention(a) \/ Prune(a)
      PROVE  Offered(r)'
  <2>1. UNCHANGED <<rows, dirs, cut>> /\ pc[a] # "delete_row"
    BY <1>5 DEF PlanStep, PlanInsert, PlanCron, PlanSave, PlanDelete, Retention, Prune,
                runVars, faultVars
  <2> QED
    BY <1>3, <1>5, <2>1 DEF Step, RunStep
<1>6. ASSUME NEW a \in Requests, RestoreStep(a), ~MarkCorrupt(a)
      PROVE  Offered(r)'
  <2>1. UNCHANGED <<rows, dirs, cut>>
    BY <1>6 DEF RestoreStep, VerifyAgain, VerifyFiles, Preview, Extract, Probe, Aside,
                Install, PutBack, Restored, runVars, faultVars
  <2>2. pc[a] # "delete_row"
    BY <1>6, RestoreMoves
  <2> QED
    BY <1>3, <1>6, <2>1, <2>2 DEF Step
<1>7. ASSUME NEW a \in Requests, HandledFailure(a) \/ CutShort(a)
      PROVE  Offered(r)'
  <2>1. UNCHANGED <<rows, dirs>>
    BY <1>7 DEF HandledFailure, CutShort, runVars
  <2>2. CASE HandledFailure(a)
    BY <1>3, <2>1, <2>2 DEF HandledFailure
  <2>3. CASE CutShort(a)
    <3>1. cut' = IF job[a].run = 0 THEN cut ELSE cut \cup {job[a].run}
      BY <2>3 DEF CutShort
    <3>2. pc[a] = "delete_row" => job[a].run # 0
      BY RunOf, BackupAssumption DEF Refers, RunIds
    <3> QED
      BY <1>3, <2>1, <2>3, <3>1, <3>2
  <2> QED
    BY <1>7, <2>2, <2>3
\* The steps that change a row or a directory change the run of the call.
<1>8. ASSUME NEW a \in Requests, Touches(a), OthersStay(a),
             r = job[a].run => Offered(r)'
      PROVE  Offered(r)'
  <2>1. CASE r = job[a].run
    BY <1>8, <2>1
  <2>2. CASE r # job[a].run
    <3>1. rows'[r] = rows[r] /\ SameDir(r) /\ cut' = cut
      BY <1>8, <2>2 DEF Touches, SameDir
    <3> QED
      BY <1>0, <1>8, <2>2, <3>1, OfferedStays
  <2> QED
    BY <2>1, <2>2
<1>9. ASSUME NEW a \in Requests,
             RunInsert(a) \/ Capture(a) \/ Finalize(a) \/ Discard(a) \/ RunFail(a)
      PROVE  Offered(r)'
  <2>1. Touches(a) /\ Owns(a)
    BY <1>9, InsertEffect, CaptureEffect, FinalizeEffect, FailureEffect
  <2>2. rows'[job[a].run] \in {rows[job[a].run], "running", "failed"}
    BY <1>9, InsertEffect, CaptureEffect, FinalizeEffect, FailureEffect
  <2>3. rows[job[a].run] \in {NoRow, "running"}
    BY <2>1 DEF RunsOwned, Owned
  <2>4. r = job[a].run => Offered(r)'
    BY <2>2, <2>3, BackupNulls DEF Offered, States
  <2> QED
    BY <1>8, <1>9, <2>1, <2>4, OneMoves DEF Step, RunStep
<1>10. ASSUME NEW a \in Requests, RunComplete(a)
       PROVE  Offered(r)'
  <2>1. Touches(a) /\ Owns(a) /\ pc[a] = "complete" /\ dirs' = dirs
    BY <1>10, CompleteEffect
  <2>2. Full(job[a].run)
    BY <2>1 DEF RunsOwned, Owned
  <2>3. r = job[a].run => Offered(r)'
    <3>1. SameDir(r)
      BY <2>1 DEF SameDir
    <3> QED
      BY <2>2, <3>1, FullStays DEF Offered
  <2> QED
    BY <1>8, <1>10, <2>1, <2>3, OneMoves DEF Step, RunStep
<1>11. ASSUME NEW a \in Requests, RemoveFiles(a)
       PROVE  Offered(r)'
  <2>1. Touches(a) /\ Moves(a, "delete_row", job[a])
    BY <1>11, RemoveEffect, RemovalMoves
  <2>2. r = job[a].run => Offered(r)'
    BY <2>1 DEF Moves, Offered, BeingDeleted
  <2> QED
    BY <1>8, <1>11, <2>1, <2>2, OneMoves DEF Step, RunStep
<1>12. ASSUME NEW a \in Requests, DeleteRow(a) \/ MarkCorrupt(a)
       PROVE  Offered(r)'
  <2>1. Touches(a) /\ rows'[job[a].run] \in {"corrupt", NoRow}
    BY <1>12, DeleteRowEffect, CorruptEffect
  <2>2. r = job[a].run => Offered(r)'
    BY <2>1, BackupNulls DEF Offered, States
  <2> QED
    BY <1>8, <1>12, <2>1, <2>2, OneMoves DEF Step, RunStep, RestoreStep
<1> QED
  BY <1>1, <1>2, <1>4, <1>5, <1>6, <1>7, <1>9, <1>10, <1>11, <1>12
     DEF Next, Step, RunStep, RestoreStep

\* "Partial runs never enter the restorable set": a run that is offered as
\* completed has its finalized directory with every resource of the plan,
\* whatever runs, retentions, deletions, restores and failures interleave,
\* unless its own deletion is between its two steps or was cut short there.
THEOREM RestorableRunsFull == Spec => []CompletedHasFiles
<1>1. Init => CompletedHasFiles
  <2> SUFFICES ASSUME Init, NEW r \in RunIds, rows[r] = "completed"
               PROVE  Full(r)
    BY DEF CompletedHasFiles, Completed, Full
  <2> DEFINE d == [at |-> "runs", intact |-> TRUE, holds |-> [s \in Sites |-> <<s, 0>>]]
  <2>1. r <= issued
    BY BackupNulls DEF Init, States
  <2>2. dirs[r] = d
    BY <2>1 DEF Init
  <2>3. \A s \in Sites : d.holds[s] \in Contents
    BY BackupAssumption DEF Contents
  <2>4. d \in Archives
    BY BackupAssumption DEF Archives, Contents
  <2>5. d.at = "runs"
    OBVIOUS
  <2> HIDE DEF d
  <2>6. \A i \in DOMAIN Resources : Resources[i] \in Sites
    BY BackupAssumption
  <2> QED
    BY <2>2, <2>3, <2>4, <2>5, <2>6, BackupNulls DEF Full, Finalized
<1>2. Inv /\ RunsOwned /\ CompletedHasFiles /\ [Next]_vars => CompletedHasFiles'
  BY OfferedStep
<1> QED
  BY <1>1, <1>2, InvAlways, PTL DEF Spec
-----------------------------------------------------------------------------
(* The plan comes before its runs *)

\* Before the row of the plan there is nothing but one create_plan.
PlanFirst ==
    /\ plan = NoPlan =>
          /\ issued = 0 /\ finished = 0
          /\ \A a \in Requests : pc[a] \in {"idle", "insert_plan", "done"} /\ job[a].op # "run"
    /\ \A a \in Requests : pc[a] = "insert_plan" => plan = NoPlan /\ cron # NoPlan
    /\ \A a, b \in Requests : pc[a] = "insert_plan" /\ pc[b] = "insert_plan" => a = b

\* Only create_plan comes to insert_plan.
LEMMA InsertPlanArrives ==
  ASSUME Inv, NEW a \in Requests, Call(a) \/ Step(a) \/ HandledFailure(a) \/ CutShort(a),
         pc'[a] = "insert_plan"
  PROVE  \E c \in Copies : PlanCreateCron(a, c)
<1>1. CASE Call(a)
  <2>1. \A l : Goto(a, l) => pc'[a] = l
    BY DEF Goto, Inv, ActorInv
  <2> QED
    BY <1>1, <2>1 DEF Call, PlanCall, RunStart, DeleteRun, VerifyCall
<1>2. CASE PlanStep(a)
  BY <1>2, PlanStepMoves DEF Moves
<1>3. CASE RunStep(a)
  BY <1>3, MakingMoves, CaptureMoves, RetentionMoves, PruneMoves, RemovalMoves DEF RunStep, Moves
<1>4. CASE RestoreStep(a)
  BY <1>4, RestoreMoves DEF Moves, Refers
<1>5. CASE HandledFailure(a) \/ CutShort(a)
  BY <1>5, FailureMoves DEF Moves
<1> QED
  BY <1>1, <1>2, <1>3, <1>4, <1>5 DEF Step

\* Before the row of the plan, nothing happens but create_plan and its end.
LEMMA BeforePlan ==
  ASSUME Inv, RunsOwned, PlanFirst, plan = NoPlan, NEW a \in Requests,
         Call(a) \/ Step(a) \/ HandledFailure(a) \/ CutShort(a)
  PROVE  (\E c \in Copies : PlanCreateCron(a, c)) \/ PlanInsert(a) \/ CutShort(a)
<1>1. pc[a] \in {"idle", "insert_plan", "done"} /\ issued = 0
  BY DEF PlanFirst
<1>2. \A r \in RunIds : rows[r] = NoRow
  <2>1. \A r \in RunIds : r > 0
    BY BackupAssumption DEF RunIds
  <2> QED
    BY <1>1, <2>1 DEF RunsOwned
<1>3. CASE Call(a)
  <2>1. ~Stored(plan)
    BY DEF Stored
  <2>2. \A r \in RunIds : rows[r] \notin States
    BY <1>2, BackupNulls
  <2>3. ~RunStart(a) /\ \A op \in Ops, c \in Copies : ~PlanCall(a, op, c)
    BY <2>1 DEF PlanCall, RunStart
  <2>4. \A r \in RunIds : ~DeleteRun(a, r)
    BY <2>2 DEF DeleteRun
  <2>5. \A r \in RunIds : rows[r] # "completed"
    BY <2>2 DEF States
  <2>6. ASSUME NEW r \in RunIds, NEW op, NEW overwrite, NEW sites
        PROVE  ~VerifyCall(a, r, op, overwrite, sites)
    BY <2>5 DEF VerifyCall
  <2> QED
    BY <1>3, <2>3, <2>4, <2>6 DEF Call
<1>4. CASE PlanStep(a)
  BY <1>1, <1>4 DEF PlanStep, PlanCron, PlanSave, PlanDelete
<1>5. ~RunStep(a)
  BY <1>1 DEF RunStep, RunInsert, Capture, Finalize, RunComplete, Discard, RunFail, Retention,
              Prune, RemoveFiles, DeleteRow
<1>6. ~RestoreStep(a) /\ ~HandledFailure(a)
  BY <1>1, RestoreMoves DEF Refers, HandledFailure
<1> QED
  BY <1>3, <1>4, <1>5, <1>6 DEF Step

\* Every step keeps it so.
LEMMA PlanFirstStep ==
  ASSUME Inv, RunsOwned, PlanFirst, [Next]_vars
  PROVE  PlanFirst'
<1>1. CASE UNCHANGED vars \/ (\E s \in Sites : Edit(s)) \/ (\E r \in RunIds : Rot(r))
  <2>1. UNCHANGED <<plan, cron, issued, finished, pc, job>>
    BY <1>1 DEF vars, planVars, runVars, Edit, Rot
  <2> QED
    BY <2>1 DEF PlanFirst
<1>2. ASSUME NEW a \in Requests, Call(a) \/ Step(a) \/ HandledFailure(a) \/ CutShort(a)
      PROVE  PlanFirst'
  <2>1. OthersStay(a)
    BY <1>2, OneMoves
  <2>2. ASSUME plan # NoPlan
        PROVE  plan' # NoPlan /\ \A b \in Requests : pc'[b] # "insert_plan"
    <3>1. \A b \in Requests : pc[b] # "insert_plan"
      BY <2>2 DEF PlanFirst
    <3>2. ~\E c \in Copies : PlanCreateCron(a, c)
      BY <2>2 DEF PlanCreateCron
    <3>3. pc'[a] # "insert_plan"
      BY <1>2, <3>2, InsertPlanArrives
    <3>4. ASSUME NEW b \in Requests, PlanStep(b)
          PROVE  plan' # NoPlan
      <4>1. plan' \in {plan, Gone} \/ (plan' = job[b].plan /\ pc[b] \in {"insert_plan", "save_plan"})
        BY <3>4 DEF PlanStep, PlanInsert, PlanCron, PlanSave, PlanDelete, SavePlan
      <4>2. pc[b] \in {"insert_plan", "save_plan"} => job[b].plan # NoPlan
        BY AtPlace, BackupNulls DEF Inv, Bound
      <4> QED
        BY <2>2, <4>1, <4>2, BackupNulls
    <3>5. ASSUME NEW b \in Requests, NEW c \in Copies, PlanCreateCron(b, c)
          PROVE  FALSE
      BY <2>2, <3>5 DEF PlanCreateCron
    <3> QED
      BY <2>1, <2>2, <3>1, <3>3, <3>4, <3>5, PlanFrame DEF OthersStay, planVars
  <2>3. CASE plan # NoPlan
    BY <2>2, <2>3 DEF PlanFirst
  <2>4. ASSUME plan = NoPlan, NEW c \in Copies, PlanCreateCron(a, c)
        PROVE  PlanFirst'
    <3>1. PICK j \in Locals : Moves(a, "insert_plan", j) /\ j.op = "create"
      BY <2>4, CreateMoves
    <3>2. pc'[a] = "insert_plan" /\ job'[a].op = "create"
      BY <3>1 DEF Moves
    <3>3. cron = NoPlan /\ cron' = "on" /\ UNCHANGED <<plan, issued, finished>>
      BY <2>4 DEF PlanCreateCron, runVars
    <3>4. cron' # NoPlan
      BY <3>3, BackupNulls
    <3>5. \A b \in Requests : pc[b] # "insert_plan"
      BY <3>3 DEF PlanFirst
    <3> QED
      BY <2>1, <2>4, <3>2, <3>3, <3>4, <3>5 DEF PlanFirst, OthersStay
  <2>5. CASE plan = NoPlan /\ PlanInsert(a)
    <3>1. plan' # NoPlan /\ pc[a] = "insert_plan"
      BY <2>5, AtPlace, BackupNulls DEF PlanInsert, Inv, Bound
    <3>2. pc'[a] = "done"
      BY <2>5, ReturnMoves DEF PlanInsert, Inv, Moves
    <3>3. \A b \in Requests : pc'[b] # "insert_plan"
      BY <2>1, <3>1, <3>2 DEF PlanFirst, OthersStay
    <3> QED
      BY <3>1, <3>3 DEF PlanFirst
  <2>6. CASE plan = NoPlan /\ CutShort(a)
    <3>1. UNCHANGED <<plan, cron, issued, finished>>
      BY <2>6 DEF CutShort, planVars, runVars
    <3>2. pc'[a] = "done" /\ job'[a].op = "none"
      BY <2>6, FailureMoves, BlankLocals DEF Moves
    <3> QED
      BY <2>1, <2>6, <3>1, <3>2 DEF PlanFirst, OthersStay
  <2> QED
    BY <1>2, <2>3, <2>4, <2>5, <2>6, BeforePlan
<1> QED
  BY <1>1, <1>2 DEF Next

\* A run keeps at least as many copies as the lowest count in force, whatever
\* the plan it was started with has become.
CopiesKept ==
    /\ Stored(plan) => plan.copies >= least
    /\ \A a \in Requests : job[a].op = "run" => job[a].plan.copies >= least

\* Who is making a run: the one that was, or a new one.
LEMMA RunnersStay ==
  ASSUME Inv, NEW a \in Requests, Call(a) \/ Step(a) \/ HandledFailure(a) \/ CutShort(a),
         job'[a].op = "run"
  PROVE  \/ job[a].op = "run" /\ job'[a].plan = job[a].plan
         \/ RunStart(a) /\ job'[a].plan = plan
<1>0. Blank.op # "run" /\ job[a] \in Locals
  BY BlankLocals, AtPlace DEF Inv
<1>1. ASSUME Call(a), ~RunStart(a)
      PROVE  job'[a].op # "run"
  <2>1. ASSUME NEW c \in Copies, PlanCreateCron(a, c)
        PROVE  job'[a].op # "run"
    BY <2>1, CreateMoves DEF Moves
  <2>2. ASSUME NEW op \in Ops, NEW c \in Copies, PlanCall(a, op, c)
        PROVE  job'[a].op # "run"
    BY <2>2, PlanCallMoves DEF Moves
  <2>3. ASSUME NEW r \in RunIds, DeleteRun(a, r)
        PROVE  job'[a].op # "run"
    BY <2>3, DeleteRunMoves DEF Moves
  <2>4. ASSUME NEW r \in RunIds, NEW op, NEW overwrite, NEW sites,
               VerifyCall(a, r, op, overwrite, sites)
        PROVE  job'[a].op # "run"
    <3>1. /\ op \in {"verify", "restore"}
          /\ job' = [job EXCEPT ![a] = [Blank EXCEPT !.op = op, !.run = r,
                                           !.overwrite = overwrite, !.sites = sites]]
      BY <2>4 DEF VerifyCall
    <3>2. job'[a].op = op
      BY <3>1 DEF Inv, ActorInv, Blank
    <3> QED
      BY <3>1, <3>2
  <2> QED
    BY <1>1, <2>1, <2>2, <2>3, <2>4 DEF Call
<1>2. RunStart(a) => job'[a].plan = plan
  BY RunStartMoves DEF Moves
<1>3. CASE PlanStep(a)
  BY <1>0, <1>3, PlanStepMoves DEF Moves
<1>4. CASE RunStep(a)
  <2>1. CASE RunInsert(a) \/ Finalize(a) \/ RunComplete(a) \/ Discard(a) \/ RunFail(a)
    BY <1>0, <2>1, MakingMoves DEF Moves
  <2>2. CASE Capture(a)
    BY <1>0, <2>2, CaptureMoves DEF Moves
  <2>3. CASE Retention(a) \/ Prune(a)
    <3>1. job[a].op = "run"
      BY <2>3, AtPlace DEF Inv, Bound, Retention, Prune
    <3> QED
      BY <1>0, <2>3, <3>1, RetentionMoves, PruneMoves DEF Moves
  <2>4. CASE RemoveFiles(a) \/ DeleteRow(a)
    BY <1>0, <2>4, RemovalMoves DEF Moves
  <2> QED
    BY <1>4, <2>1, <2>2, <2>3, <2>4 DEF RunStep
<1>5. CASE RestoreStep(a)
  BY <1>0, <1>5, RestoreMoves DEF Moves
<1>6. CASE HandledFailure(a) \/ CutShort(a)
  BY <1>0, <1>6, FailureMoves DEF Moves
<1> QED
  BY <1>1, <1>2, <1>3, <1>4, <1>5, <1>6 DEF Step

\* The lowest count goes down, but for the one that create_plan sets.
LEMMA LeastFalls ==
  ASSUME Inv, [Next]_vars
  PROVE  /\ least \in Nat /\ least' \in Nat
         /\ least' <= least \/ \E a \in Requests : PlanInsert(a)
<1>1. least \in Nat /\ least' \in Nat /\ Copies \subseteq Nat
  <2>1. least \in Copies \cup {0} /\ least' \in Copies \cup {0}
    BY PlanTypesStep DEF Inv, PlanTypes
  <2> QED
    BY <2>1, BackupAssumption
<1>2. ASSUME NEW a \in Requests, PlanStep(a), ~PlanInsert(a)
      PROVE  least' <= least
  <2>1. CASE PlanSave(a)
    <3>1. job[a].plan.copies \in Nat
      BY <1>1, <2>1, AtPlace DEF PlanSave, Inv, Bound, PlanRows
    <3> QED
      BY <1>1, <2>1, <3>1 DEF PlanSave, Least
  <2>2. CASE PlanCron(a) \/ PlanDelete(a)
    BY <1>1, <2>2 DEF PlanCron, PlanDelete
  <2> QED
    BY <1>2, <2>1, <2>2 DEF PlanStep
<1>3. ASSUME NEW a \in Requests, NEW c \in Copies, PlanCreateCron(a, c)
      PROVE  least' <= least
  BY <1>1, <1>3 DEF PlanCreateCron
<1>4. UNCHANGED planVars => least' <= least
  BY <1>1 DEF planVars
<1> QED
  BY <1>1, <1>2, <1>3, <1>4, PlanFrame

\* Every step keeps the counts above the lowest.
LEMMA CopiesStep ==
  ASSUME Inv, RunsOwned, PlanFirst, CopiesKept, [Next]_vars
  PROVE  CopiesKept'
<1>1. least \in Nat /\ least' \in Nat
  BY LeastFalls
<1>2. \A p \in PlanRows : p.copies \in Nat
  BY BackupAssumption DEF PlanRows
<1>3. ASSUME Stored(plan')
      PROVE  plan'.copies >= least'
  <2>1. CASE UNCHANGED planVars
    BY <1>3, <2>1 DEF planVars, CopiesKept
  <2>2. ASSUME NEW a \in Requests, NEW c \in Copies, PlanCreateCron(a, c)
        PROVE  plan'.copies >= least'
    BY <1>3, <2>2 DEF PlanCreateCron, CopiesKept
  <2>3. ASSUME NEW a \in Requests, PlanStep(a)
        PROVE  plan'.copies >= least'
    <3>1. pc[a] \in {"insert_plan", "save_plan"} => job[a].plan.copies \in Nat
      BY <1>2, AtPlace DEF Inv, Bound
    <3>2. CASE PlanInsert(a)
      BY <3>1, <3>2 DEF PlanInsert
    <3>3. CASE PlanSave(a)
      <4>1. least' = Least(least, job[a].plan.copies) /\ job[a].plan.copies \in Nat
        BY <3>1, <3>3 DEF PlanSave
      <4>2. plan' = plan \/ plan' = job[a].plan
        BY <3>3 DEF PlanSave, SavePlan
      <4>3. least' <= least /\ least' <= job[a].plan.copies
        BY <1>1, <4>1 DEF Least
      <4>4. CASE plan' = plan
        <5>1. plan \in PlanRows /\ plan.copies >= least
          BY <1>3, <4>4 DEF CopiesKept, Inv, PlanTypes, Stored
        <5> QED
          BY <1>1, <1>2, <4>3, <4>4, <5>1
      <4>5. CASE plan' = job[a].plan
        BY <1>1, <4>1, <4>3, <4>5
      <4> QED
        BY <4>2, <4>4, <4>5
    <3>4. CASE PlanCron(a)
      BY <1>3, <3>4 DEF PlanCron, CopiesKept
    <3>5. CASE PlanDelete(a)
      BY <1>3, <3>5 DEF PlanDelete, Stored
    <3> QED
      BY <2>3, <3>2, <3>3, <3>4, <3>5 DEF PlanStep
  <2> QED
    BY <2>1, <2>2, <2>3, PlanFrame
<1>4. ASSUME NEW b \in Requests, job'[b].op = "run"
      PROVE  job'[b].plan.copies >= least'
  <2>1. \/ job[b].op = "run" /\ job'[b].plan = job[b].plan
        \/ RunStart(b) /\ job'[b].plan = plan
    <3>1. CASE UNCHANGED job
      BY <1>4, <3>1
    <3>2. ASSUME NEW a \in Requests, Call(a) \/ Step(a) \/ HandledFailure(a) \/ CutShort(a)
          PROVE  \/ job[b].op = "run" /\ job'[b].plan = job[b].plan
                 \/ RunStart(b) /\ job'[b].plan = plan
      <4>1. CASE b # a
        BY <1>4, <3>2, <4>1, OneMoves DEF OthersStay
      <4>2. CASE b = a
        BY <1>4, <3>2, <4>2, RunnersStay
      <4> QED
        BY <4>1, <4>2
    <3> QED
      BY <3>1, <3>2 DEF Next, vars, Edit, Rot
  <2>2. CASE RunStart(b) /\ job'[b].plan = plan
    <3>1. Stored(plan) /\ least' = least
      BY <2>2 DEF RunStart, planVars
    <3> QED
      BY <2>2, <3>1 DEF CopiesKept
  <2>3. CASE job[b].op = "run" /\ job'[b].plan = job[b].plan
    <3>1. job[b].plan \in PlanRows /\ job[b].plan.copies >= least
      BY <2>3, AtPlace DEF Inv, Bound, CopiesKept
    <3>2. ASSUME NEW a \in Requests, PlanInsert(a)
          PROVE  FALSE
      BY <2>3, <3>2 DEF PlanInsert, PlanFirst
    <3>3. least' <= least
      BY <3>2, LeastFalls
    <3> QED
      BY <1>1, <1>2, <2>3, <3>1, <3>3
  <2> QED
    BY <2>1, <2>2, <2>3
<1> QED
  BY <1>3, <1>4 DEF CopiesKept
-----------------------------------------------------------------------------
(* Retention leaves enough *)

\* The completed runs that have their files, and those newer than a run.
Spared == {r \in Completed : Finalized(r)}
Newer(r) == {n \in Spared : n > r}

\* The runs that a call has on its list or is removing.
Marks(a) ==
    job[a].doomed \cup (IF pc[a] \in {"remove", "delete_row"} THEN {job[a].run} ELSE {})

\* A run that is removed, or is going to be.
Condemned(r) ==
    \/ r \in Completed /\ ~Finalized(r)
    \/ \E a \in Requests : r \in Marks(a)

\* Every run that is condemned has enough newer ones that have their files,
\* condemned or not: of those, the newest are not.
Enough ==
    ~dropped => /\ \A r \in RunIds : Condemned(r) => Cardinality(Newer(r)) >= least
                /\ Cardinality(Spared) >= Least(least, finished)

\* Sets of runs are finite, and a larger one has no fewer members.
LEMMA RunSets ==
  ASSUME NEW S \in SUBSET RunIds, NEW T \in SUBSET RunIds
  PROVE  /\ IsFiniteSet(S) /\ Cardinality(S) \in Nat
         /\ S \subseteq T => Cardinality(S) <= Cardinality(T)
<1>1. IsFiniteSet(RunIds)
  BY FS_Interval, BackupAssumption DEF RunIds
<1>2. IsFiniteSet(S) /\ IsFiniteSet(T)
  BY <1>1, FS_Subset
<1> QED
  BY <1>2, FS_CardinalityType, FS_Subset

\* Spared runs are runs.
LEMMA SparedRuns ==
  /\ Spared \in SUBSET RunIds /\ Spared' \in SUBSET RunIds
  /\ \A r \in RunIds : Newer(r) \in SUBSET RunIds /\ Newer(r)' \in SUBSET RunIds
BY DEF Spared, Newer, Completed

\* Lists shrink, but for the ones that apply_retention and delete_run make.
LEMMA MarksShrink ==
  ASSUME Inv, NEW a \in Requests, Call(a) \/ Step(a) \/ HandledFailure(a) \/ CutShort(a),
         ~Retention(a), \A r \in RunIds : ~DeleteRun(a, r)
  PROVE  OthersStay(a) /\ Marks(a)' \subseteq Marks(a)
<1>0. OthersStay(a)
  BY OneMoves
<1>1. CASE Call(a)
  <2> DEFINE New == job'[a].doomed = {} /\ pc'[a] \notin {"remove", "delete_row"}
  <2>2. ASSUME NEW c \in Copies, PlanCreateCron(a, c)
        PROVE  New
    BY <2>2, CreateMoves DEF Moves
  <2>3. ASSUME NEW op \in Ops, NEW c \in Copies, PlanCall(a, op, c)
        PROVE  New
    BY <2>3, PlanCallMoves DEF Moves
  <2>4. RunStart(a) => New
    BY RunStartMoves DEF Moves
  <2>5. ASSUME NEW r \in RunIds, NEW op, NEW overwrite, NEW sites,
               VerifyCall(a, r, op, overwrite, sites)
        PROVE  New
    <3>1. /\ pc' = [pc EXCEPT ![a] = "check"]
          /\ job' = [job EXCEPT ![a] = [Blank EXCEPT !.op = op, !.run = r,
                                           !.overwrite = overwrite, !.sites = sites]]
      BY <2>5 DEF VerifyCall, Goto
    <3>2. job'[a].doomed = {} /\ pc'[a] = "check"
      BY <3>1 DEF Inv, ActorInv, Blank
    <3> QED
      BY <3>2
  <2> HIDE DEF New
  <2>6. New
    BY <1>1, <2>2, <2>3, <2>4, <2>5 DEF Call
  <2> QED
    BY <1>0, <2>6 DEF New, Marks
<1>2. Moves(a, "done", Blank) => Marks(a)' \subseteq Marks(a)
  BY BlankLocals DEF Moves, Marks
<1>3. ASSUME job'[a].doomed = job[a].doomed, pc'[a] \notin {"remove", "delete_row"}
      PROVE  Marks(a)' \subseteq Marks(a)
  BY <1>3 DEF Marks
<1>4. CASE PlanStep(a)
  BY <1>2, <1>3, <1>4, PlanStepMoves DEF Moves
<1>5. CASE RunStep(a)
  <2>1. CASE RunInsert(a) \/ Finalize(a) \/ RunComplete(a) \/ Discard(a) \/ RunFail(a)
    BY <1>2, <1>3, <2>1, MakingMoves DEF Moves
  <2>2. CASE Capture(a)
    BY <1>3, <2>2, CaptureMoves DEF Moves
  <2>3. CASE Prune(a)
    <3>1. CASE ~Moves(a, "done", Blank)
      <4>1. PICK j \in Locals, r \in job[a].doomed :
               Moves(a, "remove", j) /\ j.run = r /\ j.doomed = job[a].doomed \ {r}
        BY <2>3, <3>1, PruneMoves
      <4> QED
        BY <4>1 DEF Moves, Marks
    <3> QED
      BY <1>0, <1>2, <3>1
  <2>4. CASE RemoveFiles(a)
    BY <2>4, RemovalMoves DEF Moves, Marks, RemoveFiles
  <2>5. CASE DeleteRow(a)
    BY <1>2, <1>3, <2>5, RemovalMoves DEF Moves
  <2> QED
    BY <1>5, <2>1, <2>2, <2>3, <2>4, <2>5 DEF RunStep
<1>6. CASE RestoreStep(a)
  BY <1>2, <1>3, <1>6, RestoreMoves DEF Moves
<1>7. CASE HandledFailure(a) \/ CutShort(a)
  BY <1>2, <1>3, <1>7, FailureMoves DEF Moves
<1> QED
  BY <1>0, <1>1, <1>4, <1>5, <1>6, <1>7 DEF Step

\* A run is condemned by its own files or by a list.
LEMMA CondemnedFrame ==
  ASSUME NEW a \in Requests, OthersStay(a), NEW r, Condemned(r)'
  PROVE  \/ r \in Completed' /\ ~Finalized(r)'
         \/ r \in Marks(a)'
         \/ Condemned(r)
<1>1. \A b \in Requests \ {a} : Marks(b)' = Marks(b)
  BY DEF OthersStay, Marks
<1> QED
  BY <1>1 DEF Condemned

\* The lower of two numbers.
LEMMA LeastFacts ==
  ASSUME NEW m \in Nat, NEW n \in Nat
  PROVE  /\ Least(m, n) \in Nat /\ Least(m, n) <= m /\ Least(m, n) <= n
         /\ Least(m, n + 1) <= Least(m, n) + 1
         /\ \A k \in Nat : k <= m => Least(k, n) <= Least(m, n)
BY DEF Least

\* A step that leaves the spared runs and condemns only what has enough newer ones.
LEMMA EnoughStays ==
  ASSUME Inv, Enough, Spared' = Spared, finished' = finished,
         ~dropped' => ~dropped, least \in Nat, least' \in Nat, least' <= least,
         \A r \in RunIds : Condemned(r)' => Condemned(r) \/ Cardinality(Newer(r)) >= least
  PROVE  Enough'
<1> SUFFICES ASSUME ~dropped'
             PROVE  /\ \A r \in RunIds : Condemned(r)' => Cardinality(Newer(r)') >= least'
                    /\ Cardinality(Spared') >= Least(least', finished')
  BY DEF Enough
<1>1. ~dropped /\ finished \in Nat
  BY DEF Inv, RunTypes
<1>2. \A r \in RunIds : Newer(r)' = Newer(r) /\ Cardinality(Newer(r)) \in Nat
  BY SparedRuns, RunSets DEF Newer
<1>3. \A r \in RunIds : Condemned(r)' => Cardinality(Newer(r)) >= least
  BY <1>1 DEF Enough
<1>4. Least(least', finished) <= Least(least, finished) /\ Least(least, finished) \in Nat
      /\ Least(least', finished) \in Nat
  BY <1>1, LeastFacts
<1>5. Cardinality(Spared) \in Nat /\ Cardinality(Spared) >= Least(least, finished)
  BY <1>1, SparedRuns, RunSets DEF Enough
<1>6. Cardinality(Spared') >= Least(least', finished')
  BY <1>4, <1>5
<1>7. \A r \in RunIds : Condemned(r)' => Cardinality(Newer(r)') >= least'
  BY <1>2, <1>3
<1> QED
  BY <1>6, <1>7

\* A step that takes a condemned run.
LEMMA EnoughAfterRemoval ==
  ASSUME Inv, Enough, NEW q \in RunIds, Condemned(q), Spared \ {q} \subseteq Spared',
         finished' = finished, dropped' = dropped, least' = least, least \in Nat,
         \A r \in RunIds : Condemned(r)' => Condemned(r)
  PROVE  Enough'
<1> SUFFICES ASSUME ~dropped
             PROVE  /\ \A r \in RunIds : Condemned(r)' => Cardinality(Newer(r)') >= least
                    /\ Cardinality(Spared') >= Least(least, finished)
  BY DEF Enough
<1>0. \A r \in RunIds : r \in Nat
  BY BackupAssumption DEF RunIds
<1>1. Cardinality(Newer(q)) >= least /\ Cardinality(Newer(q)) \in Nat
  BY SparedRuns, RunSets DEF Enough
<1>2. Newer(q) \subseteq Spared'
  BY <1>0, SparedRuns DEF Newer
<1>3. Cardinality(Spared') >= Least(least, finished)
  <2>1. Cardinality(Newer(q)) <= Cardinality(Spared') /\ Cardinality(Spared') \in Nat
    BY <1>2, SparedRuns, RunSets
  <2>2. Least(least, finished) <= least /\ Least(least, finished) \in Nat
    BY LeastFacts DEF Inv, RunTypes
  <2> QED
    BY <1>1, <2>1, <2>2
<1>4. ASSUME NEW r \in RunIds, Condemned(r)'
      PROVE  Cardinality(Newer(r)') >= least
  <2>0. /\ Newer(r) \in SUBSET RunIds /\ Newer(r)' \in SUBSET RunIds
        /\ Newer(q) \in SUBSET RunIds
    BY SparedRuns
  <2>1. Cardinality(Newer(r)) >= least /\ Cardinality(Newer(r)) \in Nat
        /\ Cardinality(Newer(r)') \in Nat
    BY <1>4, <2>0, RunSets DEF Enough
  <2>2. CASE q > r
    <3>1. Newer(q) \subseteq Newer(r)'
      BY <1>0, <1>2, <2>2, SparedRuns DEF Newer
    <3>2. Cardinality(Newer(q)) <= Cardinality(Newer(r)')
      BY <2>0, <3>1, RunSets
    <3> QED
      BY <1>1, <2>1, <3>2
  <2>3. CASE ~(q > r)
    <3>1. Newer(r) \subseteq Newer(r)'
      BY <1>0, <2>3, SparedRuns DEF Newer
    <3>2. Cardinality(Newer(r)) <= Cardinality(Newer(r)')
      BY <2>0, <3>1, RunSets
    <3> QED
      BY <2>1, <3>2
  <2> QED
    BY <2>2, <2>3
<1> QED
  BY <1>3, <1>4
\* Rows and directories that stay the same for completed runs.
LEMMA SparedFrame ==
  ASSUME \A r \in RunIds : /\ rows'[r] = "completed" <=> rows[r] = "completed"
                           /\ rows[r] = "completed" => (Finalized(r)' <=> Finalized(r))
  PROVE  /\ Spared' = Spared
         /\ \A r \in RunIds : r \in Completed' /\ ~Finalized(r)' => Condemned(r)
BY DEF Spared, Completed, Condemned

\* A call that goes on with shorter lists.
LEMMA EnoughQuiet ==
  ASSUME Inv, Enough, [Next]_vars, NEW a \in Requests,
         Call(a) \/ Step(a) \/ HandledFailure(a) \/ CutShort(a),
         ~Retention(a), \A r \in RunIds : ~DeleteRun(a, r), ~PlanInsert(a),
         UNCHANGED <<finished, dropped>>,
         \A r \in RunIds : /\ rows'[r] = "completed" <=> rows[r] = "completed"
                           /\ rows[r] = "completed" => (Finalized(r)' <=> Finalized(r))
  PROVE  Enough'
<1>1. OthersStay(a) /\ Marks(a)' \subseteq Marks(a)
  BY MarksShrink
<1>2. /\ Spared' = Spared
      /\ \A r \in RunIds : r \in Completed' /\ ~Finalized(r)' => Condemned(r)
  BY SparedFrame
<1>3. \A r \in RunIds : Condemned(r)' => Condemned(r)
  BY <1>1, <1>2, CondemnedFrame DEF Condemned
<1>4. least \in Nat /\ least' \in Nat /\ least' <= least
  <2>1. ASSUME NEW b \in Requests, PlanInsert(b)
        PROVE  FALSE
    <3>1. pc[b] = "insert_plan" /\ pc'[b] = "done"
      BY <2>1, ReturnMoves DEF PlanInsert, Inv, Moves
    <3> QED
      BY <1>1, <2>1, <3>1 DEF OthersStay
  <2> QED
    BY <2>1, LeastFalls
<1> QED
  BY <1>2, <1>3, <1>4, EnoughStays

\* Only a call that has a run on its list takes its files or its row.
LEMMA EnoughRemoved ==
  ASSUME Inv, Enough, NEW a \in Requests, RemoveFiles(a) \/ DeleteRow(a), [Next]_vars
  PROVE  Enough'
<1> DEFINE q == job[a].run
<1>1. Touches(a) /\ Refers(a) /\ pc[a] \in {"remove", "delete_row"} /\ UNCHANGED <<finished, dropped>>
  BY RemoveEffect, DeleteRowEffect
<1>2. q \in RunIds /\ Condemned(q)
  BY <1>1, RunOf DEF Condemned, Marks
<1>3. OthersStay(a) /\ Marks(a)' \subseteq Marks(a)
  <2>1. ~Retention(a) /\ \A r \in RunIds : ~DeleteRun(a, r)
    BY <1>1 DEF Retention, DeleteRun
  <2> QED
    BY <2>1, MarksShrink DEF Step, RunStep
<1>4. \A r \in RunIds \ {q} : (r \in Completed' <=> r \in Completed) /\ (Finalized(r)' <=> Finalized(r))
  BY <1>1 DEF Touches, Completed, Finalized
<1>5. Spared \ {q} \subseteq Spared'
  BY <1>4 DEF Spared, Completed
<1>6. \A r \in RunIds : Condemned(r)' => Condemned(r)
  BY <1>2, <1>3, <1>4, CondemnedFrame DEF Condemned
<1>7. least \in Nat /\ least' = least
  BY LeastFalls DEF RemoveFiles, DeleteRow, planVars
<1> QED
  BY <1>1, <1>2, <1>5, <1>6, <1>7, EnoughAfterRemoval

\* A run more.
LEMMA EnoughCompleted ==
  ASSUME Inv, RunsOwned, Enough, NEW a \in Requests, RunComplete(a), [Next]_vars
  PROVE  Enough'
<1>0. /\ Touches(a) /\ Owns(a) /\ pc[a] = "complete" /\ UNCHANGED <<dirs, dropped>>
      /\ rows'[job[a].run] = "completed" /\ finished' = finished + 1
  BY CompleteEffect
<1>1. PICK q \in RunIds : q = job[a].run /\ rows'[q] = "completed"
  BY <1>0, RunOf
<1>2. Full(q) /\ rows[q] = "running"
  BY <1>0, <1>1 DEF RunsOwned, Owned
<1>3. OthersStay(a) /\ Marks(a)' \subseteq Marks(a)
  <2>1. ~Retention(a) /\ \A r \in RunIds : ~DeleteRun(a, r)
    BY <1>0 DEF Retention, DeleteRun
  <2> QED
    BY <2>1, MarksShrink DEF Step, RunStep
<1>4. \A r \in RunIds \ {q} : r \in Completed' <=> r \in Completed
  BY <1>0, <1>1 DEF Touches, Completed
<1>5. \A r \in RunIds : Finalized(r)' <=> Finalized(r)
  BY <1>0 DEF Finalized
<1>6. Finalized(q)' /\ q \in Completed' /\ q \notin Spared
  BY <1>1, <1>2, <1>5 DEF Full, Completed, Spared
<1>7. Spared' = Spared \cup {q}
  BY <1>2, <1>4, <1>5, <1>6 DEF Spared, Completed
<1>8. \A r \in RunIds : Condemned(r)' => Condemned(r)
  BY <1>3, <1>4, <1>5, <1>6, CondemnedFrame DEF Condemned
<1>9. least \in Nat /\ least' = least /\ finished \in Nat
  BY LeastFalls DEF RunComplete, planVars, Inv, RunTypes
<1> SUFFICES ASSUME ~dropped
             PROVE  /\ \A r \in RunIds : Condemned(r)' => Cardinality(Newer(r)') >= least
                    /\ Cardinality(Spared') >= Least(least, finished + 1)
  BY <1>0, <1>9 DEF Enough
<1>10. \A r \in RunIds : Condemned(r)' => Cardinality(Newer(r)') >= least
  <2> SUFFICES ASSUME NEW r \in RunIds, Condemned(r)'
               PROVE  Cardinality(Newer(r)') >= least
    OBVIOUS
  <2>1. Newer(r) \in SUBSET RunIds /\ Newer(r)' \in SUBSET RunIds
    BY SparedRuns
  <2>2. Newer(r) \subseteq Newer(r)'
    BY <1>7 DEF Newer
  <2>3. /\ Cardinality(Newer(r)) <= Cardinality(Newer(r)')
        /\ Cardinality(Newer(r)) \in Nat /\ Cardinality(Newer(r)') \in Nat
    BY <2>1, <2>2, RunSets
  <2>4. Cardinality(Newer(r)) >= least
    BY <1>8 DEF Enough
  <2> QED
    BY <1>9, <2>3, <2>4
<1>11. Cardinality(Spared') >= Least(least, finished + 1)
  <2>1. IsFiniteSet(Spared) /\ Cardinality(Spared) \in Nat
    BY SparedRuns, RunSets
  <2>2. Cardinality(Spared') = Cardinality(Spared) + 1
    BY <1>6, <1>7, <2>1, FS_AddElement
  <2>3. Cardinality(Spared) >= Least(least, finished)
    BY DEF Enough
  <2>4. /\ Least(least, finished + 1) <= Least(least, finished) + 1
        /\ Least(least, finished) \in Nat /\ Least(least, finished + 1) \in Nat
    <3>1. finished + 1 \in Nat
      BY <1>9
    <3> QED
      BY <1>9, <3>1, LeastFacts
  <2> QED
    BY <2>1, <2>2, <2>3, <2>4
<1> QED
  BY <1>10, <1>11

\* apply_retention lists runs that have `copies` newer completed ones.  Either
\* these all have their files, or one of them is condemned itself and has
\* enough newer ones.
LEMMA EnoughListed ==
  ASSUME Inv, CopiesKept, Enough, NEW a \in Requests, Retention(a), [Next]_vars
  PROVE  Enough'
<1> DEFINE copies == job[a].plan.copies
<1>1. PICK j \in Locals : Moves(a, "prune", j) /\ j.doomed = Deletions(copies)
  BY RetentionMoves
<1>2. OthersStay(a) /\ Marks(a)' = Deletions(copies)
  BY <1>1 DEF Moves, Marks
<1>3. UNCHANGED <<rows, dirs, finished, dropped, least>>
  BY DEF Retention, runVars, planVars
<1>4. /\ Spared' = Spared
      /\ \A r \in RunIds : r \in Completed' /\ ~Finalized(r)' => Condemned(r)
  BY <1>3, SparedFrame DEF Finalized
<1>5. copies \in Nat /\ copies >= least /\ least \in Nat
  <2>1. job[a].op = "run" /\ job[a].plan \in PlanRows
    BY AtPlace DEF Inv, Bound, Retention
  <2> QED
    BY <2>1, BackupAssumption, LeastFalls DEF PlanRows, CopiesKept
<1>6. ASSUME NEW r \in RunIds, r \in Deletions(copies), ~dropped
      PROVE  Cardinality(Newer(r)) >= least
  <2> DEFINE later == {n \in Completed : n > r}
  <2>0. Newer(r) \in SUBSET RunIds /\ later \in SUBSET RunIds /\ \A n \in RunIds : n \in Nat
    BY SparedRuns, BackupAssumption DEF Completed, RunIds
  <2>1. Cardinality(later) >= copies /\ Cardinality(later) \in Nat
        /\ Cardinality(Newer(r)) \in Nat
    BY <1>6, <2>0, RunSets DEF Deletions
  <2>2. CASE later \subseteq Spared
    <3>1. later \subseteq Newer(r)
      BY <2>2 DEF Newer
    <3>2. Cardinality(later) <= Cardinality(Newer(r))
      BY <2>0, <3>1, RunSets
    <3> QED
      BY <1>5, <2>1, <3>2
  <2>3. CASE ~(later \subseteq Spared)
    <3>1. PICK y \in Completed : y > r /\ ~Finalized(y)
      BY <2>3 DEF Spared
    <3>2. y \in RunIds /\ Condemned(y)
      BY <3>1 DEF Completed, Condemned
    <3>3. Cardinality(Newer(y)) >= least
      BY <1>6, <3>2 DEF Enough
    <3>4. Newer(y) \subseteq Newer(r) /\ Newer(y) \in SUBSET RunIds
      BY <2>0, <3>1, <3>2, SparedRuns DEF Newer
    <3>5. Cardinality(Newer(y)) <= Cardinality(Newer(r)) /\ Cardinality(Newer(y)) \in Nat
      BY <2>0, <3>4, RunSets
    <3> QED
      BY <1>5, <2>1, <3>3, <3>5
  <2> QED
    BY <2>2, <2>3
<1>7. CASE dropped
  BY <1>3, <1>7 DEF Enough
<1>8. CASE ~dropped
  <2>1. \A r \in RunIds : Condemned(r)' => Condemned(r) \/ Cardinality(Newer(r)) >= least
    BY <1>2, <1>4, <1>6, <1>8, CondemnedFrame
  <2> QED
    BY <1>3, <1>4, <1>5, <2>1, EnoughStays
<1> QED
  BY <1>7, <1>8

\* The row of a new plan comes before there are any runs.
LEMMA EnoughInserted ==
  ASSUME Inv, RunsOwned, PlanFirst, NEW a \in Requests, PlanInsert(a), [Next]_vars
  PROVE  Enough'
<1>1. issued = 0 /\ finished = 0 /\ UNCHANGED <<rows, dirs, finished>>
  BY DEF PlanInsert, PlanFirst, runVars
<1>2. \A r \in RunIds : r > 0 /\ r \in Nat
  BY BackupAssumption DEF RunIds
<1>3. \A r \in RunIds : rows'[r] # "completed"
  BY <1>1, <1>2, BackupNulls DEF RunsOwned, States
<1>4. \A b \in Requests, r \in RunIds : r \notin Marks(b)
  <2>1. \A b \in Requests : Marks(b) \subseteq Chosen(b)
    BY DEF Marks, Chosen, Refers
  <2> QED
    BY <1>1, <1>2, <2>1 DEF RunsOwned
<1>5. OthersStay(a) /\ Marks(a)' \subseteq Marks(a)
  <2>1. ~Retention(a) /\ \A r \in RunIds : ~DeleteRun(a, r)
    BY DEF PlanInsert, Retention, DeleteRun
  <2> QED
    BY <2>1, MarksShrink DEF Step, PlanStep
<1>6. \A r \in RunIds : ~Condemned(r)
  <2>1. \A r \in RunIds : rows[r] # "completed"
    BY <1>1, <1>3
  <2> QED
    BY <1>4, <2>1 DEF Condemned, Completed
<1>7. \A r \in RunIds : ~Condemned(r)'
  BY <1>3, <1>4, <1>5, <1>6, CondemnedFrame DEF Completed
<1>8. Cardinality(Spared') \in Nat
  BY SparedRuns, RunSets
<1>9. Least(least', finished') \in Nat /\ Least(least', finished') <= 0
  <2>1. least' \in Nat /\ finished' = 0
    BY <1>1, LeastFalls
  <2> QED
    BY <2>1 DEF Least
<1>10. Cardinality(Spared') >= Least(least', finished')
  BY <1>8, <1>9
<1> QED
  BY <1>7, <1>10 DEF Enough

\* Every step leaves enough.
LEMMA EnoughStep ==
  ASSUME Inv, RunsOwned, PlanFirst, CopiesKept, Enough, [Next]_vars
  PROVE  Enough'
<1>1. CASE UNCHANGED vars \/ \E s \in Sites : Edit(s)
  <2>1. UNCHANGED <<rows, dirs, finished, dropped, least, pc, job>>
    BY <1>1 DEF vars, runVars, planVars, Edit
  <2> QED
    BY <2>1 DEF Enough, Condemned, Marks, Newer, Spared, Completed, Finalized
<1>2. ASSUME NEW q \in RunIds, Rot(q)
      PROVE  Enough'
  <2>1. UNCHANGED <<rows, finished, dropped, pc, job>> /\ \A r \in RunIds : SameDir(r)
    BY <1>2, RotEffect
  <2>2. \A r \in RunIds : Finalized(r)' <=> Finalized(r)
    BY <2>1 DEF SameDir, Finalized
  <2>3. /\ Spared' = Spared
        /\ \A r \in RunIds : r \in Completed' /\ ~Finalized(r)' => Condemned(r)
    BY <2>1, <2>2, SparedFrame
  <2>4. \A r \in RunIds : Condemned(r)' => Condemned(r)
    BY <2>1, <2>3 DEF Condemned, Marks
  <2>5. least \in Nat /\ least' = least
    BY <1>2, LeastFalls DEF Rot, planVars
  <2> QED
    BY <2>1, <2>3, <2>4, <2>5, EnoughStays
<1>3. ASSUME NEW a \in Requests, (\E r \in RunIds : DeleteRun(a, r)) \/ MarkCorrupt(a)
      PROVE  Enough'
  <2>1. dropped'
    BY <1>3 DEF DeleteRun, MarkCorrupt
  <2> QED
    BY <2>1 DEF Enough
<1>4. ASSUME NEW a \in Requests, Call(a), \A r \in RunIds : ~DeleteRun(a, r)
      PROVE  Enough'
  <2>1. UNCHANGED <<rows, dirs, finished, dropped>>
    BY <1>4 DEF Call, PlanCreateCron, PlanCall, RunStart, VerifyCall, runVars
  <2>2. ~Retention(a) /\ ~PlanInsert(a)
    BY <1>4, CallMoves DEF Retention, PlanInsert
  <2> QED
    BY <1>4, <2>1, <2>2, EnoughQuiet DEF Finalized
<1>5. ASSUME NEW a \in Requests, Step(a) \/ HandledFailure(a) \/ CutShort(a)
      PROVE  \A r \in RunIds : ~DeleteRun(a, r)
  BY <1>5, RestoreMoves
     DEF Step, PlanStep, PlanInsert, PlanCron, PlanSave, PlanDelete, RunStep, RunInsert, Capture,
         Finalize, RunComplete, Discard, RunFail, Retention, Prune, RemoveFiles, DeleteRow,
         Refers, HandledFailure, CutShort, DeleteRun
<1>6. ASSUME NEW a \in Requests, PlanStep(a), ~PlanInsert(a)
      PROVE  Enough'
  <2>1. UNCHANGED <<rows, dirs, finished, dropped>> /\ ~Retention(a)
    BY <1>6 DEF PlanStep, PlanCron, PlanSave, PlanDelete, Retention, runVars
  <2> QED
    BY <1>5, <1>6, <2>1, EnoughQuiet DEF Finalized, Step
<1>7. ASSUME NEW a \in Requests, Prune(a)
      PROVE  Enough'
  <2>1. UNCHANGED <<rows, dirs, finished, dropped>> /\ ~Retention(a) /\ ~PlanInsert(a)
    BY <1>7 DEF Prune, Retention, PlanInsert, runVars
  <2> QED
    BY <1>5, <1>7, <2>1, EnoughQuiet DEF Finalized, Step, RunStep
<1>8. ASSUME NEW a \in Requests, RestoreStep(a), ~MarkCorrupt(a)
      PROVE  Enough'
  <2>1. UNCHANGED <<rows, dirs, finished, dropped>>
    BY <1>8 DEF RestoreStep, VerifyAgain, VerifyFiles, Preview, Extract, Probe, Aside,
                Install, PutBack, Restored, runVars
  <2>2. ~Retention(a) /\ ~PlanInsert(a)
    BY <1>8, RestoreMoves DEF Refers, Retention, PlanInsert
  <2> QED
    BY <1>5, <1>8, <2>1, <2>2, EnoughQuiet DEF Finalized, Step
<1>9. ASSUME NEW a \in Requests, HandledFailure(a) \/ CutShort(a)
      PROVE  Enough'
  <2>1. UNCHANGED <<rows, dirs, finished, dropped>> /\ UNCHANGED planVars
    BY <1>9 DEF HandledFailure, CutShort, runVars
  <2>2. ~Retention(a)
    <3>1. pc'[a] \in {"discard", "put_back", "done"}
      BY <1>9, FailureMoves DEF Moves
    <3>2. Retention(a) => pc'[a] = "prune"
      BY RetentionMoves DEF Moves
    <3> QED
      BY <3>1, <3>2
  <2>3. ~PlanInsert(a)
    <3>1. PlanInsert(a) => plan' \in PlanRows /\ plan = NoPlan
      BY AtPlace DEF PlanInsert, PlanFirst, Inv, Bound
    <3> QED
      BY <2>1, <3>1, BackupNulls DEF planVars
  <2> QED
    BY <1>5, <1>9, <2>1, <2>2, <2>3, EnoughQuiet DEF Finalized
<1>10. ASSUME NEW a \in Requests,
              RunInsert(a) \/ Capture(a) \/ Finalize(a) \/ Discard(a) \/ RunFail(a)
       PROVE  Enough'
  <2>1. Touches(a) /\ Owns(a) /\ UNCHANGED <<finished, dropped>>
    BY <1>10, InsertEffect, CaptureEffect, FinalizeEffect, FailureEffect
  <2>2. rows'[job[a].run] \in {rows[job[a].run], "running", "failed"}
    BY <1>10, InsertEffect, CaptureEffect, FinalizeEffect, FailureEffect
  <2>3. rows[job[a].run] \in {NoRow, "running"} /\ job[a].run \in RunIds
    BY <2>1 DEF RunsOwned, Owned, Touches
  <2>4. rows'[job[a].run] # "completed" /\ rows[job[a].run] # "completed"
    BY <2>2, <2>3, BackupNulls DEF States
  <2>5. \A r \in RunIds : /\ rows'[r] = "completed" <=> rows[r] = "completed"
                          /\ rows[r] = "completed" => (Finalized(r)' <=> Finalized(r))
    BY <2>1, <2>4 DEF Touches, Finalized
  <2>6. ~Retention(a) /\ ~PlanInsert(a)
    BY <2>1 DEF Owns, Retention, PlanInsert
  <2> QED
    BY <1>5, <1>10, <2>1, <2>5, <2>6, EnoughQuiet DEF Step, RunStep
<1> QED
  BY <1>1, <1>2, <1>3, <1>4, <1>6, <1>7, <1>8, <1>9, <1>10,
     EnoughInserted, EnoughListed, EnoughCompleted, EnoughRemoved
     DEF Next, Step, PlanStep, RunStep, RestoreStep

\* At the start every run there is has its files, and nobody deletes.
LEMMA EnoughAtStart ==
  ASSUME Init
  PROVE  PlanFirst /\ CopiesKept /\ Enough
<1>1. /\ \A a \in Requests : pc[a] = "idle" /\ job[a] = Blank
      /\ rows = [r \in RunIds |-> IF r <= issued THEN "completed" ELSE NoRow]
      /\ finished = issued
  BY DEF Init
<1>2. /\ \/ plan = NoPlan /\ issued = 0 /\ least = 0
         \/ \E c \in Copies : plan = [enabled |-> TRUE, copies |-> c] /\ least = c /\ issued = Initial
  BY DEF Init
<1>3. issued \in Nat /\ issued <= MaxRuns /\ least \in Nat
  BY <1>2, BackupAssumption
<1>4. PlanFirst
  <2>1. plan = NoPlan => issued = 0
    <3>1. ASSUME NEW c \in Copies, plan = [enabled |-> TRUE, copies |-> c]
          PROVE  plan # NoPlan
      <4>1. plan \in PlanRows
        BY <3>1 DEF PlanRows
      <4> QED
        BY <4>1, BackupNulls
    <3> QED
      BY <1>2, <3>1
  <2> QED
    BY <1>1, <2>1, BlankLocals DEF PlanFirst
<1>5. CopiesKept
  <2>1. Stored(plan) => plan.copies >= least
    <3>1. ASSUME NEW c \in Copies, plan = [enabled |-> TRUE, copies |-> c], least = c
          PROVE  plan.copies >= least
      BY <1>3, <3>1
    <3> QED
      BY <1>2, <3>1 DEF Stored
  <2> QED
    BY <1>1, <2>1, BlankLocals DEF CopiesKept
<1>6. Completed = 1 .. issued
  <2>1. \A r \in RunIds : rows[r] = "completed" <=> r <= issued
    BY <1>1, BackupNulls DEF States
  <2> QED
    BY <1>3, <2>1, BackupAssumption DEF Completed, RunIds
<1>7. \A r \in Completed : Finalized(r)
  <2> DEFINE d == [at |-> "runs", intact |-> TRUE, holds |-> [s \in Sites |-> <<s, 0>>]]
  <2>1. d \in Archives /\ d.at = "runs"
    BY BackupAssumption DEF Archives, Contents
  <2>2. \A r \in Completed : dirs[r] = d
    <3>1. dirs = [r \in RunIds |-> IF r <= issued THEN d ELSE NoDir]
      BY DEF Init
    <3>2. \A r \in Completed : r \in RunIds /\ r <= issued
      BY <1>3, <1>6, BackupAssumption DEF RunIds
    <3> HIDE DEF d
    <3> QED
      BY <3>1, <3>2
  <2> HIDE DEF d
  <2> QED
    BY <2>1, <2>2, BackupNulls DEF Finalized
<1>8. Spared = 1 .. issued
  BY <1>6, <1>7 DEF Spared
<1>9. Cardinality(Spared) = issued
  BY <1>3, <1>8, FS_Interval
<1>10. Cardinality(Spared) >= Least(least, finished)
  BY <1>1, <1>3, <1>9, LeastFacts
<1>11. \A r \in RunIds : ~Condemned(r)
  <2>1. \A a \in Requests : Marks(a) = {}
    BY <1>1, BlankLocals DEF Marks
  <2> QED
    BY <1>7, <2>1 DEF Condemned
<1>12. Enough
  BY <1>10, <1>11 DEF Enough
<1> QED
  BY <1>4, <1>5, <1>12

\* Retentions of concurrent runs, each working through the list it made with
\* the plan as it was when its run started, some of them cut short between the
\* files and the row, never leave fewer completed runs with their files than
\* the lowest retention count in force, as long as nobody deletes runs or
\* finds one corrupt meanwhile.
THEOREM RetentionLeavesEnough == Spec => []RetentionSpares
<1>1. Init => PlanFirst /\ CopiesKept /\ Enough
  BY EnoughAtStart
<1>2. /\ Inv /\ RunsOwned /\ PlanFirst /\ CopiesKept /\ Enough /\ [Next]_vars
      => PlanFirst' /\ CopiesKept' /\ Enough'
  BY PlanFirstStep, CopiesStep, EnoughStep
<1>3. Enough => RetentionSpares
  BY DEF Enough, RetentionSpares, Spared
<1> QED
  BY <1>1, <1>2, <1>3, InvAlways, PTL DEF Spec
=============================================================================
