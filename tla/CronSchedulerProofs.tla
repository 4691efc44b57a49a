------------------------- MODULE CronSchedulerProofs -------------------------
(***************************************************************************)
(* Theorems about CronScheduler for every set of jobs, plans and calls and *)
(* every number of occurrences and failures.                               *)
(***************************************************************************)
EXTENDS CronScheduler, TLAPS

\* What an actor has read and begun, at each place of the code that uses it.
CallBound ==
    \A a \in Actors :
       /\ pc[a] \in {"write", "get", "look", "lease", "skip", "exec", "record"} => call[a] \in Calls
       /\ pc[a] \in {"write", "look", "lease", "skip", "exec", "record"} => copy[a] \in Rows
       /\ pc[a] = "write" => call[a].op \in {"update", "enable", "disable", "delete"}
       /\ Executing(a) => mine[a] \in Executions /\ mine[a].id \in DOMAIN runs

\* The run of an execution stands in the table, active and leased, until the
\* execution records its end or the job is deleted.
Leased(a) ==
    \/ rows[call[a].job] = Deleted /\ ~Known(mine[a].id)
    \/ /\ IsActive(mine[a].id) /\ rows[call[a].job] # Absent
       /\ runs[mine[a].id].job = call[a].job
       /\ runs[mine[a].id].lease = "held"

\* Executions have runs of their own; a quick one has its lease, and the tick
\* has not marked its run.
ExecInv ==
    /\ \A a, b \in Actors : a # b /\ Executing(a) /\ Executing(b) => mine[a].id # mine[b].id
    /\ \A a \in Actors : Executing(a) /\ Quick(a) => Leased(a) /\ mine[a].id \notin seen

\* A run the tick has marked is gone or past its lease, and the run of an
\* execution is active as long as its lease holds.
OutcomeInv ==
    /\ \A r \in seen : Known(r) => runs[r].lease = "expired"
    /\ \A a \in Actors :
          Executing(a) /\ Known(mine[a].id) /\ runs[mine[a].id].lease = "held" => IsActive(mine[a].id)

\* One for the run of j that the tick is about to begin.
Pending(j) ==
    IF pc[Scheduler] \in {"get", "look", "lease"} /\ call[Scheduler].job = j THEN 1 ELSE 0

\* What the tick has run of job j is covered by the occurrences it served and
\* those brought back; what an enabled row or a listed job waits for lies
\* beyond that.
Counted(j) ==
    /\ served[j] <= clock[j] /\ now[j] <= clock[j]
    /\ fired[j] + Pending(j) <= served[j] + restored[j]
    /\ Stored(j) /\ rows[j].enabled => fired[j] + Pending(j) < rows[j].next + restored[j]
    /\ j \in DOMAIN due => fired[j] + Pending(j) < due[j].next + restored[j] /\ due[j].next <= now[j]

OccurrencesCounted == \A j \in Jobs : Counted(j)

-----------------------------------------------------------------------------
(* Rows and runs *)

\* The scheduler and the calls are the actors.
LEMMA SchedulerActs == Scheduler \in Actors /\ Requests \subseteq Actors
BY DEF Actors

\* What the service makes of a row it has read is a row.
LEMMA RowChanges ==
  ASSUME NEW row \in Rows, NEW t \in Nat
  PROVE  /\ [row EXCEPT !.next = t + 1] \in Rows
         /\ row # Absent /\ row # Deleted /\ row # NoJob /\ row.plan \in Plans
         /\ row.next \in Nat /\ Again(row, t) \in Nat
         /\ \A p \in Plans, op \in AllOps : Edited(op, row, p, t) \in Rows
<1>1. [row EXCEPT !.next = t + 1] \in Rows /\ row.plan \in Plans /\ row.next \in Nat
  BY DEF Rows
<1>2. Again(row, t) \in Nat
  BY <1>1 DEF Again
<1>3. row # Absent /\ row # Deleted /\ row # NoJob
  BY CronNulls
<1>4. ASSUME NEW p \in Plans, NEW op \in AllOps
      PROVE  Edited(op, row, p, t) \in Rows
  <2>1. CASE op = "update"
    <3>1. Edited(op, row, p, t) = [row EXCEPT !.plan = p, !.next = t + 1]
      BY <2>1 DEF Edited
    <3>2. \A n \in Nat : [row EXCEPT !.plan = p, !.next = n] \in Rows
      BY DEF Rows
    <3>3. t + 1 \in Nat
      OBVIOUS
    <3> QED
      BY <3>1, <3>2, <3>3
  <2>2. CASE op = "enable"
    <3>1. Edited(op, row, p, t) = [row EXCEPT !.enabled = TRUE, !.next = t + 1]
      BY <2>2 DEF Edited
    <3>2. \A n \in Nat : [row EXCEPT !.enabled = TRUE, !.next = n] \in Rows
      BY DEF Rows
    <3>3. t + 1 \in Nat
      OBVIOUS
    <3> QED
      BY <3>1, <3>2, <3>3
  <2>3. CASE op = "disable"
    <3>1. Edited(op, row, p, t) = [row EXCEPT !.enabled = FALSE]
      BY <2>3 DEF Edited
    <3> QED
      BY <3>1 DEF Rows
  <2>4. CASE op \notin {"update", "enable", "disable"}
    BY <2>4 DEF Edited
  <2> QED
    BY <2>1, <2>2, <2>3, <2>4
<1> QED
  BY <1>1, <1>2, <1>3, <1>4

RunRows == Records \cup {NoRun}

\* INSERT adds one run and leaves the others.
LEMMA InsertRuns ==
  ASSUME runs \in Seq(RunRows), NEW j \in Jobs, NEW state \in ActiveStates \cup FinalStates,
         Insert(j, state)
  PROVE  /\ runs' \in Seq(RunRows)
         /\ Len(runs) + 1 \in Nat /\ Len(runs) + 1 \notin DOMAIN runs
         /\ DOMAIN runs' = DOMAIN runs \cup {Len(runs) + 1}
         /\ \A r \in DOMAIN runs : runs'[r] = runs[r]
         /\ runs'[Len(runs) + 1] = [job |-> j, state |-> state, lease |-> "held"]
<1> DEFINE rec == [job |-> j, state |-> state, lease |-> "held"]
<1>1. rec \in RunRows
  BY DEF Records, RunRows
<1>2. runs' = Append(runs, rec)
  BY DEF Insert
<1> HIDE DEF rec
<1>3. /\ runs' \in Seq(RunRows)
      /\ DOMAIN runs' = 1..Len(runs)+1 /\ DOMAIN runs = 1..Len(runs) /\ Len(runs) \in Nat
      /\ \A r \in 1..Len(runs) : runs'[r] = runs[r]
      /\ runs'[Len(runs) + 1] = rec
  BY ONLY runs \in Seq(RunRows), <1>1, <1>2
<1> QED
  BY <1>3 DEF rec

\* A function over the ids of the runs is a table of runs.
LEMMA MappedRuns ==
  ASSUME runs \in Seq(RunRows), NEW f \in [DOMAIN runs -> RunRows]
  PROVE  f \in Seq(RunRows) /\ DOMAIN f = DOMAIN runs
<1>1. DOMAIN runs = 1..Len(runs) /\ Len(runs) \in Nat
  OBVIOUS
<1>2. f \in [1..Len(runs) -> RunRows]
  BY <1>1
<1> QED
  BY ONLY <1>1, <1>2

\* UPDATE changes the state of one run, if it is there.
LEMMA UpdatedRuns ==
  ASSUME runs \in Seq(RunRows), NEW q \in DOMAIN runs, NEW state \in ActiveStates \cup FinalStates,
         UpdateRun(q, state)
  PROVE  /\ runs' \in Seq(RunRows) /\ DOMAIN runs' = DOMAIN runs
         /\ \A r \in DOMAIN runs \ {q} : runs'[r] = runs[r]
         /\ runs[q] = NoRun => runs'[q] = NoRun
         /\ runs[q] # NoRun => runs'[q] = [runs[q] EXCEPT !.state = state]
<1> DEFINE new == IF Known(q) THEN [runs[q] EXCEPT !.state = state] ELSE runs[q]
<1>1. runs \in [DOMAIN runs -> RunRows]
  OBVIOUS
<1>2. new \in RunRows
  <2>1. runs[q] \in RunRows
    BY <1>1
  <2> QED
    BY <2>1 DEF RunRows, Records, Known
<1>3. runs' = [runs EXCEPT ![q] = new]
  BY DEF UpdateRun
<1>4. new = IF runs[q] # NoRun THEN [runs[q] EXCEPT !.state = state] ELSE runs[q]
  BY DEF Known
<1> HIDE DEF new
<1>5. /\ [runs EXCEPT ![q] = new] \in [DOMAIN runs -> RunRows]
      /\ [runs EXCEPT ![q] = new][q] = new
      /\ \A r \in DOMAIN runs \ {q} : [runs EXCEPT ![q] = new][r] = runs[r]
  BY <1>1, <1>2
<1>6. runs' \in Seq(RunRows) /\ DOMAIN runs' = DOMAIN runs
  BY <1>3, <1>5, MappedRuns
<1> QED
  BY <1>3, <1>4, <1>5, <1>6

-----------------------------------------------------------------------------
(* Types *)

Places == {"idle", "write", "get", "look", "lease", "skip",
           "exec", "record", "recover", "each", "done"}

\* The variables of the actors have their types.
ActorTypes ==
    /\ pc \in [Actors -> Places]
    /\ call \in [Actors -> Calls \cup {NoJob}]
    /\ copy \in [Actors -> Rows \cup {NoJob}]
    /\ mine \in [Actors -> Executions \cup {NoRun}]

\* The other actors stay where they are.
OthersStay(a) ==
    \A b \in Actors \ {a} :
       pc'[b] = pc[b] /\ call'[b] = call[b] /\ copy'[b] = copy[b] /\ mine'[b] = mine[b]

\* The actor has returned, and holds nothing more.
Leaves(a) ==
    /\ ActorTypes' /\ OthersStay(a)
    /\ pc'[a] \in {"each", "idle", "done"}
    /\ seen' \subseteq seen /\ DOMAIN due' \subseteq DOMAIN due
    /\ \A j \in DOMAIN due' : due'[j] = due[j]
    /\ now' = now \/ (now' = Zero /\ DOMAIN due' = {})

\* An operation that returns, or is given up, leaves nothing behind.
LEMMA ReturnLeaves ==
  ASSUME ActorTypes, NEW a \in Actors, Return(a) \/ Abort(a)
  PROVE  Leaves(a)
<1>1. /\ pc' = [pc EXCEPT ![a] = pc'[a]] /\ pc'[a] \in {"each", "idle", "done"}
      /\ Forget(a)
  BY DEF Return, Abort, Goto, ActorTypes
<1>2. ActorTypes' /\ OthersStay(a)
  BY <1>1 DEF Forget, ActorTypes, OthersStay, Places
<1>3. \/ seen' = seen /\ due' = due /\ now' = now
      \/ seen' = {} /\ due' = <<>> /\ now' = Zero
  BY DEF Return, Abort, TickEnds, tickVars
<1>4. /\ DOMAIN due' \subseteq DOMAIN due /\ \A j \in DOMAIN due' : due'[j] = due[j]
      /\ now' = now \/ (now' = Zero /\ DOMAIN due' = {})
  <2>1. CASE due' = <<>>
    <3>1. DOMAIN due' = {}
      BY ONLY <2>1
    <3> QED
      BY <1>3, <3>1
  <2> QED
    BY <1>3, <2>1
<1> QED
  BY <1>1, <1>2, <1>3, <1>4 DEF Leaves

\* The rest of the state.
TableTypes ==
    /\ rows \in [Jobs -> Rows \cup {Absent, Deleted}]
    /\ runs \in Seq(RunRows)
    /\ seen \subseteq DOMAIN runs
    /\ DOMAIN due \subseteq Jobs /\ \A j \in DOMAIN due : due[j] \in Rows
    /\ clock \in [Jobs -> 0 .. MaxOccurrences] /\ now \in [Jobs -> 0 .. MaxOccurrences]
    /\ fired \in [Jobs -> Nat] /\ served \in [Jobs -> Nat] /\ restored \in [Jobs -> Nat]
    /\ failures \in 0 .. MaxFailures

\* The two halves of the types.
LEMMA TypeParts == TypeOK <=> ActorTypes /\ TableTypes
BY DEF TypeOK, ActorTypes, TableTypes, Places, RunRows, RunIds

\* The types, with what the place of an actor says of it.
Inv == ActorTypes /\ TableTypes /\ CallBound

\* A step that ends an operation and keeps the tables keeps the rest.
LEMMA LeavesInv ==
  ASSUME Inv, NEW a \in Actors, Leaves(a), DOMAIN runs \subseteq DOMAIN runs',
         rows' \in [Jobs -> Rows \cup {Absent, Deleted}], runs' \in Seq(RunRows),
         clock' = clock, served' = served, fired' \in [Jobs -> Nat], restored' \in [Jobs -> Nat],
         failures' \in 0 .. MaxFailures
  PROVE  Inv'
<1>1. TableTypes'
  <2>1. Zero \in [Jobs -> 0 .. MaxOccurrences]
    BY CronAssumption DEF Zero
  <2> QED
    BY <2>1 DEF Inv, Leaves, TableTypes
<1>2. CallBound'
  BY DEF Inv, Leaves, OthersStay, CallBound, Executing, ActorTypes
<1> QED
  BY <1>1, <1>2 DEF Inv, Leaves

\* One actor moves on and the tables keep their types.
LEMMA MovesInv ==
  ASSUME Inv, NEW a \in Actors, NEW l \in Places, ActorTypes', OthersStay(a), pc'[a] = l,
         DOMAIN runs \subseteq DOMAIN runs', TableTypes',
         l \in {"write", "get", "look", "lease", "skip", "exec", "record"} => call'[a] \in Calls,
         l \in {"write", "look", "lease", "skip", "exec", "record"} => copy'[a] \in Rows,
         l = "write" => call'[a].op \in {"update", "enable", "disable", "delete"},
         l \in {"exec", "record"} => mine'[a] \in Executions /\ mine'[a].id \in DOMAIN runs'
  PROVE  Inv'
BY DEF Inv, OthersStay, CallBound, Executing

\* Before the first call every table is empty but cron_jobs.
LEMMA InitInv == Init => Inv
<1> SUFFICES ASSUME Init PROVE Inv
  OBVIOUS
<1>1. /\ \A p \in Plans : NewRow(p, 0) \in Rows
      /\ Zero \in [Jobs -> 0 .. MaxOccurrences] /\ Zero \in [Jobs -> Nat]
  BY CronAssumption DEF NewRow, Rows, Zero
<1>2. ActorTypes
  BY DEF Init, ActorTypes, Places
<1>3. runs \in Seq(RunRows) /\ DOMAIN due = {}
  BY DEF Init
<1>4. TableTypes
  BY <1>1, <1>3, CronAssumption DEF Init, TableTypes
<1>5. CallBound
  BY DEF Init, CallBound, Executing
<1> QED
  BY <1>2, <1>4, <1>5 DEF Inv

\* Every step keeps the types and what the place of an actor says of it.
LEMMA NextInv == Inv /\ [Next]_vars => Inv'
<1> SUFFICES ASSUME Inv, [Next]_vars PROVE Inv'
  OBVIOUS
<1>0. /\ ActorTypes /\ TableTypes /\ CallBound /\ Scheduler \in Actors /\ Requests \subseteq Actors
      /\ \A j \in Jobs : clock[j] \in Nat /\ now[j] \in Nat /\ served[j] \in Nat
  BY SchedulerActs DEF Inv, TableTypes
<1>1. ASSUME NEW a \in Requests, NEW j \in Jobs, NEW p \in Plans, Create(a, j, p) PROVE Inv'
  <2>1. Leaves(a)
    BY <1>0, <1>1, ReturnLeaves DEF Create
  <2>2. rows' \in [Jobs -> Rows \cup {Absent, Deleted}]
    BY <1>0, <1>1 DEF Create, TableTypes, NewRow, Rows
  <2> QED
    BY <1>0, <1>1, <2>1, <2>2, LeavesInv DEF Create, TableTypes, history
<1>2. ASSUME NEW a \in Requests, NEW j \in Jobs, NEW p \in Plans, NEW op \in AllOps, Call(a, op, j, p)
      PROVE  Inv'
  <2> DEFINE l == IF op = "run" THEN "look" ELSE "write"
  <2>1. Edited(op, rows[j], p, clock[j]) \in Rows /\ [op |-> op, job |-> j] \in Calls
    BY <1>0, <1>2, RowChanges DEF Call, Stored, TableTypes, Calls
  <2>2. ActorTypes' /\ OthersStay(a) /\ pc'[a] = l
    BY <1>0, <1>2, <2>1 DEF Call, Goto, ActorTypes, OthersStay, Places
  <2>3. TableTypes' /\ UNCHANGED runs
    BY <1>0, <1>2 DEF Call, TableTypes, tickVars, history
  <2>4. call'[a] \in Calls /\ copy'[a] \in Rows /\ call'[a].op = op
    BY <1>0, <1>2, <2>1 DEF Call, ActorTypes
  <2>5. op # "run" => op \in {"update", "enable", "disable", "delete"}
    BY <1>2 DEF Call, AllOps
  <2> QED
    BY <1>0, <2>2, <2>3, <2>4, <2>5, MovesInv DEF Places
<1>3. ASSUME NEW a \in Requests, Write(a) PROVE Inv'
  <2>1. Leaves(a)
    BY <1>0, <1>3, ReturnLeaves DEF Write
  <2>2. call[a] \in Calls /\ copy[a] \in Rows /\ call[a].job \in Jobs
    BY <1>0, <1>3 DEF Write, CallBound, Calls
  <2>3. Save(call[a].job, copy[a]) /\ UNCHANGED <<runs, clock, fired, served, failures>>
    BY <1>3 DEF Write
  <2>4. rows' \in [Jobs -> Rows \cup {Absent, Deleted}]
    BY <1>0, <2>2, <2>3 DEF Save, TableTypes
  <2>5. Again(copy[a], served[call[a].job]) \in Nat
    BY <1>0, <2>2, RowChanges
  <2>6. restored' \in [Jobs -> Nat]
    BY <1>0, <1>3, <2>2, <2>5 DEF Write, TableTypes
  <2> QED
    BY <1>0, <2>1, <2>3, <2>4, <2>6, LeavesInv DEF TableTypes
<1>4. ASSUME NEW a \in Requests, Delete(a) PROVE Inv'
  <2> DEFINE f == [r \in RunIds |-> IF Known(r) /\ runs[r].job = call[a].job THEN NoRun ELSE runs[r]]
  <2>1. Leaves(a)
    BY <1>0, <1>4, ReturnLeaves DEF Delete
  <2>2. runs \in Seq(RunRows) /\ runs \in [DOMAIN runs -> RunRows]
    BY <1>0 DEF TableTypes
  <2>3. f \in [DOMAIN runs -> RunRows]
    BY <2>2 DEF RunIds, RunRows
  <2> HIDE DEF f
  <2>4. runs' \in Seq(RunRows) /\ DOMAIN runs' = DOMAIN runs
    <3>1. runs' = f
      BY <1>4 DEF Delete, f
    <3> QED
      BY <2>2, <2>3, <3>1, MappedRuns
  <2>5. rows' \in [Jobs -> Rows \cup {Absent, Deleted}]
    BY <1>0, <1>4 DEF Delete, TableTypes
  <2> QED
    BY <1>0, <1>4, <2>1, <2>4, <2>5, LeavesInv DEF Delete, TableTypes, history
<1>5. ASSUME NEW a \in Actors, RunLook(a) PROVE Inv'
  <2>1. ActorTypes' /\ OthersStay(a) /\ pc'[a] \in {"skip", "lease"}
    BY <1>0, <1>5 DEF RunLook, Goto, ActorTypes, OthersStay, Places
  <2>2. TableTypes' /\ UNCHANGED <<runs, call, copy>>
    BY <1>0, <1>5 DEF RunLook, TableTypes, tickVars, history
  <2>3. call[a] \in Calls /\ copy[a] \in Rows
    BY <1>0, <1>5 DEF RunLook, CallBound
  <2> QED
    BY <2>1, <2>2, <2>3, MovesInv DEF Places
<1>6. ASSUME NEW a \in Actors, RunLease(a) PROVE Inv'
  <2>1. call[a] \in Calls /\ copy[a] \in Rows /\ call[a].job \in Jobs
    BY <1>0, <1>6 DEF RunLease, CallBound, Calls
  <2>2. UNCHANGED <<rows, clock, served, restored, failures>>
    BY <1>6 DEF RunLease
  <2>3. CASE /\ Insert(call[a].job, "running")
             /\ mine' = [mine EXCEPT ![a] = [id |-> Len(runs) + 1, state |-> "running"]]
             /\ Goto(a, "exec")
             /\ fired' = [fired EXCEPT ![call[a].job] = IF a = Scheduler THEN @ + 1 ELSE @]
             /\ UNCHANGED <<call, copy, tickVars>>
    <3>1. /\ runs' \in Seq(RunRows) /\ Len(runs) + 1 \in Nat
          /\ DOMAIN runs' = DOMAIN runs \cup {Len(runs) + 1}
      BY <1>0, <2>1, <2>3, InsertRuns DEF TableTypes, ActiveStates
    <3>2. [id |-> Len(runs) + 1, state |-> "running"] \in Executions
      BY <3>1 DEF Executions, ActiveStates
    <3>3. /\ ActorTypes' /\ OthersStay(a) /\ pc'[a] = "exec"
          /\ mine'[a] = [id |-> Len(runs) + 1, state |-> "running"]
      BY <1>0, <2>3, <3>2 DEF Goto, ActorTypes, OthersStay, Places
    <3>4. fired' \in [Jobs -> Nat]
      BY <1>0, <2>1, <2>3 DEF TableTypes
    <3>5. TableTypes'
      BY <1>0, <2>2, <2>3, <3>1, <3>4 DEF TableTypes, tickVars
    <3>6. mine'[a] \in Executions /\ mine'[a].id \in DOMAIN runs'
      BY <3>1, <3>2, <3>3
    <3>7. call'[a] \in Calls /\ copy'[a] \in Rows /\ DOMAIN runs \subseteq DOMAIN runs'
      BY <2>1, <2>3, <3>1
    <3> QED
      BY <3>3, <3>5, <3>6, <3>7, MovesInv DEF Places
  <2>4. CASE Goto(a, "skip") /\ UNCHANGED <<runs, call, copy, mine, tickVars, fired>>
    <3>1. ActorTypes' /\ OthersStay(a) /\ pc'[a] = "skip"
      BY <1>0, <2>4 DEF Goto, ActorTypes, OthersStay, Places
    <3>2. TableTypes'
      BY <1>0, <2>2, <2>4 DEF TableTypes, tickVars
    <3> QED
      BY <2>1, <2>4, <3>1, <3>2, MovesInv DEF Places
  <2>5. CASE Abort(a) /\ UNCHANGED <<runs, fired>>
    BY <1>0, <2>2, <2>5, ReturnLeaves, LeavesInv DEF TableTypes
  <2> QED
    BY <1>6, <2>3, <2>4, <2>5 DEF RunLease
<1>7. ASSUME NEW a \in Actors, RunSkip(a) PROVE Inv'
  <2>1. Leaves(a)
    BY <1>0, <1>7, ReturnLeaves DEF RunSkip
  <2>2. call[a].job \in Jobs
    BY <1>0, <1>7 DEF RunSkip, CallBound, Calls
  <2>3. Insert(call[a].job, "skipped") \/ UNCHANGED runs
    BY <1>7 DEF RunSkip
  <2>4. runs' \in Seq(RunRows) /\ DOMAIN runs \subseteq DOMAIN runs'
    BY <1>0, <2>2, <2>3, InsertRuns DEF TableTypes, FinalStates
  <2> QED
    BY <1>0, <1>7, <2>1, <2>4, LeavesInv DEF RunSkip, TableTypes, history
<1>8. ASSUME NEW a \in Actors, RunExec(a) PROVE Inv'
  <2>1. mine[a] \in Executions /\ mine[a].id \in DOMAIN runs /\ call[a] \in Calls /\ copy[a] \in Rows
    BY <1>0, <1>8 DEF RunExec, CallBound, Executing
  <2>2. mine' = [mine EXCEPT ![a] = [mine[a] EXCEPT !.state = "ended"]]
    BY <1>8 DEF RunExec
  <2>3. [mine[a] EXCEPT !.state = "ended"] \in Executions
        /\ [mine[a] EXCEPT !.state = "ended"].id = mine[a].id
    BY <2>1 DEF Executions, FinalStates
  <2>4. ActorTypes' /\ OthersStay(a) /\ pc'[a] = "record"
    BY <1>0, <1>8, <2>2, <2>3 DEF RunExec, Goto, ActorTypes, OthersStay, Places
  <2>5. mine'[a] \in Executions /\ mine'[a].id \in DOMAIN runs
    BY <1>0, <2>1, <2>2, <2>3 DEF ActorTypes
  <2>6. TableTypes' /\ UNCHANGED <<runs, call, copy>>
    BY <1>0, <1>8 DEF RunExec, TableTypes, tickVars, history
  <2> QED
    BY <2>1, <2>4, <2>5, <2>6, MovesInv DEF Places
<1>9. ASSUME NEW a \in Actors, RunRecord(a) PROVE Inv'
  <2>1. mine[a].id \in DOMAIN runs /\ mine[a].state \in ActiveStates \cup FinalStates
    BY <1>0, <1>9 DEF RunRecord, CallBound, Executing, Executions
  <2>2. Leaves(a) /\ UpdateRun(mine[a].id, mine[a].state)
    BY <1>0, <1>9, ReturnLeaves DEF RunRecord
  <2>3. runs' \in Seq(RunRows) /\ DOMAIN runs' = DOMAIN runs
    BY <1>0, <2>1, <2>2, UpdatedRuns DEF TableTypes
  <2> QED
    BY <1>0, <1>9, <2>2, <2>3, LeavesInv DEF RunRecord, TableTypes, history
<1>10. CASE TickStart
  <2>1. ActorTypes' /\ OthersStay(Scheduler) /\ pc'[Scheduler] = "recover"
    BY <1>0, <1>10 DEF TickStart, Goto, ActorTypes, OthersStay, Places
  <2>2. TableTypes' /\ UNCHANGED runs
    BY <1>0, <1>10 DEF TickStart, TableTypes, RunIds, history
  <2> QED
    BY <1>0, <2>1, <2>2, MovesInv DEF Places
<1>11. ASSUME NEW r \in RunIds, TickRecover(r) PROVE Inv'
  <2>1. runs' \in Seq(RunRows) /\ DOMAIN runs' = DOMAIN runs
    BY <1>0, <1>11, UpdatedRuns DEF TickRecover, TableTypes, RunIds, FinalStates
  <2>2. ActorTypes' /\ TableTypes' /\ CallBound'
    BY <1>0, <1>11, <2>1 DEF TickRecover, ActorTypes, TableTypes, CallBound, Executing, history
  <2> QED
    BY <2>2 DEF Inv
<1>12. CASE TickList
  <2>1. ActorTypes' /\ OthersStay(Scheduler) /\ pc'[Scheduler] = "each"
    BY <1>0, <1>12 DEF TickList, Goto, ActorTypes, OthersStay, Places
  <2>2. DOMAIN due' \subseteq Jobs /\ \A j \in DOMAIN due' : due'[j] \in Rows
    BY <1>0, <1>12 DEF TickList, TableTypes, Stored
  <2>3. TableTypes' /\ UNCHANGED runs
    BY <1>0, <1>12, <2>2 DEF TickList, TableTypes, history
  <2> QED
    BY <1>0, <2>1, <2>3, MovesInv DEF Places
<1>13. ASSUME NEW j \in Jobs, TickAdvance(j) PROVE Inv'
  <2> DEFINE row == [due[j] EXCEPT !.next = now[j] + 1]
             run == [op |-> "run", job |-> j]
  <2>1. due[j] \in Rows
    BY <1>0, <1>13 DEF TickAdvance, TableTypes
  <2>2. row \in Rows /\ run \in Calls
    BY <1>0, <2>1, RowChanges DEF Calls, AllOps
  <2>3. /\ Save(j, row) /\ call' = [call EXCEPT ![Scheduler] = run] /\ Goto(Scheduler, "get")
        /\ UNCHANGED <<runs, copy, mine, seen, now, clock, fired, restored, failures>>
        /\ served' = [served EXCEPT ![j] = now[j]]
    BY <1>13 DEF TickAdvance
  <2> HIDE DEF row, run
  <2>4. ActorTypes' /\ OthersStay(Scheduler) /\ pc'[Scheduler] = "get" /\ call'[Scheduler] \in Calls
    BY <1>0, <2>2, <2>3 DEF Goto, ActorTypes, OthersStay, Places
  <2>5. rows' \in [Jobs -> Rows \cup {Absent, Deleted}]
    BY <1>0, <2>2, <2>3 DEF Save, TableTypes
  <2>6. DOMAIN due' \subseteq Jobs /\ \A i \in DOMAIN due' : due'[i] \in Rows
    BY <1>0, <1>13 DEF TickAdvance, Without, TableTypes
  <2>7. TableTypes'
    BY <1>0, <2>3, <2>5, <2>6 DEF TableTypes
  <2> QED
    BY <1>0, <2>3, <2>4, <2>7, MovesInv DEF Places
<1>14. CASE TickGet
  <2>1. call[Scheduler] \in Calls /\ call[Scheduler].job \in Jobs
    BY <1>0, <1>14 DEF TickGet, CallBound, Calls
  <2>2. UNCHANGED <<rows, runs, clock, fired, served, restored, failures>>
    BY <1>14 DEF TickGet, history
  <2>3. CASE /\ Stored(call[Scheduler].job)
             /\ copy' = [copy EXCEPT ![Scheduler] = rows[call[Scheduler].job]]
             /\ Goto(Scheduler, "look")
             /\ UNCHANGED <<call, mine, tickVars>>
    <3>1. rows[call[Scheduler].job] \in Rows
      BY <1>0, <2>1, <2>3 DEF Stored, TableTypes
    <3>2. /\ ActorTypes' /\ OthersStay(Scheduler) /\ pc'[Scheduler] = "look"
          /\ copy'[Scheduler] \in Rows
      BY <1>0, <2>3, <3>1 DEF Goto, ActorTypes, OthersStay, Places
    <3>3. TableTypes'
      BY <1>0, <2>2, <2>3 DEF TableTypes, tickVars
    <3> QED
      BY <1>0, <2>1, <2>2, <2>3, <3>2, <3>3, MovesInv DEF Places
  <2>4. CASE Abort(Scheduler)
    BY <1>0, <2>2, <2>4, ReturnLeaves, LeavesInv DEF TableTypes
  <2> QED
    BY <1>14, <2>3, <2>4 DEF TickGet
<1>15. CASE TickPrune
  <2>1. PICK newest \in 0 .. Len(runs) :
           runs' = [r \in RunIds |-> IF r <= newest /\ ~IsActive(r) THEN NoRun ELSE runs[r]]
    BY <1>15 DEF TickPrune
  <2>2. runs \in Seq(RunRows) /\ runs \in [DOMAIN runs -> RunRows]
    BY <1>0 DEF TableTypes
  <2>3. runs' \in [DOMAIN runs -> RunRows]
    BY <2>1, <2>2 DEF RunIds, RunRows
  <2>4. runs' \in Seq(RunRows) /\ DOMAIN runs' = DOMAIN runs
    BY <2>2, <2>3, MappedRuns
  <2>5. ActorTypes' /\ OthersStay(Scheduler) /\ pc'[Scheduler] = "idle"
    BY <1>0, <1>15 DEF TickPrune, Goto, ActorTypes, OthersStay, Places
  <2>6. seen' = {} /\ due' = <<>> /\ now' = Zero /\ UNCHANGED <<rows, clock, history, failures>>
    BY <1>15 DEF TickPrune, TickEnds
  <2>7. DOMAIN due' = {} /\ now' \in [Jobs -> 0 .. MaxOccurrences]
    <3>1. DOMAIN due' = {}
      BY ONLY <2>6
    <3> QED
      BY <2>6, <3>1, CronAssumption DEF Zero
  <2>8. TableTypes'
    BY <1>0, <2>4, <2>6, <2>7 DEF TableTypes, history
  <2> QED
    BY <1>0, <2>4, <2>5, <2>8, MovesInv DEF Places
<1>16. ASSUME NEW a \in Actors, Fail(a) PROVE Inv'
  <2>1. Leaves(a)
    BY <1>0, <1>16, ReturnLeaves DEF Fail
  <2>2. failures' \in 0 .. MaxFailures
    BY <1>0, <1>16, CronAssumption DEF Fail, TableTypes
  <2> QED
    BY <1>0, <1>16, <2>1, <2>2, LeavesInv DEF Fail, TableTypes, history
<1>17. ASSUME NEW j \in Jobs, Occurs(j) PROVE Inv'
  <2>1. clock' \in [Jobs -> 0 .. MaxOccurrences]
    BY <1>0, <1>17, CronAssumption DEF Occurs, TableTypes
  <2>2. ActorTypes' /\ TableTypes' /\ CallBound'
    BY <1>0, <1>17, <2>1 DEF Occurs, ActorTypes, TableTypes, CallBound, Executing, tickVars, history
  <2> QED
    BY <2>2 DEF Inv
<1>18. ASSUME NEW r \in RunIds, LeaseExpires(r) PROVE Inv'
  <2> DEFINE rec == [runs[r] EXCEPT !.lease = "expired"]
  <2>1. runs \in Seq(RunRows) /\ runs \in [DOMAIN runs -> RunRows] /\ r \in DOMAIN runs
    BY <1>0 DEF TableTypes, RunIds
  <2>2. runs[r] \in Records
    BY <1>18, <2>1 DEF LeaseExpires, IsActive, Known, RunRows
  <2>3. rec \in RunRows
    BY <2>2 DEF Records, RunRows
  <2>4. runs' = [runs EXCEPT ![r] = rec]
    BY <1>18 DEF LeaseExpires
  <2> HIDE DEF rec
  <2>5. runs' \in [DOMAIN runs -> RunRows]
    BY <2>1, <2>3, <2>4
  <2>6. runs' \in Seq(RunRows) /\ DOMAIN runs' = DOMAIN runs
    BY <2>1, <2>5, MappedRuns
  <2>7. ActorTypes' /\ TableTypes' /\ CallBound'
    BY <1>0, <1>18, <2>6 DEF LeaseExpires, ActorTypes, TableTypes, CallBound, Executing, tickVars, history
  <2> QED
    BY <2>7 DEF Inv
<1>19. CASE UNCHANGED vars
  BY <1>19 DEF Inv, vars, tickVars, history, ActorTypes, TableTypes, CallBound, Executing
<1> QED
  BY <1>1, <1>2, <1>3, <1>4, <1>5, <1>6, <1>7, <1>8, <1>9, <1>10, <1>11, <1>12, <1>13, <1>14, <1>15,
     <1>16, <1>17, <1>18, <1>19 DEF Next, RunStep, TickStep

\* The types and the places hold in every state.
LEMMA InvHolds == Spec => []Inv
<1>1. Init => Inv
  BY InitInv
<1>2. Inv /\ [Next]_vars => Inv'
  BY NextInv
<1> QED
  BY <1>1, <1>2, PTL DEF Spec

\* The rows, the runs and the local variables of every call and of the tick keep
\* their types, whatever fails and however the calls interleave.
THEOREM CronTypes == Spec => []TypeOK
<1>1. Inv => TypeOK
  BY TypeParts DEF Inv
<1> QED
  BY <1>1, InvHolds, PTL

-----------------------------------------------------------------------------
(* Executions *)

\* Ids are not used twice: a job is not created again, and a deleted one is not
\* changed.
IdsStay ==
    \A j \in Jobs : (rows[j] = Deleted => rows'[j] = Deleted) /\ (rows[j] # Absent => rows'[j] # Absent)

\* A step in which nobody begins to execute, no job comes back from deletion, and
\* the runs of quick executions stay as they are.
LEMMA ExecStays ==
  ASSUME ExecInv, OneExecution, CallBound, IdsStay,
         \A a \in Actors :
            pc'[a] \in {"exec", "record"} =>
               /\ Executing(a) /\ mine'[a].id = mine[a].id
               /\ call'[a] = call[a] /\ copy'[a] = copy[a]
               /\ Quick(a) => runs'[mine[a].id] = runs[mine[a].id] /\ mine[a].id \notin seen'
  PROVE  ExecInv' /\ OneExecution'
<1>1. ASSUME NEW a \in Actors, NEW b \in Actors, a # b, Executing(a)', Executing(b)'
      PROVE  mine'[a].id # mine'[b].id
  BY <1>1 DEF ExecInv, Executing
<1>2. ASSUME NEW a \in Actors, Executing(a)', Quick(a)'
      PROVE  Leased(a)' /\ (mine[a].id \notin seen)'
  <2>1. Executing(a) /\ Quick(a)
    BY <1>2 DEF Executing, Quick
  <2>2. Leased(a) /\ mine'[a].id = mine[a].id /\ call'[a] = call[a]
        /\ runs'[mine[a].id] = runs[mine[a].id] /\ mine[a].id \notin seen'
    BY <1>2, <2>1 DEF ExecInv, Executing
  <2>3. call[a].job \in Jobs
    BY <2>1 DEF CallBound, Executing, Calls
  <2> QED
    BY <2>2, <2>3 DEF Leased, IsActive, Known, IdsStay
<1>3. OneExecution'
  BY DEF OneExecution, Executing, Quick
<1> QED
  BY <1>1, <1>2, <1>3 DEF ExecInv

\* Every step: what a call or the tick writes leaves the run of a quick execution
\* alone, and the unique index keeps a second one out.
LEMMA NextExec == Inv /\ ExecInv /\ OneExecution /\ [Next]_vars => ExecInv' /\ OneExecution'
<1> SUFFICES ASSUME Inv, ExecInv, OneExecution, [Next]_vars PROVE ExecInv' /\ OneExecution'
  OBVIOUS
<1>0. /\ ActorTypes /\ TableTypes /\ CallBound /\ Scheduler \in Actors /\ Requests \subseteq Actors
      /\ runs \in Seq(RunRows)
  BY SchedulerActs DEF Inv, TableTypes
<1>a. \A a \in Actors : Executing(a) /\ Quick(a) => mine[a].id \notin seen
  BY DEF ExecInv
<1>b. ASSUME NEW a \in Actors, Return(a) \/ Abort(a),
             IdsStay,
             \A b \in Actors : b # a /\ Executing(b) /\ Quick(b) => runs'[mine[b].id] = runs[mine[b].id]
      PROVE  ExecInv' /\ OneExecution'
  <2>1. Leaves(a)
    BY <1>0, <1>b, ReturnLeaves
  <2>2. \A b \in Actors : pc'[b] \in {"exec", "record"} =>
               /\ b # a /\ Executing(b) /\ mine'[b].id = mine[b].id
               /\ call'[b] = call[b] /\ copy'[b] = copy[b]
    BY <2>1 DEF Leaves, OthersStay, Executing
  <2> QED
    BY <1>0, <1>a, <1>b, <2>1, <2>2, ExecStays DEF Leaves
<1>1. ASSUME NEW a \in Requests, NEW j \in Jobs, NEW p \in Plans, Create(a, j, p)
      PROVE  ExecInv' /\ OneExecution'
  <2>1. IdsStay
    BY <1>0, <1>1, RowChanges, CronNulls DEF Create, TableTypes, NewRow, Rows, IdsStay
  <2> QED
    BY <1>0, <1>1, <1>b, <2>1 DEF Create
<1>2. ASSUME NEW a \in Requests, NEW j \in Jobs, NEW p \in Plans, NEW op \in AllOps, Call(a, op, j, p)
      PROVE  ExecInv' /\ OneExecution'
  <2>1. \A b \in Actors : pc'[b] \in {"exec", "record"} =>
               /\ Executing(b) /\ call'[b] = call[b] /\ copy'[b] = copy[b]
    BY <1>0, <1>2 DEF Call, Goto, ActorTypes, Executing
  <2> QED
    BY <1>0, <1>2, <1>a, <2>1, ExecStays DEF Call, tickVars, IdsStay
<1>3. ASSUME NEW a \in Requests, Write(a) PROVE ExecInv' /\ OneExecution'
  <2>1. copy[a] \in Rows /\ Save(call[a].job, copy[a])
    BY <1>0, <1>3 DEF Write, CallBound
  <2>2. IdsStay
    BY <1>0, <2>1, CronNulls DEF Save, Stored, TableTypes, IdsStay
  <2> QED
    BY <1>0, <1>3, <1>b, <2>2 DEF Write
<1>4. ASSUME NEW a \in Requests, Delete(a) PROVE ExecInv' /\ OneExecution'
  <2> DEFINE j == call[a].job
  <2>1. Leaves(a)
    BY <1>0, <1>4, ReturnLeaves DEF Delete
  <2>2. \A b \in Actors : pc'[b] \in {"exec", "record"} =>
               /\ b # a /\ Executing(b) /\ mine'[b].id = mine[b].id
               /\ call'[b] = call[b] /\ copy'[b] = copy[b]
    BY <2>1 DEF Leaves, OthersStay, Executing
  <2>3. IdsStay
    BY <1>0, <1>4, CronNulls DEF Delete, Stored, TableTypes, IdsStay
  <2>4. /\ \A r \in DOMAIN runs : runs'[r] = IF Known(r) /\ runs[r].job = j THEN NoRun ELSE runs[r]
        /\ j \in Jobs /\ (Stored(j) => rows'[j] = Deleted)
    BY <1>0, <1>4 DEF Delete, RunIds, CallBound, Calls, TableTypes
  <2>5. ASSUME NEW b \in Actors, Executing(b)', Quick(b)'
        PROVE  Leased(b)' /\ (mine[b].id \notin seen)'
    <3>1. /\ Executing(b) /\ Quick(b) /\ mine'[b].id = mine[b].id /\ call'[b] = call[b]
          /\ mine[b].id \in DOMAIN runs /\ Leased(b) /\ mine[b].id \notin seen' /\ call[b].job \in Jobs
      BY <1>0, <2>1, <2>2, <2>5 DEF Executing, Quick, CallBound, Calls, ExecInv, Leaves
    <3>2. CASE rows[call[b].job] = Deleted /\ ~Known(mine[b].id)
      BY <2>3, <2>4, <3>1, <3>2 DEF Leased, Known, IdsStay
    <3>3. CASE /\ IsActive(mine[b].id) /\ runs[mine[b].id].job = call[b].job
               /\ runs[mine[b].id].lease = "held" /\ call[b].job # j /\ rows[call[b].job] # Absent
      BY <2>3, <2>4, <3>1, <3>3 DEF Leased, Known, IsActive, IdsStay
    <3>4. CASE IsActive(mine[b].id) /\ runs[mine[b].id].job = j /\ call[b].job = j /\ Stored(j)
      BY <2>4, <3>1, <3>4 DEF Leased, Known, IsActive
    <3>5. CASE IsActive(mine[b].id) /\ runs[mine[b].id].job = j /\ call[b].job = j /\ rows[j] = Deleted
      BY <2>3, <2>4, <3>1, <3>5 DEF Leased, Known, IsActive, IdsStay
    <3> QED
      BY <3>1, <3>2, <3>3, <3>4, <3>5 DEF Leased, Stored
  <2>6. \A b, d \in Actors : b # d /\ Executing(b)' /\ Executing(d)' => mine'[b].id # mine'[d].id
    BY <2>2 DEF Executing, ExecInv
  <2>7. OneExecution'
    BY <2>2 DEF OneExecution, Executing, Quick
  <2> QED
    BY <2>5, <2>6, <2>7 DEF ExecInv
<1>5. ASSUME NEW a \in Actors, RunLook(a) PROVE ExecInv' /\ OneExecution'
  <2>1. \A b \in Actors : pc'[b] \in {"exec", "record"} => Executing(b)
    BY <1>0, <1>5 DEF RunLook, Goto, ActorTypes, Executing
  <2> QED
    BY <1>0, <1>5, <1>a, <2>1, ExecStays DEF RunLook, tickVars, IdsStay
<1>6. ASSUME NEW a \in Actors, RunLease(a) PROVE ExecInv' /\ OneExecution'
  <2> DEFINE j == call[a].job
  <2>1. UNCHANGED rows /\ IdsStay /\ call[a] \in Calls /\ j \in Jobs
    BY <1>0, <1>6 DEF RunLease, IdsStay, CallBound, Calls
  <2>2. CASE /\ Stored(j) /\ ~HasActive(j) /\ Insert(j, "running")
             /\ mine' = [mine EXCEPT ![a] = [id |-> Len(runs) + 1, state |-> "running"]]
             /\ Goto(a, "exec") /\ UNCHANGED <<call, copy, tickVars>>
    <3>1. /\ Len(runs) + 1 \notin DOMAIN runs
          /\ \A r \in DOMAIN runs : runs'[r] = runs[r]
          /\ runs'[Len(runs) + 1] = [job |-> j, state |-> "running", lease |-> "held"]
      BY <1>0, <2>1, <2>2, InsertRuns DEF ActiveStates
    <3>2. /\ mine'[a].id = Len(runs) + 1 /\ ~Executing(a) /\ UNCHANGED <<call, copy, seen>>
          /\ \A b \in Actors \ {a} : pc'[b] = pc[b] /\ mine'[b] = mine[b]
      BY <1>0, <1>6, <2>2 DEF RunLease, Goto, ActorTypes, Executing, tickVars
    <3>3. ASSUME NEW b \in Actors, b # a, Executing(b)
          PROVE  /\ mine[b].id \in DOMAIN runs /\ (Quick(b) => call[b].job # j)
                 /\ call[b].job \in Jobs
      <4>1. mine[b].id \in DOMAIN runs /\ call[b].job \in Jobs
        BY <1>0, <3>3 DEF CallBound, Executing, Calls
      <4>2. Quick(b) => Leased(b)
        BY <3>3 DEF ExecInv
      <4> QED
        BY <2>2, <4>1, <4>2 DEF Leased, Stored, HasActive, RunIds
    <3>4. \A b, d \in Actors : b # d /\ Executing(b)' /\ Executing(d)' => mine'[b].id # mine'[d].id
      BY <3>1, <3>2, <3>3 DEF Executing, ExecInv
    <3>5. ASSUME NEW b \in Actors, Executing(b)', Quick(b)'
          PROVE  Leased(b)' /\ (mine[b].id \notin seen)'
      <4>1. CASE b = a
        <5>1. (mine[a].id \notin seen)'
          BY <1>0, <3>1, <3>2 DEF TableTypes
        <5>2. IsActive(mine[a].id)'
          <6>1. [job |-> j, state |-> "running", lease |-> "held"] \in Records
            BY <2>1 DEF Records, ActiveStates
          <6> QED
            BY <3>1, <3>2, <6>1, CronNulls DEF Known, IsActive, ActiveStates
        <5>3. Leased(a)'
          BY <2>1, <2>2, <3>1, <3>2, <5>2 DEF Leased, Stored
        <5> QED
          BY <4>1, <5>1, <5>3
      <4>2. CASE b # a
        <5>1. Executing(b) /\ Quick(b) /\ mine'[b].id = mine[b].id
          BY <3>2, <3>5, <4>2 DEF Executing, Quick
        <5>2. Leased(b) /\ mine[b].id \notin seen /\ mine[b].id \in DOMAIN runs
          BY <3>3, <4>2, <5>1 DEF ExecInv
        <5> QED
          BY <2>1, <3>1, <3>2, <5>1, <5>2 DEF Leased, Known, IsActive
      <4> QED
        BY <4>1, <4>2
    <3>6. OneExecution'
      BY <3>2, <3>3 DEF OneExecution, Executing, Quick
    <3> QED
      BY <3>4, <3>5, <3>6 DEF ExecInv
  <2>3. CASE Goto(a, "skip") /\ UNCHANGED <<runs, call, copy, mine, tickVars>>
    <3>1. \A b \in Actors : pc'[b] \in {"exec", "record"} => Executing(b)
      BY <1>0, <2>3 DEF Goto, ActorTypes, Executing
    <3> QED
      BY <1>0, <1>a, <2>1, <2>3, <3>1, ExecStays DEF tickVars
  <2>4. CASE Abort(a) /\ UNCHANGED runs
    BY <1>b, <2>1, <2>4
  <2> QED
    BY <1>6, <2>2, <2>3, <2>4 DEF RunLease
<1>7. ASSUME NEW a \in Actors, RunSkip(a) PROVE ExecInv' /\ OneExecution'
  <2>1. IdsStay /\ call[a].job \in Jobs
    BY <1>0, <1>7 DEF RunSkip, IdsStay, CallBound, Calls
  <2>2. Insert(call[a].job, "skipped") \/ UNCHANGED runs
    BY <1>7 DEF RunSkip
  <2>3. \A r \in DOMAIN runs : runs'[r] = runs[r]
    BY <1>0, <2>1, <2>2, InsertRuns DEF FinalStates
  <2>4. \A b \in Actors : Executing(b) => mine[b].id \in DOMAIN runs
    BY <1>0 DEF CallBound
  <2> QED
    BY <1>b, <1>7, <2>1, <2>3, <2>4 DEF RunSkip
<1>8. ASSUME NEW a \in Actors, RunExec(a) PROVE ExecInv' /\ OneExecution'
  <2>1. mine' = [mine EXCEPT ![a] = [mine[a] EXCEPT !.state = "ended"]]
    BY <1>8 DEF RunExec
  <2>2. [mine[a] EXCEPT !.state = "ended"].id = mine[a].id
    BY <1>0, <1>8 DEF RunExec, CallBound, Executing, Executions
  <2>3. \A b \in Actors : mine'[b].id = mine[b].id
    BY <1>0, <2>1, <2>2 DEF ActorTypes
  <2>4. \A b \in Actors : pc'[b] \in {"exec", "record"} => Executing(b)
    BY <1>0, <1>8 DEF RunExec, Goto, ActorTypes, Executing
  <2> QED
    BY <1>0, <1>8, <1>a, <2>3, <2>4, ExecStays DEF RunExec, tickVars, IdsStay
<1>9. ASSUME NEW a \in Actors, RunRecord(a) PROVE ExecInv' /\ OneExecution'
  <2>1. /\ mine[a].id \in DOMAIN runs /\ mine[a].state \in ActiveStates \cup FinalStates
        /\ Executing(a) /\ UpdateRun(mine[a].id, mine[a].state) /\ Return(a) /\ IdsStay
    BY <1>0, <1>9 DEF RunRecord, CallBound, Executing, Executions, IdsStay
  <2>2. \A r \in DOMAIN runs \ {mine[a].id} : runs'[r] = runs[r]
    BY <1>0, <2>1, UpdatedRuns
  <2>3. \A b \in Actors : b # a /\ Executing(b) =>
              mine[b].id \in DOMAIN runs /\ mine[b].id # mine[a].id
    BY <1>0, <2>1 DEF CallBound, ExecInv
  <2> QED
    BY <1>b, <2>1, <2>2, <2>3
<1>10. CASE TickStart
  <2>1. \A b \in Actors : pc'[b] \in {"exec", "record"} => Executing(b)
    BY <1>0, <1>10 DEF TickStart, Goto, ActorTypes, Executing
  <2>2. \A b \in Actors : Executing(b) /\ Quick(b) => mine[b].id \notin seen'
    BY <1>10 DEF TickStart, ExecInv, Leased, IsActive
  <2> QED
    BY <1>0, <1>10, <2>1, <2>2, ExecStays DEF TickStart, IdsStay
<1>11. ASSUME NEW r \in RunIds, TickRecover(r) PROVE ExecInv' /\ OneExecution'
  <2>1. \A q \in DOMAIN runs \ {r} : runs'[q] = runs[q]
    BY <1>0, <1>11, UpdatedRuns DEF TickRecover, RunIds, FinalStates
  <2>2. \A b \in Actors : Executing(b) /\ Quick(b) =>
           /\ mine[b].id \in DOMAIN runs /\ mine[b].id # r
           /\ runs'[mine[b].id] = runs[mine[b].id] /\ mine[b].id \notin seen'
    BY <1>0, <1>a, <1>11, <2>1 DEF CallBound, TickRecover
  <2>3. \A b \in Actors : pc'[b] \in {"exec", "record"} => Executing(b)
    BY <1>11 DEF TickRecover, Executing
  <2> QED
    BY <1>0, <1>11, <2>2, <2>3, ExecStays DEF TickRecover, IdsStay
<1>12. CASE TickList
  <2>1. \A b \in Actors : pc'[b] \in {"exec", "record"} => Executing(b)
    BY <1>0, <1>12 DEF TickList, Goto, ActorTypes, Executing
  <2> QED
    BY <1>0, <1>12, <1>a, <2>1, ExecStays DEF TickList, IdsStay
<1>13. ASSUME NEW j \in Jobs, TickAdvance(j) PROVE ExecInv' /\ OneExecution'
  <2> DEFINE row == [due[j] EXCEPT !.next = now[j] + 1]
  <2>1. row \in Rows
    <3>1. due[j] \in Rows /\ now[j] \in Nat
      BY <1>0, <1>13 DEF TickAdvance, TableTypes
    <3> QED
      BY <3>1, RowChanges
  <2> HIDE DEF row
  <2>2. IdsStay
    BY <1>0, <1>13, <2>1, CronNulls DEF TickAdvance, Save, row, Stored, TableTypes, IdsStay
  <2>3. \A b \in Actors : pc'[b] \in {"exec", "record"} => Executing(b) /\ call'[b] = call[b]
    BY <1>0, <1>13 DEF TickAdvance, Goto, ActorTypes, Executing
  <2> QED
    BY <1>0, <1>13, <1>a, <2>2, <2>3, ExecStays DEF TickAdvance
<1>14. CASE TickGet
  <2>1. IdsStay /\ UNCHANGED runs
    BY <1>14 DEF TickGet, IdsStay
  <2>2. CASE /\ copy' = [copy EXCEPT ![Scheduler] = rows[call[Scheduler].job]]
             /\ Goto(Scheduler, "look") /\ UNCHANGED <<call, mine, tickVars>>
    <3>1. \A b \in Actors : pc'[b] \in {"exec", "record"} => Executing(b) /\ copy'[b] = copy[b]
      BY <1>0, <2>2 DEF Goto, ActorTypes, Executing
    <3> QED
      BY <1>0, <1>a, <2>1, <2>2, <3>1, ExecStays DEF tickVars
  <2>3. CASE Abort(Scheduler)
    BY <1>0, <1>b, <2>1, <2>3
  <2> QED
    BY <1>14, <2>2, <2>3 DEF TickGet
<1>15. CASE TickPrune
  <2>1. PICK newest \in 0 .. Len(runs) :
           runs' = [r \in RunIds |-> IF r <= newest /\ ~IsActive(r) THEN NoRun ELSE runs[r]]
    BY <1>15 DEF TickPrune
  <2>2. \A b \in Actors : Executing(b) /\ Quick(b) => runs'[mine[b].id] = runs[mine[b].id]
    BY <1>0, <2>1 DEF CallBound, ExecInv, Leased, RunIds, Known
  <2>3. \A b \in Actors : pc'[b] \in {"exec", "record"} => Executing(b)
    BY <1>0, <1>15 DEF TickPrune, Goto, ActorTypes, Executing
  <2> QED
    BY <1>0, <1>15, <1>a, <2>2, <2>3, ExecStays DEF TickPrune, TickEnds, IdsStay
<1>16. ASSUME NEW a \in Actors, Fail(a) PROVE ExecInv' /\ OneExecution'
  BY <1>b, <1>16 DEF Fail, IdsStay
<1>17. ASSUME NEW j \in Jobs, Occurs(j) PROVE ExecInv' /\ OneExecution'
  <2>1. \A b \in Actors : pc'[b] \in {"exec", "record"} => Executing(b)
    BY <1>17 DEF Occurs, Executing
  <2> QED
    BY <1>0, <1>17, <1>a, <2>1, ExecStays DEF Occurs, tickVars, IdsStay
<1>18. ASSUME NEW r \in RunIds, LeaseExpires(r) PROVE ExecInv' /\ OneExecution'
  <2>1. \A b \in Actors : Executing(b) /\ Quick(b) => mine[b].id # r
    BY <1>18 DEF LeaseExpires, Quick
  <2>2. \A b \in Actors : Executing(b) /\ Quick(b) => runs'[mine[b].id] = runs[mine[b].id]
    BY <1>0, <1>18, <2>1 DEF LeaseExpires, CallBound
  <2>3. \A b \in Actors : pc'[b] \in {"exec", "record"} => Executing(b)
    BY <1>18 DEF LeaseExpires, Executing
  <2> QED
    BY <1>0, <1>18, <1>a, <2>2, <2>3, ExecStays DEF LeaseExpires, tickVars, IdsStay
<1>19. CASE UNCHANGED vars
  <2>1. \A b \in Actors : pc'[b] \in {"exec", "record"} => Executing(b)
    BY <1>19 DEF vars, Executing
  <2> QED
    BY <1>0, <1>19, <1>a, <2>1, ExecStays DEF vars, tickVars, IdsStay
<1> QED
  BY <1>1, <1>2, <1>3, <1>4, <1>5, <1>6, <1>7, <1>8, <1>9, <1>10, <1>11, <1>12, <1>13, <1>14, <1>15,
     <1>16, <1>17, <1>18, <1>19 DEF Next, RunStep, TickStep

\* The runs of the executions in every state.
LEMMA ExecHolds == Spec => [](Inv /\ ExecInv /\ OneExecution)
<1>1. Init => Inv /\ ExecInv /\ OneExecution
  BY InitInv DEF Init, ExecInv, OneExecution, Executing
<1>2. Inv /\ ExecInv /\ OneExecution /\ [Next]_vars => Inv' /\ ExecInv' /\ OneExecution'
  BY NextInv, NextExec
<1> QED
  BY <1>1, <1>2, PTL DEF Spec

\* One job is executed twice at the same time only when the work of one of the
\* two can outlast its 30 second lease, whoever runs it and whatever failed.
THEOREM OnlySlowOverlap == Spec => []OneExecution
BY ExecHolds, PTL

-----------------------------------------------------------------------------
(* Outcomes *)

\* A run that has ended within its lease is left as it is, or deleted.
OutcomeStep ==
    \A r \in RunIds :
       Known(r) /\ ~IsActive(r) /\ runs[r].lease = "held" => runs'[r] \in {runs[r], NoRun}

\* Nobody begins to execute, and executions keep their runs.
NoneBegins ==
    \A a \in Actors : pc'[a] \in {"exec", "record"} => Executing(a) /\ mine'[a].id = mine[a].id

\* A step that leaves or deletes runs, marks none and begins none.
LEMMA OutcomeStays ==
  ASSUME TableTypes, CallBound, OutcomeInv, seen' \subseteq seen, NoneBegins,
         \A r \in DOMAIN runs : runs'[r] \in {runs[r], NoRun}
  PROVE  OutcomeInv' /\ OutcomeStep
<1>1. OutcomeStep
  BY DEF OutcomeStep, RunIds
<1>2. \A r \in seen' : r \in DOMAIN runs /\ (Known(r)' => Known(r) /\ runs'[r] = runs[r])
  BY DEF TableTypes, Known
<1>3. ASSUME NEW a \in Actors, Executing(a)', Known(mine[a].id)', (runs[mine[a].id].lease = "held")'
      PROVE  IsActive(mine[a].id)'
  <2>1. Executing(a) /\ mine'[a].id = mine[a].id /\ mine[a].id \in DOMAIN runs
    BY <1>3 DEF NoneBegins, Executing, CallBound
  <2>2. runs'[mine[a].id] = runs[mine[a].id] /\ Known(mine[a].id)
    BY <1>3, <2>1 DEF Known
  <2> QED
    BY <1>3, <2>1, <2>2 DEF OutcomeInv, IsActive, Known
<1> QED
  BY <1>1, <1>2, <1>3 DEF OutcomeInv

\* Only the execution that owns an active run and the tick that found it expired
\* settle it, and the tick finds no run expired before its lease is over.
LEMMA NextOutcome == Inv /\ ExecInv /\ OutcomeInv /\ [Next]_vars => OutcomeInv' /\ OutcomeStep
<1> SUFFICES ASSUME Inv, ExecInv, OutcomeInv, [Next]_vars PROVE OutcomeInv' /\ OutcomeStep
  OBVIOUS
<1>0. /\ ActorTypes /\ TableTypes /\ CallBound /\ Scheduler \in Actors /\ Requests \subseteq Actors
      /\ runs \in Seq(RunRows) /\ seen \subseteq DOMAIN runs
      /\ \A r \in DOMAIN runs : runs[r] \in RunRows
  BY SchedulerActs DEF Inv, TableTypes
<1>1. ASSUME NEW a \in Actors, Return(a) \/ Abort(a), \A r \in DOMAIN runs : runs'[r] \in {runs[r], NoRun}
      PROVE  OutcomeInv' /\ OutcomeStep
  <2>1. Leaves(a)
    BY <1>0, <1>1, ReturnLeaves
  <2>2. NoneBegins
    BY <2>1 DEF Leaves, OthersStay, NoneBegins, Executing
  <2> QED
    BY <1>0, <1>1, <2>1, <2>2, OutcomeStays DEF Leaves
<1>2. ASSUME NEW a \in Requests, NEW j \in Jobs, NEW p \in Plans, NEW op \in AllOps, Call(a, op, j, p)
      PROVE  OutcomeInv' /\ OutcomeStep
  <2>1. NoneBegins
    BY <1>0, <1>2 DEF Call, Goto, ActorTypes, NoneBegins, Executing
  <2> QED
    BY <1>0, <1>2, <2>1, OutcomeStays DEF Call, tickVars
<1>3. ASSUME NEW a \in Requests, Delete(a) PROVE OutcomeInv' /\ OutcomeStep
  <2>1. \A r \in DOMAIN runs : runs'[r] \in {runs[r], NoRun}
    BY <1>3 DEF Delete, RunIds
  <2> QED
    BY <1>0, <1>1, <1>3, <2>1 DEF Delete
<1>4. ASSUME NEW a \in Actors, RunLook(a) \/ RunExec(a) PROVE OutcomeInv' /\ OutcomeStep
  <2>1. NoneBegins
    <3>1. \A b \in Actors : pc'[b] \in {"exec", "record"} => Executing(b)
      BY <1>0, <1>4 DEF RunLook, RunExec, Goto, ActorTypes, Executing
    <3>2. \A b \in Actors : Executing(b) => mine'[b].id = mine[b].id
      <4>1. CASE RunLook(a)
        BY <4>1 DEF RunLook
      <4>2. CASE RunExec(a)
        <5>1. mine' = [mine EXCEPT ![a] = [mine[a] EXCEPT !.state = "ended"]]
          BY <4>2 DEF RunExec
        <5>2. [mine[a] EXCEPT !.state = "ended"].id = mine[a].id
          BY <1>0, <4>2 DEF RunExec, CallBound, Executing, Executions
        <5> QED
          BY <1>0, <5>1, <5>2 DEF ActorTypes
      <4> QED
        BY <1>4, <4>1, <4>2
    <3> QED
      BY <3>1, <3>2 DEF NoneBegins
  <2> QED
    BY <1>0, <1>4, <2>1, OutcomeStays DEF RunLook, RunExec, tickVars
<1>5. ASSUME NEW a \in Actors, RunLease(a) \/ RunSkip(a) PROVE OutcomeInv' /\ OutcomeStep
  <2>1. call[a].job \in Jobs /\ pc[a] \in {"lease", "skip"}
    BY <1>0, <1>5 DEF RunLease, RunSkip, CallBound, Calls
  <2>2. UNCHANGED runs \/ \E state \in ActiveStates \cup FinalStates : Insert(call[a].job, state)
    BY <1>5 DEF RunLease, RunSkip, ActiveStates, FinalStates
  <2>3. \A r \in DOMAIN runs : runs'[r] = runs[r]
    BY <1>0, <2>1, <2>2, InsertRuns
  <2>4. CASE Return(a) \/ Abort(a)
    BY <1>1, <2>3, <2>4
  <2>5. CASE Goto(a, "skip") /\ UNCHANGED <<runs, call, copy, mine, tickVars, fired>>
    <3>1. NoneBegins
      BY <1>0, <2>5 DEF Goto, ActorTypes, NoneBegins, Executing
    <3> QED
      BY <1>0, <2>3, <2>5, <3>1, OutcomeStays DEF tickVars
  <2>6. CASE /\ Insert(call[a].job, "running") /\ Goto(a, "exec") /\ UNCHANGED tickVars
             /\ mine' = [mine EXCEPT ![a] = [id |-> Len(runs) + 1, state |-> "running"]]
    <3>1. runs'[Len(runs) + 1] = [job |-> call[a].job, state |-> "running", lease |-> "held"]
      BY <1>0, <2>1, <2>6, InsertRuns DEF ActiveStates
    <3>2. /\ mine'[a].id = Len(runs) + 1 /\ UNCHANGED seen
          /\ \A b \in Actors \ {a} : pc'[b] = pc[b] /\ mine'[b] = mine[b]
      BY <1>0, <2>6 DEF Goto, ActorTypes, tickVars
    <3>3. IsActive(mine[a].id)'
      <4>1. [job |-> call[a].job, state |-> "running", lease |-> "held"] \in Records
        BY <2>1 DEF Records, ActiveStates
      <4> QED
        BY <3>1, <3>2, <4>1, CronNulls DEF Known, IsActive, ActiveStates
    <3>4. ASSUME NEW b \in Actors \ {a}, Executing(b)', Known(mine[b].id)', (runs[mine[b].id].lease = "held")'
          PROVE  IsActive(mine[b].id)'
      <4>1. Executing(b) /\ mine'[b].id = mine[b].id /\ mine[b].id \in DOMAIN runs
        BY <1>0, <3>2, <3>4 DEF Executing, CallBound
      <4> QED
        BY <2>3, <3>4, <4>1 DEF OutcomeInv, IsActive, Known
    <3>5. \A r \in seen' : Known(r)' => runs'[r].lease = "expired"
      BY <1>0, <2>3, <3>2 DEF OutcomeInv, Known
    <3>6. OutcomeInv'
      BY <3>3, <3>4, <3>5 DEF OutcomeInv
    <3> QED
      BY <2>3, <3>6 DEF OutcomeStep, RunIds
  <2> QED
    BY <1>5, <2>4, <2>5, <2>6 DEF RunLease, RunSkip
<1>6. ASSUME NEW a \in Actors, RunRecord(a) PROVE OutcomeInv' /\ OutcomeStep
  <2> DEFINE q == mine[a].id
  <2>1. /\ q \in DOMAIN runs /\ mine[a].state \in ActiveStates \cup FinalStates
        /\ Executing(a) /\ UpdateRun(q, mine[a].state) /\ Leaves(a)
    BY <1>0, <1>6, ReturnLeaves DEF RunRecord, CallBound, Executing, Executions
  <2>2. /\ \A r \in DOMAIN runs \ {q} : runs'[r] = runs[r]
        /\ runs[q] = NoRun => runs'[q] = NoRun
        /\ runs[q] # NoRun => runs'[q] = [runs[q] EXCEPT !.state = mine[a].state]
    BY <1>0, <2>1, UpdatedRuns
  <2>3. Known(q) /\ runs[q].lease = "held" => IsActive(q)
    BY <2>1 DEF OutcomeInv
  <2>4. \A b \in Actors : Executing(b)' =>
           /\ b # a /\ Executing(b) /\ mine'[b].id = mine[b].id /\ mine[b].id # q /\ mine[b].id \in DOMAIN runs
    BY <1>0, <2>1 DEF Leaves, OthersStay, Executing, ExecInv, CallBound
  <2> HIDE DEF q
  <2>5. OutcomeStep
    BY <2>2, <2>3 DEF OutcomeStep, RunIds, Known
  <2>6. Known(q) => runs[q] \in Records /\ runs'[q].lease = runs[q].lease
    BY <1>0, <2>1, <2>2 DEF Known, RunRows, Records
  <2>7. ASSUME NEW r \in seen', Known(r)' PROVE runs'[r].lease = "expired"
    <3>1. r \in seen /\ r \in DOMAIN runs
      BY <1>0, <2>1, <2>7 DEF Leaves
    <3>2. Known(r)
      BY <2>2, <2>7, <3>1 DEF Known
    <3> QED
      BY <2>2, <2>6, <3>1, <3>2 DEF OutcomeInv
  <2>8. ASSUME NEW b \in Actors, Executing(b)', Known(mine[b].id)', (runs[mine[b].id].lease = "held")'
        PROVE  IsActive(mine[b].id)'
    BY <2>2, <2>4, <2>8 DEF OutcomeInv, IsActive, Known
  <2>9. OutcomeInv'
    BY <2>7, <2>8 DEF OutcomeInv
  <2> QED
    BY <2>5, <2>9
<1>7. CASE TickStart
  <2>1. UNCHANGED <<runs, mine>> /\ \A r \in seen' : runs[r].lease = "expired"
    BY <1>7 DEF TickStart
  <2>2. \A b \in Actors : Executing(b)' => Executing(b)
    BY <1>0, <1>7 DEF TickStart, Goto, ActorTypes, Executing
  <2> QED
    BY <2>1, <2>2 DEF OutcomeInv, OutcomeStep, IsActive, Known
<1>8. ASSUME NEW q \in RunIds, TickRecover(q) PROVE OutcomeInv' /\ OutcomeStep
  <2>1. /\ \A r \in DOMAIN runs \ {q} : runs'[r] = runs[r]
        /\ runs[q] = NoRun => runs'[q] = NoRun
        /\ runs[q] # NoRun => runs'[q] = [runs[q] EXCEPT !.state = "interrupted"]
    BY <1>0, <1>8, UpdatedRuns DEF TickRecover, RunIds, FinalStates
  <2>2. (Known(q) => runs[q].lease = "expired") /\ seen' = seen \ {q} /\ UNCHANGED <<pc, mine>>
    BY <1>8 DEF TickRecover, OutcomeInv
  <2>3. OutcomeStep
    BY <2>1, <2>2 DEF OutcomeStep, RunIds, Known
  <2>4. Known(q)' => runs'[q].lease = "expired"
    BY <1>0, <2>1, <2>2 DEF Known, RunRows, Records, RunIds
  <2>5. \A r \in seen' : Known(r)' => runs'[r].lease = "expired"
    BY <1>0, <2>1, <2>2 DEF OutcomeInv, Known
  <2>6. ASSUME NEW b \in Actors, Executing(b)', Known(mine[b].id)', (runs[mine[b].id].lease = "held")'
        PROVE  IsActive(mine[b].id)'
    <3>1. Executing(b) /\ mine'[b].id = mine[b].id /\ mine[b].id \in DOMAIN runs /\ mine[b].id # q
      BY <1>0, <2>2, <2>4, <2>6 DEF Executing, CallBound
    <3> QED
      BY <2>1, <2>6, <3>1 DEF OutcomeInv, IsActive, Known
  <2>7. OutcomeInv'
    BY <2>5, <2>6 DEF OutcomeInv
  <2> QED
    BY <2>3, <2>7
<1>9. ASSUME TickList \/ \E j \in Jobs : TickAdvance(j) \/ Occurs(j)
      PROVE  OutcomeInv' /\ OutcomeStep
  <2>1. UNCHANGED <<runs, seen, mine>>
    BY <1>9 DEF TickList, TickAdvance, Occurs, tickVars
  <2>2. \A b \in Actors : pc'[b] \in {"exec", "record"} => Executing(b)
    BY <1>0, <1>9 DEF TickList, TickAdvance, Occurs, Goto, ActorTypes, Executing
  <2> QED
    BY <1>0, <2>1, <2>2, OutcomeStays DEF NoneBegins
<1>10. CASE TickGet
  <2>1. UNCHANGED runs
    BY <1>10 DEF TickGet
  <2>2. CASE Goto(Scheduler, "look") /\ UNCHANGED <<call, mine, tickVars>>
    <3>1. NoneBegins
      BY <1>0, <2>2 DEF Goto, ActorTypes, NoneBegins, Executing
    <3> QED
      BY <1>0, <2>1, <2>2, <3>1, OutcomeStays DEF tickVars
  <2>3. CASE Abort(Scheduler)
    BY <1>0, <1>1, <2>1, <2>3
  <2> QED
    BY <1>10, <2>2, <2>3 DEF TickGet
<1>11. CASE TickPrune
  <2>1. seen' = {} /\ UNCHANGED mine /\ \A r \in DOMAIN runs : runs'[r] \in {runs[r], NoRun}
    BY <1>11 DEF TickPrune, TickEnds, RunIds
  <2>2. NoneBegins
    BY <1>0, <1>11, <2>1 DEF TickPrune, Goto, ActorTypes, NoneBegins, Executing
  <2> QED
    BY <1>0, <2>1, <2>2, OutcomeStays
<1>12. ASSUME NEW q \in RunIds, LeaseExpires(q) PROVE OutcomeInv' /\ OutcomeStep
  <2> DEFINE rec == [runs[q] EXCEPT !.lease = "expired"]
  <2>1. runs[q] \in Records /\ IsActive(q) /\ q \in DOMAIN runs
    BY <1>0, <1>12 DEF LeaseExpires, IsActive, Known, RunRows, RunIds
  <2>2. rec \in Records /\ rec.lease = "expired"
    BY <2>1 DEF Records
  <2> HIDE DEF rec
  <2>3. runs' = [runs EXCEPT ![q] = rec] /\ UNCHANGED <<seen, pc, mine>>
    BY <1>12 DEF LeaseExpires, rec, tickVars
  <2>4. runs'[q] = rec /\ \A r \in DOMAIN runs \ {q} : runs'[r] = runs[r]
    BY <1>0, <2>1, <2>3
  <2>5. OutcomeStep
    BY <2>1, <2>4 DEF OutcomeStep, RunIds
  <2>6. \A r \in seen' : Known(r)' => runs'[r].lease = "expired"
    BY <1>0, <2>2, <2>3, <2>4 DEF OutcomeInv, Known
  <2>7. ASSUME NEW b \in Actors, Executing(b)', Known(mine[b].id)', (runs[mine[b].id].lease = "held")'
        PROVE  IsActive(mine[b].id)'
    <3>1. Executing(b) /\ mine'[b].id = mine[b].id /\ mine[b].id \in DOMAIN runs /\ mine[b].id # q
      BY <1>0, <2>2, <2>3, <2>4, <2>7 DEF Executing, CallBound
    <3> QED
      BY <2>4, <2>7, <3>1 DEF OutcomeInv, IsActive, Known
  <2>8. OutcomeInv'
    BY <2>6, <2>7 DEF OutcomeInv
  <2> QED
    BY <2>5, <2>8
<1>13. CASE UNCHANGED vars
  <2>1. NoneBegins
    BY <1>13 DEF vars, NoneBegins, Executing
  <2> QED
    BY <1>0, <1>13, <2>1, OutcomeStays DEF vars, tickVars
<1>14. ASSUME NEW a \in Requests, NEW j \in Jobs, NEW p \in Plans, Create(a, j, p)
       PROVE  OutcomeInv' /\ OutcomeStep
  BY <1>0, <1>1, <1>14 DEF Create
<1>15. ASSUME NEW a \in Actors, Fail(a) PROVE OutcomeInv' /\ OutcomeStep
  BY <1>1, <1>15 DEF Fail
<1>16. ASSUME NEW a \in Requests, Write(a) PROVE OutcomeInv' /\ OutcomeStep
  BY <1>0, <1>1, <1>16 DEF Write
<1> QED
  BY <1>2, <1>3, <1>4, <1>5, <1>6, <1>7, <1>8, <1>9, <1>10, <1>11, <1>12, <1>13, <1>14, <1>15, <1>16
     DEF Next, RunStep, TickStep

\* An outcome recorded within the run's lease is final, whatever else outlasts its
\* lease: update_run and recover_expired write what they read earlier, but find
\* such a run still active, expired or gone.
THEOREM OutcomesKept == Spec => OutcomeKept
<1>1. Init => OutcomeInv
  BY DEF Init, OutcomeInv, Executing
<1>2. Inv /\ ExecInv /\ OutcomeInv /\ [Next]_vars => OutcomeInv' /\ [OutcomeStep]_vars
  BY NextOutcome
<1>3. Spec => [](Inv /\ ExecInv /\ OutcomeInv)
  BY <1>1, <1>2, ExecHolds, PTL DEF Spec
<1>4. Spec => [][OutcomeStep]_vars
  BY <1>2, <1>3, PTL DEF Spec
<1> QED
  BY <1>4, PTL DEF OutcomeKept, OutcomeStep

-----------------------------------------------------------------------------
(* Occurrences *)

\* The types the counting needs.
LEMMA CountTypes ==
  ASSUME TableTypes, NEW j \in Jobs
  PROVE  /\ clock[j] \in Nat /\ now[j] \in Nat
         /\ fired[j] \in Nat /\ served[j] \in Nat /\ restored[j] \in Nat
         /\ Pending(j) \in {0, 1} /\ Pending(j)' \in {0, 1}
         /\ Stored(j) => rows[j] \in Rows /\ rows[j].next \in Nat
         /\ j \in DOMAIN due => due[j] \in Rows /\ due[j].next \in Nat
<1>1. rows[j] \in Rows => rows[j].next \in Nat
  BY DEF Rows
<1>2. due[j] \in Rows => due[j].next \in Nat
  BY DEF Rows
<1> QED
  BY <1>1, <1>2 DEF TableTypes, Pending, Stored

\* No more runs are about to begin, no enabled job waits for an earlier occurrence,
\* and no more jobs are listed than before.
LEMMA CountStays ==
  ASSUME TableTypes, NEW j \in Jobs, Counted(j), UNCHANGED <<fired, served, restored>>,
         Pending(j)' = 1 => Pending(j) = 1,
         Stored(j)' /\ rows'[j].enabled => Stored(j) /\ rows'[j] = rows[j],
         clock'[j] \in Nat, clock[j] <= clock'[j],
         now'[j] = now[j] \/ (now'[j] = 0 /\ j \notin DOMAIN due'),
         j \in DOMAIN due' => j \in DOMAIN due /\ due'[j] = due[j]
  PROVE  Counted(j)'
<1>1. /\ clock[j] \in Nat /\ now[j] \in Nat
      /\ fired[j] \in Nat /\ served[j] \in Nat /\ restored[j] \in Nat
      /\ Pending(j) \in {0, 1} /\ Pending(j)' \in {0, 1} /\ Pending(j)' <= Pending(j)
      /\ Stored(j) => rows[j].next \in Nat
      /\ j \in DOMAIN due => due[j].next \in Nat
  BY CountTypes
<1>2. served'[j] <= clock'[j] /\ now'[j] <= clock'[j]
  BY <1>1 DEF Counted
<1>3. fired'[j] + Pending(j)' <= served'[j] + restored'[j]
  BY <1>1 DEF Counted
<1>4. Stored(j)' /\ rows'[j].enabled => fired'[j] + Pending(j)' < rows'[j].next + restored'[j]
  BY <1>1 DEF Counted
<1>5. j \in DOMAIN due' =>
        fired'[j] + Pending(j)' < due'[j].next + restored'[j] /\ due'[j].next <= now'[j]
  BY <1>1 DEF Counted
<1> QED
  BY <1>2, <1>3, <1>4, <1>5 DEF Counted

\* A tick begins a run only for a job it has advanced, and every save leaves an
\* enabled job waiting beyond what was run, or counts what it brings back.
LEMMA NextCount == Inv /\ OccurrencesCounted /\ [Next]_vars => OccurrencesCounted'
<1> SUFFICES ASSUME Inv, OccurrencesCounted, [Next]_vars, NEW j \in Jobs PROVE Counted(j)'
  BY DEF OccurrencesCounted
<1>0. /\ ActorTypes /\ TableTypes /\ CallBound /\ Scheduler \in Actors /\ Requests \subseteq Actors
      /\ \A a \in Requests : a # Scheduler
  BY SchedulerActs, CronAssumption DEF Inv
<1>t. /\ clock[j] \in Nat /\ now[j] \in Nat
      /\ fired[j] \in Nat /\ served[j] \in Nat /\ restored[j] \in Nat
      /\ Pending(j) \in {0, 1} /\ Pending(j)' \in {0, 1} /\ Counted(j)
      /\ Stored(j) => rows[j] \in Rows /\ rows[j].next \in Nat
      /\ j \in DOMAIN due => due[j] \in Rows /\ due[j].next \in Nat
  BY <1>0, CountTypes DEF OccurrencesCounted
<1>a. ASSUME NEW a \in Actors, Return(a) \/ Abort(a)
      PROVE  /\ Pending(j)' = 1 => Pending(j) = 1
             /\ now'[j] = now[j] \/ (now'[j] = 0 /\ j \notin DOMAIN due')
             /\ j \in DOMAIN due' => j \in DOMAIN due /\ due'[j] = due[j]
  <2>1. Leaves(a)
    BY <1>0, <1>a, ReturnLeaves
  <2>2. Pending(j)' = 1 => Pending(j) = 1
    BY <1>0, <2>1 DEF Leaves, OthersStay, Pending
  <2> QED
    BY <2>1, <2>2 DEF Leaves, Zero
<1>b. UNCHANGED rows => (Stored(j)' /\ rows'[j].enabled => Stored(j) /\ rows'[j] = rows[j])
  BY DEF Stored
<1>1. ASSUME NEW a \in Requests, NEW i \in Jobs, NEW p \in Plans, Create(a, i, p) PROVE Counted(j)'
  <2>1. UNCHANGED <<clock, fired, served, restored>> /\ (Return(a) \/ Abort(a))
    BY <1>1 DEF Create, history
  <2>2. CASE i = j
    <3>1. rows'[j] = NewRow(p, clock[j])
      BY <1>0, <1>1, <2>2 DEF Create, TableTypes
    <3>2. rows'[j].next = clock[j] + 1
      BY <3>1 DEF NewRow
    <3>3. Pending(j)' <= Pending(j)
      BY <1>0, <1>a, <1>t, <2>1
    <3>4. fired'[j] + Pending(j)' < rows'[j].next + restored'[j]
      BY <1>t, <2>1, <3>2, <3>3 DEF Counted
    <3>5. fired'[j] + Pending(j)' <= served'[j] + restored'[j] /\ served'[j] <= clock'[j]
      BY <1>t, <2>1, <3>3 DEF Counted
    <3>6. j \in DOMAIN due' =>
            fired'[j] + Pending(j)' < due'[j].next + restored'[j] /\ due'[j].next <= now'[j]
      BY <1>0, <1>a, <1>t, <2>1, <3>3 DEF Counted
    <3>7. now'[j] <= clock'[j]
      BY <1>0, <1>a, <1>t, <2>1 DEF Counted
    <3> QED
      BY <3>4, <3>5, <3>6, <3>7 DEF Counted
  <2>3. CASE i # j
    <3>1. rows'[j] = rows[j]
      BY <1>0, <1>1, <2>3 DEF Create, TableTypes
    <3> QED
      BY <1>0, <1>a, <1>t, <2>1, <3>1, CountStays DEF Stored
  <2> QED
    BY <2>2, <2>3
<1>2. ASSUME NEW a \in Requests, NEW i \in Jobs, NEW p \in Plans, NEW op \in AllOps, Call(a, op, i, p)
      PROVE  Counted(j)'
  <2>1. UNCHANGED <<clock, fired, served, restored, due, now, rows>>
        /\ pc'[Scheduler] = pc[Scheduler] /\ call'[Scheduler] = call[Scheduler]
    BY <1>0, <1>2 DEF Call, Goto, ActorTypes, tickVars, history
  <2> QED
    BY <1>0, <1>t, <1>b, <2>1, CountStays DEF Pending
<1>3. ASSUME NEW a \in Requests, Write(a) PROVE Counted(j)'
  <2> DEFINE i == call[a].job
  <2>1. i \in Jobs /\ copy[a] \in Rows /\ copy[a].next \in Nat
    BY <1>0, <1>3 DEF Write, CallBound, Calls, Rows
  <2>2. UNCHANGED <<clock, fired, served>> /\ (Return(a) \/ Abort(a)) /\ Save(i, copy[a])
    BY <1>3 DEF Write
  <2>3. CASE i # j \/ ~Stored(j)
    <3>1. rows'[j] = rows[j] /\ restored'[j] = restored[j]
      BY <1>0, <1>3, <2>1, <2>2, <2>3 DEF Write, Save, TableTypes
    <3>2. restored'[j] = restored[j] /\ fired'[j] = fired[j] /\ served'[j] = served[j]
      BY <2>2, <3>1
    <3>3. Pending(j)' <= Pending(j)
      BY <1>0, <1>a, <1>t, <2>2
    <3>4. fired'[j] + Pending(j)' <= served'[j] + restored'[j] /\ served'[j] <= clock'[j]
      BY <1>t, <2>2, <3>2, <3>3 DEF Counted
    <3>5. Stored(j)' /\ rows'[j].enabled => fired'[j] + Pending(j)' < rows'[j].next + restored'[j]
      BY <1>t, <3>1, <3>2, <3>3 DEF Counted, Stored
    <3>6. j \in DOMAIN due' =>
            fired'[j] + Pending(j)' < due'[j].next + restored'[j] /\ due'[j].next <= now'[j]
      BY <1>0, <1>a, <1>t, <2>2, <3>2, <3>3 DEF Counted
    <3>7. now'[j] <= clock'[j]
      BY <1>0, <1>a, <1>t, <2>2 DEF Counted
    <3> QED
      BY <3>4, <3>5, <3>6, <3>7 DEF Counted
  <2>4. CASE i = j /\ Stored(j)
    <3>1. rows'[j] = copy[a] /\ restored'[j] = restored[j] + Again(copy[a], served[j])
      BY <1>0, <1>3, <2>1, <2>2, <2>4 DEF Write, Save, TableTypes
    <3>2. Again(copy[a], served[j]) \in Nat
      BY <1>t, <2>1, RowChanges
    <3>3. Pending(j)' <= Pending(j) /\ fired'[j] = fired[j] /\ served'[j] = served[j]
      BY <1>0, <1>a, <1>t, <2>2
    <3>4. fired'[j] + Pending(j)' <= served'[j] + restored'[j] /\ served'[j] <= clock'[j]
      BY <1>t, <2>2, <3>1, <3>2, <3>3 DEF Counted
    <3>5. copy[a].enabled => served[j] < copy[a].next + Again(copy[a], served[j])
      BY <1>t, <2>1 DEF Again
    <3>6. Stored(j)' /\ rows'[j].enabled => fired'[j] + Pending(j)' < rows'[j].next + restored'[j]
      BY <1>t, <2>1, <3>1, <3>2, <3>3, <3>5 DEF Counted
    <3>7. j \in DOMAIN due' =>
            fired'[j] + Pending(j)' < due'[j].next + restored'[j] /\ due'[j].next <= now'[j]
      BY <1>0, <1>a, <1>t, <2>2, <3>1, <3>2, <3>3 DEF Counted
    <3>8. now'[j] <= clock'[j]
      BY <1>0, <1>a, <1>t, <2>2 DEF Counted
    <3> QED
      BY <3>4, <3>6, <3>7, <3>8 DEF Counted
  <2> QED
    BY <2>3, <2>4
<1>4. ASSUME NEW a \in Requests, Delete(a) PROVE Counted(j)'
  <2>1. Stored(j)' /\ rows'[j].enabled => Stored(j) /\ rows'[j] = rows[j]
    BY <1>0, <1>4 DEF Delete, TableTypes, Stored
  <2> QED
    BY <1>0, <1>4, <1>a, <1>t, <2>1, CountStays DEF Delete, history
<1>5. ASSUME NEW a \in Actors, RunLook(a) \/ RunExec(a) PROVE Counted(j)'
  <2>1. UNCHANGED <<clock, fired, served, restored, due, now, rows, call>>
    BY <1>5 DEF RunLook, RunExec, tickVars, history
  <2>2. pc'[Scheduler] = pc[Scheduler] \/ pc[Scheduler] = "look" \/ pc'[Scheduler] = "record"
    BY <1>0, <1>5 DEF RunLook, RunExec, Goto, ActorTypes
  <2> QED
    BY <1>0, <1>t, <1>b, <2>1, <2>2, CountStays DEF Pending
<1>6. ASSUME NEW a \in Actors, RunLease(a) PROVE Counted(j)'
  <2> DEFINE i == call[a].job
  <2>1. i \in Jobs /\ UNCHANGED <<rows, clock, served, restored>> /\ pc[a] = "lease"
    BY <1>0, <1>6 DEF RunLease, CallBound, Calls
  <2>2. CASE /\ Goto(a, "exec") /\ UNCHANGED <<call, copy, tickVars>>
             /\ fired' = [fired EXCEPT ![i] = IF a = Scheduler THEN @ + 1 ELSE @]
    <3>1. CASE a = Scheduler
      <4>1. Pending(j)' = 0 /\ fired'[j] = fired[j] + Pending(j)
        BY <1>0, <1>t, <2>1, <2>2, <3>1 DEF Pending, Goto, ActorTypes, TableTypes
      <4> QED
        BY <1>t, <2>1, <2>2, <4>1 DEF Counted, Stored, tickVars
    <3>2. CASE a # Scheduler
      <4>1. fired' = fired
        BY <1>0, <2>1, <2>2, <3>2 DEF TableTypes
      <4>2. pc'[Scheduler] = pc[Scheduler]
        BY <1>0, <2>2, <3>2 DEF Goto, ActorTypes
      <4> QED
        BY <1>0, <1>t, <1>b, <2>1, <2>2, <4>1, <4>2, CountStays DEF Pending, tickVars
    <3> QED
      BY <3>1, <3>2
  <2>3. CASE Goto(a, "skip") /\ UNCHANGED <<runs, call, copy, mine, tickVars, fired>>
    <3>1. pc'[Scheduler] = pc[Scheduler] \/ pc'[Scheduler] = "skip"
      BY <1>0, <2>3 DEF Goto, ActorTypes
    <3> QED
      BY <1>0, <1>t, <1>b, <2>1, <2>3, <3>1, CountStays DEF Pending, tickVars
  <2>4. CASE Abort(a) /\ UNCHANGED <<runs, fired>>
    BY <1>0, <1>a, <1>b, <1>t, <2>1, <2>4, CountStays
  <2> QED
    BY <1>6, <2>2, <2>3, <2>4 DEF RunLease
<1>7. ASSUME NEW a \in Actors, RunSkip(a) \/ RunRecord(a) \/ Fail(a) PROVE Counted(j)'
  <2>1. UNCHANGED <<rows, clock, fired, served, restored>> /\ (Return(a) \/ Abort(a))
    BY <1>7 DEF RunSkip, RunRecord, Fail, history
  <2> QED
    BY <1>0, <1>a, <1>b, <1>t, <2>1, CountStays
<1>8. CASE TickStart
  <2>1. UNCHANGED <<clock, fired, served, restored, due, rows, call>> /\ now' = clock
    BY <1>8 DEF TickStart, history
  <2>2. pc'[Scheduler] = "recover"
    BY <1>0, <1>8 DEF TickStart, Goto, ActorTypes
  <2>3. Pending(j)' = 0
    BY <2>2 DEF Pending
  <2> QED
    BY <1>t, <2>1, <2>3 DEF Counted, Stored
<1>9. ASSUME NEW r \in RunIds, TickRecover(r) PROVE Counted(j)'
  BY <1>0, <1>t, <1>b, <1>9, CountStays DEF TickRecover, Pending, history
<1>10. CASE TickList
  <2>1. UNCHANGED <<clock, fired, served, restored, rows, call, now>> /\ pc'[Scheduler] = "each"
    BY <1>0, <1>10 DEF TickList, Goto, ActorTypes, history
  <2>2. j \in DOMAIN due' =>
           Stored(j) /\ rows[j].enabled /\ due'[j] = rows[j] /\ rows[j].next <= now[j]
    BY <1>10 DEF TickList, IsDue
  <2>3. Pending(j)' = 0
    BY <2>1 DEF Pending
  <2> QED
    BY <1>t, <2>1, <2>2, <2>3 DEF Counted, Stored
<1>11. ASSUME NEW i \in Jobs, TickAdvance(i) PROVE Counted(j)'
  <2> DEFINE row == [due[i] EXCEPT !.next = now[i] + 1]
  <2>1. /\ Save(i, row) /\ due' = Without(due, i) /\ i \in DOMAIN due
        /\ pc[Scheduler] = "each" /\ Goto(Scheduler, "get") /\ UNCHANGED <<clock, now, fired, restored>>
        /\ served' = [served EXCEPT ![i] = now[i]]
        /\ call' = [call EXCEPT ![Scheduler] = [op |-> "run", job |-> i]]
    BY <1>11 DEF TickAdvance
  <2>2. pc'[Scheduler] = "get" /\ call'[Scheduler].job = i /\ Pending(j) = 0
    BY <1>0, <2>1 DEF Goto, ActorTypes, Pending
  <2>3. CASE i = j
    <3>1. due[j] \in Rows /\ row.next = now[j] + 1
      BY <1>t, <2>1, <2>3 DEF Rows
    <3> HIDE DEF row
    <3>2. Pending(j)' = 1 /\ served'[j] = now[j] /\ j \notin DOMAIN due'
          /\ (Stored(j)' => rows'[j] = row)
      BY <1>0, <2>1, <2>2, <2>3 DEF Pending, Without, Save, Stored, TableTypes
    <3> QED
      BY <1>t, <2>1, <2>2, <2>3, <3>1, <3>2 DEF Counted
  <2>4. CASE i # j
    <3> HIDE DEF row
    <3>1. /\ Pending(j)' = 0 /\ served'[j] = served[j] /\ rows'[j] = rows[j]
          /\ (j \in DOMAIN due' => j \in DOMAIN due /\ due'[j] = due[j])
      BY <1>0, <2>1, <2>2, <2>4 DEF Pending, Without, Save, TableTypes
    <3> QED
      BY <1>t, <2>1, <2>2, <3>1 DEF Counted, Stored
  <2> QED
    BY <2>3, <2>4
<1>12. CASE TickGet
  <2>1. UNCHANGED <<rows, clock, fired, served, restored>> /\ pc[Scheduler] = "get"
    BY <1>12 DEF TickGet, history
  <2>2. CASE UNCHANGED <<call, tickVars>>
    BY <1>0, <1>t, <1>b, <2>1, <2>2, CountStays DEF Pending, tickVars
  <2>3. CASE Abort(Scheduler)
    BY <1>0, <1>a, <1>b, <1>t, <2>1, <2>3, CountStays
  <2> QED
    BY <1>12, <2>2, <2>3 DEF TickGet
<1>13. CASE TickPrune
  <2>1. UNCHANGED <<rows, call, clock, fired, served, restored>> /\ due' = <<>> /\ now' = Zero
    BY <1>13 DEF TickPrune, TickEnds, history
  <2>2. pc'[Scheduler] = "idle"
    BY <1>0, <1>13 DEF TickPrune, Goto, ActorTypes
  <2>3. DOMAIN due' = {}
    BY ONLY <2>1
  <2>4. Pending(j)' = 0 /\ now'[j] = 0 /\ j \notin DOMAIN due'
    BY <2>1, <2>2, <2>3 DEF Pending, Zero
  <2> QED
    BY <1>0, <1>t, <1>b, <2>1, <2>4, CountStays
<1>14. ASSUME NEW i \in Jobs, Occurs(i) PROVE Counted(j)'
  <2>1. UNCHANGED <<rows, fired, served, restored, due, now, pc, call>>
    BY <1>14 DEF Occurs, tickVars, history
  <2>2. clock'[j] \in Nat /\ clock[j] <= clock'[j]
    BY <1>0, <1>t, <1>14 DEF Occurs, TableTypes
  <2> QED
    BY <1>0, <1>t, <1>b, <2>1, <2>2, CountStays DEF Pending
<1>15. ASSUME UNCHANGED vars \/ \E r \in RunIds : LeaseExpires(r) PROVE Counted(j)'
  <2>1. UNCHANGED <<clock, fired, served, restored, due, now, rows, call, pc>>
    BY <1>15 DEF vars, LeaseExpires, tickVars, history
  <2> QED
    BY <1>0, <1>t, <1>b, <2>1, CountStays DEF Pending
<1> QED
  BY <1>1, <1>2, <1>3, <1>4, <1>5, <1>6, <1>7, <1>8, <1>9, <1>10, <1>11, <1>12, <1>13, <1>14, <1>15
     DEF Next, RunStep, TickStep

\* The tick begins at most one run for each occurrence of a job that has passed and
\* each one brought back by a save of a next_run_at computed before the tick
\* advanced the job, for every interleaving of calls, ticks and failures.
THEOREM OncePerOccurrence == Spec => []AtMostOncePerOccurrence
<1>1. Init => OccurrencesCounted
  <2> SUFFICES ASSUME Init, NEW j \in Jobs PROVE Counted(j)
    BY DEF OccurrencesCounted
  <2>1. Pending(j) = 0
    BY SchedulerActs DEF Init, Pending
  <2>2. DOMAIN due = {}
    BY DEF Init
  <2>3. Stored(j) => rows[j].next = 1
    BY DEF Init, Stored, NewRow
  <2>4. fired[j] = 0 /\ served[j] = 0 /\ restored[j] = 0 /\ clock[j] = 0 /\ now[j] = 0
    BY DEF Init, Zero
  <2> QED
    BY <2>1, <2>2, <2>3, <2>4 DEF Counted
<1>2. Inv /\ OccurrencesCounted /\ [Next]_vars => OccurrencesCounted'
  BY NextCount
<1>3. Inv /\ OccurrencesCounted => AtMostOncePerOccurrence
  <2> SUFFICES ASSUME Inv, OccurrencesCounted, NEW j \in Jobs PROVE fired[j] <= clock[j] + restored[j]
    BY DEF AtMostOncePerOccurrence
  <2>1. /\ fired[j] \in Nat /\ clock[j] \in Nat /\ served[j] \in Nat /\ restored[j] \in Nat
        /\ Pending(j) \in {0, 1} /\ Counted(j)
    BY CountTypes DEF Inv, OccurrencesCounted
  <2> QED
    BY <2>1 DEF Counted
<1> QED
  BY <1>1, <1>2, <1>3, InvHolds, PTL DEF Spec
=============================================================================
