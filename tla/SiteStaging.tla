----------------------------- MODULE SiteStaging -----------------------------
(***************************************************************************)
(* The staging slot of one site: its row, the snapshots taken into it, its *)
(* promotions to production, and the lock row that keeps a sync and a      *)
(* promotion apart.  Calls come from the server and from command-line      *)
(* processes; they share the database.  Every step ends at an await.  The  *)
(* only StagingFilesystemLayer there is, InMemoryStagingFilesystem, copies *)
(* and exchanges no files: the model has the rows and the lock.            *)
(***************************************************************************)
EXTENDS Naturals, Sequences

CONSTANTS
    Calls,       \* calls of the service, each made once
    Users, UserOf,  \* owners of the panel, and who makes each call
    Ops,         \* the operations they call
    SlowCalls,   \* a copy or a promotion may take more than five minutes
    MaxFaults,   \* calls that fail or die with their process
    First, NoSlot, NoLock

ASSUME StagingAssumption ==
    /\ UserOf \in [Calls -> Users]
    /\ Ops \subseteq {"create", "sync", "promote", "delete", "capture"}
    /\ SlowCalls \in BOOLEAN
    /\ MaxFaults \in Nat
    /\ First \notin Calls

VARIABLES
    slot,       \* the row of staging_slots
    snapshots,  \* the rows of staging_snapshots, oldest first
    runs,       \* promotion_runs: the status of the promotion of each call
    lock,       \* the row of staging_locks; old: more than 300 seconds
    releasing,  \* calls whose LockGuard was dropped and whose DELETE has not run
    robbed,     \* history: guarded calls whose row another call of their user deleted
    pc, job,    \* where each call stands, and its local variables
    faults

rowVars == <<slot, snapshots, runs>>
vars == <<rowVars, lock, releasing, robbed, pc, job, faults>>

\* A call from here on owns a LockGuard.
GuardedPcs == {"copy", "record", "begin", "swap", "complete", "revert", "save"}
\* delete_slot locks without a guard.
DeletePcs == {"destroy", "remove", "unlock"}
OpenPcs == {"insert", "mkdir", "acquire", "seize", "toggle"}
\* refused: left without the lock; kept: left with the row of the lock behind.
FinalPcs == {"refused", "done", "ended", "kept", "lost"}

SlotIds == Calls \cup {First}
Slots == [id : SlotIds, current : Nat, promoted : Nat, capture : BOOLEAN]
Snapshots == [id : Nat, slot : SlotIds]
Locks == [by : Users, old : BOOLEAN]
Locals == [op : Ops \cup {"none"}, slot : Slots \cup {NoSlot}]

ASSUME StagingNulls == NoSlot \notin Slots /\ NoLock \notin Locks

NewSlot(id) == [id |-> id, current |-> 0, promoted |-> 0, capture |-> FALSE]

Guarded(c) == pc[c] \in GuardedPcs
InFlight(c) == pc[c] \in GuardedPcs \cup DeletePcs \cup OpenPcs

\* A site without a slot, with a new one, or with one snapshot taken.
Init ==
    /\ \/ slot = NoSlot /\ snapshots = <<>>
       \/ slot = NewSlot(First) /\ snapshots = <<>>
       \/ /\ slot = [NewSlot(First) EXCEPT !.current = 1]
          /\ snapshots = <<[id |-> 1, slot |-> First]>>
    /\ runs = [c \in Calls |-> "none"]
    /\ lock = NoLock
    /\ releasing = {} /\ robbed = {}
    /\ pc = [c \in Calls |-> "idle"]
    /\ job = [c \in Calls |-> [op |-> "none", slot |-> NoSlot]]
    /\ faults = 0

-----------------------------------------------------------------------------
Goto(c, l) == pc' = [pc EXCEPT ![c] = l]

\* The result of find_by_site, kept across the awaits that follow.
Enter(c, op, s, l) ==
    /\ pc[c] = "idle" /\ op \in Ops
    /\ job' = [job EXCEPT ![c] = [op |-> op, slot |-> s]]
    /\ Goto(c, l)
    /\ UNCHANGED <<rowVars, lock, releasing, robbed, faults>>

\* The end of a sync or a promotion: LockGuard::drop spawns the DELETE.
DropGuard(c) == Goto(c, "ended") /\ releasing' = releasing \cup {c}

\* Mutant: the row is found by its site.
StoredBySite(s) == IF slot # NoSlot THEN [s EXCEPT !.id = slot.id] ELSE slot

\* UPDATE staging_slots SET every column WHERE id = ?
Stored(s) == IF slot # NoSlot /\ slot.id = s.id THEN s ELSE slot

-----------------------------------------------------------------------------
(* SqliteStagingLockTable *)

\* Mutant: ON CONFLICT DO UPDATE without its WHERE.
AcquirableAlways(u) == TRUE

\* No row, a row older than 300 seconds, or a row of the same user.
Acquirable(u) == lock # NoLock => lock.old \/ lock.by = u

Taken(u) == [by |-> u, old |-> FALSE]

\* DELETE ... WHERE locked_by = ?
Released(u) == IF lock # NoLock /\ lock.by = u THEN NoLock ELSE lock

\* The calls at work that this leaves without their row.
Losers(u) == {c \in Calls : Guarded(c) /\ UserOf[c] = u /\ lock # NoLock /\ lock.by = u}

\* try_acquire of sync_snapshot and promote; false is answered with InFlight.
Acquire(c) ==
    /\ pc[c] = "acquire"
    /\ IF Acquirable(UserOf[c])
       THEN /\ lock' = Taken(UserOf[c])
            /\ Goto(c, IF job[c].op = "sync" THEN "copy" ELSE "begin")
       ELSE Goto(c, "refused") /\ UNCHANGED lock
    /\ UNCHANGED <<rowVars, releasing, robbed, job, faults>>

\* The DELETE that LockGuard::drop spawned.
Release(c) ==
    /\ c \in releasing
    /\ lock' = Released(UserOf[c])
    /\ robbed' = robbed \cup Losers(UserOf[c])
    /\ releasing' = releasing \ {c}
    /\ UNCHANGED <<rowVars, pc, job, faults>>

\* Five minutes pass.  Unless calls are slow, whoever took the lock has ended.
LockAges ==
    /\ lock # NoLock /\ ~lock.old
    /\ SlowCalls \/ \A c \in Calls : pc[c] \in GuardedPcs \cup DeletePcs => UserOf[c] # lock.by
    /\ lock' = [lock EXCEPT !.old = TRUE]
    /\ UNCHANGED <<rowVars, releasing, robbed, pc, job, faults>>

-----------------------------------------------------------------------------
(* create_slot: the row, then the directory. *)

CreateFind(c) ==
    Enter(c, "create", NoSlot, IF slot = NoSlot THEN "insert" ELSE "refused")

\* site_id is UNIQUE.
CreateInsert(c) ==
    /\ pc[c] = "insert"
    /\ IF slot = NoSlot
       THEN slot' = NewSlot(c) /\ Goto(c, "mkdir")
       ELSE Goto(c, "refused") /\ UNCHANGED slot
    /\ UNCHANGED <<snapshots, runs, lock, releasing, robbed, job, faults>>

CreateDirectory(c) ==
    /\ pc[c] = "mkdir"
    /\ Goto(c, "done")
    /\ UNCHANGED <<rowVars, lock, releasing, robbed, job, faults>>

-----------------------------------------------------------------------------
(* sync_snapshot: the copy, the row of the snapshot, the row of the slot.  *)

SyncFind(c) ==
    Enter(c, "sync", slot, IF slot = NoSlot THEN "refused" ELSE "acquire")

SyncCopy(c) ==
    /\ pc[c] = "copy"
    /\ Goto(c, "record")
    /\ UNCHANGED <<rowVars, lock, releasing, robbed, job, faults>>

\* Mutant: (site_id, snapshot) is not unique.
RecordAgain(c) ==
    /\ pc[c] = "record"
    /\ LET next == job[c].slot.current + 1 IN
          /\ snapshots' = Append(snapshots, [id |-> next, slot |-> job[c].slot.id])
          /\ job' = [job EXCEPT ![c].slot.current = next]
          /\ Goto(c, "save")
    /\ UNCHANGED <<slot, runs, lock, releasing, robbed, faults>>

\* The next id after the one that was read; UNIQUE (site_id, snapshot).
SyncRecord(c) ==
    /\ pc[c] = "record"
    /\ LET next == job[c].slot.current + 1 IN
          IF \E i \in DOMAIN snapshots : snapshots[i].id = next
          THEN DropGuard(c) /\ UNCHANGED <<snapshots, job>>
          ELSE /\ snapshots' = Append(snapshots, [id |-> next, slot |-> job[c].slot.id])
               /\ job' = [job EXCEPT ![c].slot.current = next]
               /\ Goto(c, "save") /\ UNCHANGED releasing
    /\ UNCHANGED <<slot, runs, lock, robbed, faults>>

\* slots.update, the last statement of a sync and of a promotion.
SaveSlot(c) ==
    /\ pc[c] = "save"
    /\ slot' = Stored(job[c].slot)
    /\ DropGuard(c)
    /\ UNCHANGED <<snapshots, runs, lock, robbed, job, faults>>

-----------------------------------------------------------------------------
(* promote *)

\* The snapshot the operator confirmed must be the current one.
PromoteFind(c, n) ==
    Enter(c, "promote", slot,
          IF slot # NoSlot /\ slot.current = n THEN "acquire" ELSE "refused")

\* PromotionRun::new refuses an old confirmation; then the row is inserted.
PromoteBegin(c) ==
    /\ pc[c] = "begin"
    /\ \/ DropGuard(c) /\ UNCHANGED runs
       \/ /\ runs' = [runs EXCEPT ![c] = "promoting"]
          /\ Goto(c, "swap") /\ UNCHANGED releasing
    /\ UNCHANGED <<slot, snapshots, lock, robbed, job, faults>>

\* InMemoryStagingFilesystem::promote changes no file: it answers Success, or
\* RolledBack when force_next_promote_rollback was called before.
PromoteSwap(c) ==
    /\ pc[c] = "swap"
    /\ Goto(c, "complete") \/ Goto(c, "revert")
    /\ UNCHANGED <<rowVars, lock, releasing, robbed, job, faults>>

\* complete_promotion and record_promotion, on the slot read at the start.
PromoteComplete(c) ==
    /\ pc[c] = "complete"
    /\ runs' = [runs EXCEPT ![c] = "promoted"]
    /\ job' = [job EXCEPT ![c].slot.promoted = job[c].slot.current]
    /\ Goto(c, "save")
    /\ UNCHANGED <<slot, snapshots, lock, releasing, robbed, faults>>

PromoteRevert(c) ==
    /\ pc[c] = "revert"
    /\ runs' = [runs EXCEPT ![c] = "rolled_back"]
    /\ DropGuard(c)
    /\ UNCHANGED <<slot, snapshots, lock, robbed, job, faults>>

-----------------------------------------------------------------------------
(* delete_slot goes on whether or not it gets the lock. *)

DeleteFind(c) ==
    Enter(c, "delete", slot, IF slot = NoSlot THEN "refused" ELSE "seize")

DeleteSeize(c) ==
    /\ pc[c] = "seize"
    /\ lock' = IF Acquirable(UserOf[c]) THEN Taken(UserOf[c]) ELSE lock
    /\ Goto(c, "destroy")
    /\ UNCHANGED <<rowVars, releasing, robbed, job, faults>>

DeleteDestroy(c) ==
    /\ pc[c] = "destroy"
    /\ Goto(c, "remove")
    /\ UNCHANGED <<rowVars, lock, releasing, robbed, job, faults>>

DeleteRow(c) ==
    /\ pc[c] = "remove"
    /\ slot' = IF slot # NoSlot /\ slot.id = job[c].slot.id THEN NoSlot ELSE slot
    /\ Goto(c, "unlock")
    /\ UNCHANGED <<snapshots, runs, lock, releasing, robbed, job, faults>>

DeleteUnlock(c) ==
    /\ pc[c] = "unlock"
    /\ lock' = Released(UserOf[c])
    /\ robbed' = robbed \cup Losers(UserOf[c])
    /\ Goto(c, "ended")
    /\ UNCHANGED <<rowVars, releasing, job, faults>>

-----------------------------------------------------------------------------
(* set_mail_capture writes the row back without the lock. *)

CaptureFind(c, on) ==
    /\ slot # NoSlot
    /\ Enter(c, "capture", [slot EXCEPT !.capture = on], "toggle")

CaptureMissing(c) == slot = NoSlot /\ Enter(c, "capture", NoSlot, "refused")

CaptureSave(c) ==
    /\ pc[c] = "toggle"
    /\ slot' = Stored(job[c].slot)
    /\ Goto(c, "done")
    /\ UNCHANGED <<snapshots, runs, lock, releasing, robbed, job, faults>>

-----------------------------------------------------------------------------
(* Faults *)

\* Mutant: a sync or a promotion that fails keeps its lock.
CutKeepsLock(c) ==
    /\ faults < MaxFaults /\ faults' = faults + 1
    /\ InFlight(c)
    /\ Goto(c, CASE pc[c] \in GuardedPcs -> "ended" [] pc[c] \in DeletePcs -> "kept" [] OTHER -> "refused")
    /\ UNCHANGED <<rowVars, lock, releasing, robbed, job>>

\* A statement returns an error, or the client goes away and the future is
\* dropped: the guard is dropped if there is one.  An INSERT that is under way
\* still takes the lock.
Cut(c) ==
    /\ faults < MaxFaults /\ faults' = faults + 1
    /\ \/ Guarded(c) /\ DropGuard(c) /\ UNCHANGED lock
       \/ pc[c] \in DeletePcs /\ Goto(c, "kept") /\ UNCHANGED <<lock, releasing>>
       \/ pc[c] \in OpenPcs /\ Goto(c, "refused") /\ UNCHANGED <<lock, releasing>>
       \/ /\ pc[c] \in {"acquire", "seize"} /\ Acquirable(UserOf[c])
          /\ lock' = Taken(UserOf[c])
          /\ Goto(c, "kept") /\ UNCHANGED releasing
    /\ UNCHANGED <<rowVars, robbed, job>>

\* The process of a call ends, with its spawned DELETE: a command-line process
\* does so as soon as its call has returned.
Die(c) ==
    /\ faults < MaxFaults /\ faults' = faults + 1
    /\ InFlight(c) \/ c \in releasing
    /\ Goto(c, "lost")
    /\ releasing' = releasing \ {c}
    /\ UNCHANGED <<rowVars, lock, robbed, job>>

Next ==
    \/ LockAges
    \/ \E c \in Calls :
          \/ Acquire(c) \/ Release(c)
          \/ CreateFind(c) \/ CreateInsert(c) \/ CreateDirectory(c)
          \/ SyncFind(c) \/ SyncCopy(c) \/ SyncRecord(c) \/ SaveSlot(c)
          \/ (\E i \in DOMAIN snapshots : PromoteFind(c, snapshots[i].id))
          \/ PromoteBegin(c) \/ PromoteSwap(c) \/ PromoteComplete(c) \/ PromoteRevert(c)
          \/ DeleteFind(c) \/ DeleteSeize(c) \/ DeleteDestroy(c) \/ DeleteRow(c) \/ DeleteUnlock(c)
          \/ (\E on \in BOOLEAN : CaptureFind(c, on)) \/ CaptureMissing(c) \/ CaptureSave(c)
          \/ Cut(c) \/ Die(c)

Spec == Init /\ [][Next]_vars

-----------------------------------------------------------------------------
(* Properties *)

\* Type invariant: a lock has an owner, a promotion one of the statuses the code
\* can give it (mark_failed has no caller), and a call a place in the code.
TypeOK ==
    /\ slot \in Slots \cup {NoSlot}
    /\ snapshots \in Seq(Snapshots)
    /\ runs \in [Calls -> {"none", "promoting", "promoted", "rolled_back"}]
    /\ lock \in Locks \cup {NoLock}
    /\ releasing \subseteq Calls /\ robbed \subseteq Calls
    /\ pc \in [Calls -> {"idle"} \cup OpenPcs \cup GuardedPcs \cup DeletePcs \cup FinalPcs]
    /\ job \in [Calls -> Locals]
    /\ faults \in 0..MaxFaults

\* What the slot's row says of itself happened to it: its current snapshot was
\* recorded, and its last promoted one promoted, by calls on this slot and not
\* on one deleted before, although sync, promote and set_mail_capture write
\* whole rows they read earlier.
SlotBacked ==
    slot # NoSlot =>
       /\ slot.current > 0 =>
             [id |-> slot.current, slot |-> slot.id] \in {snapshots[i] : i \in DOMAIN snapshots}
       /\ slot.promoted > 0 =>
             \E c \in Calls : /\ runs[c] = "promoted"
                              /\ job[c].slot.id = slot.id
                              /\ job[c].slot.current = slot.promoted

\* "staging_snapshots row has a monotonically increasing snapshot_id": the ids
\* of a site go up by one, across deletions, stale rows and failures.
SnapshotsIncrease == \A i \in DOMAIN snapshots : snapshots[i].id = i

\* "During a sync or promote the staging slot MUST block writes": while no call
\* takes five minutes, two users sync or promote together only when one of them
\* has lost the row of its call to the release of another call of his own.
OneWriter ==
    \A c, d \in Calls :
       Guarded(c) /\ Guarded(d) /\ UserOf[c] # UserOf[d] => c \in robbed \/ d \in robbed

\* "the lock auto-releases on writer error": a lock that still keeps others out
\* belongs to a call at work, to a DELETE on its way, or to a call that died or
\* left between locking and unlocking without a guard.
LockExplained ==
    lock # NoLock /\ ~lock.old =>
       \E c \in Calls :
          /\ UserOf[c] = lock.by
          /\ pc[c] \in GuardedPcs \cup DeletePcs \cup {"kept", "lost"} \/ c \in releasing

\* "the caller cannot accidentally promote a snapshot that has been replaced by
\* a newer one": a promotion succeeds while the confirmed snapshot is current.
PromotesCurrent ==
    [][\A c \in Calls :
          pc[c] = "swap" /\ pc'[c] = "complete" =>
             slot # NoSlot /\ slot.current = job[c].slot.current]_vars
=============================================================================
