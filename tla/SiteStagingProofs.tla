-------------------------- MODULE SiteStagingProofs --------------------------
(***************************************************************************)
(* Theorems about SiteStaging for every number of calls, owners and        *)
(* faults.                                                                 *)
(***************************************************************************)
EXTENDS SiteStaging, TLAPS

\* A call that has read the slot, and may write it back, has a slot.
Holding == GuardedPcs \cup DeletePcs \cup {"acquire", "seize", "toggle"}
JobBound == \A c \in Calls : pc[c] \in Holding => job[c].slot \in Slots

\* The row of a promotion follows the call.
RunBound ==
    \A c \in Calls :
       /\ pc[c] \in {"swap", "complete", "revert"} => runs[c] = "promoting"
       /\ pc[c] \notin {"swap", "complete", "revert", "save", "ended", "lost"} => runs[c] = "none"
       /\ runs[c] = "promoted" => pc[c] \in {"save", "ended", "lost"}

\* A DELETE is on its way only for a call that has ended.
ReleaseBound == \A c \in releasing : pc[c] = "ended"

CallInv == TypeOK /\ JobBound /\ RunBound /\ ReleaseBound

\* What a copy of the row says was recorded or promoted, was.
CurrentBacked(s) ==
    s.current > 0 =>
       \E i \in DOMAIN snapshots : snapshots[i] = [id |-> s.current, slot |-> s.id]
PromotedBacked(s) ==
    s.promoted > 0 =>
       \E c \in Calls : /\ runs[c] = "promoted"
                        /\ job[c].slot.id = s.id
                        /\ job[c].slot.current = s.promoted
Backed(s) == CurrentBacked(s) /\ PromotedBacked(s)

\* The row and every copy that may be written back are backed.
RowsBacked ==
    /\ slot # NoSlot => Backed(slot)
    /\ \A c \in Calls : pc[c] \in Holding => Backed(job[c].slot)

\* Who works, and has not lost the row to the release of another call of the
\* same user, still has it.
WriterHolds ==
    \A c \in Calls : Guarded(c) => lock = Taken(UserOf[c]) \/ c \in robbed
-----------------------------------------------------------------------------
\* The changes the service makes to a slot it has read give slots again.
LEMMA SlotChanges ==
  /\ \A i \in SlotIds : NewSlot(i) \in Slots
  /\ \A s \in Slots : /\ s # NoSlot /\ s.id \in SlotIds /\ s.current \in Nat /\ s.promoted \in Nat
                      /\ \A n \in Nat : /\ [s EXCEPT !.current = n] \in Slots
                                        /\ [s EXCEPT !.promoted = n] \in Slots
                                        /\ [id |-> n, slot |-> s.id] \in Snapshots
                      /\ \A on \in BOOLEAN : [s EXCEPT !.capture = on] \in Slots
<1>1. \A i \in SlotIds : NewSlot(i) \in Slots
  BY DEF NewSlot, Slots
<1>2. ASSUME NEW s \in Slots
      PROVE  /\ s # NoSlot /\ s.id \in SlotIds /\ s.current \in Nat /\ s.promoted \in Nat
             /\ \A n \in Nat : [s EXCEPT !.current = n] \in Slots
             /\ \A n \in Nat : [s EXCEPT !.promoted = n] \in Slots
             /\ \A n \in Nat : [id |-> n, slot |-> s.id] \in Snapshots
             /\ \A on \in BOOLEAN : [s EXCEPT !.capture = on] \in Slots
  <2>1. s # NoSlot
    BY StagingNulls
  <2>2. s.id \in SlotIds /\ s.current \in Nat /\ s.promoted \in Nat
    BY DEF Slots
  <2>3. ASSUME NEW n \in Nat
        PROVE  /\ [s EXCEPT !.current = n] \in Slots
               /\ [s EXCEPT !.promoted = n] \in Slots
    BY DEF Slots
  <2>4. ASSUME NEW n \in Nat PROVE [id |-> n, slot |-> s.id] \in Snapshots
    BY <2>2 DEF Snapshots
  <2>5. ASSUME NEW on \in BOOLEAN PROVE [s EXCEPT !.capture = on] \in Slots
    BY DEF Slots
  <2> QED
    BY <2>1, <2>2, <2>3, <2>4, <2>5
<1> QED
  BY <1>1, <1>2

\* No call has been made.
LEMMA InitCall == Init => CallInv
<1> SUFFICES ASSUME Init PROVE CallInv
  OBVIOUS
<1> USE StagingAssumption, StagingNulls DEF Init
<1>1. slot \in Slots \cup {NoSlot}
  <2>1. First \in SlotIds
    BY DEF SlotIds
  <2>2. NewSlot(First) \in Slots /\ [NewSlot(First) EXCEPT !.current = 1] \in Slots
    BY <2>1, SlotChanges
  <2> QED
    BY <2>2
<1>2. snapshots \in Seq(Snapshots)
  <2>1. [id |-> 1, slot |-> First] \in Snapshots
    BY DEF Snapshots, SlotIds
  <2>2. <<[id |-> 1, slot |-> First]>> \in Seq(Snapshots) /\ <<>> \in Seq(Snapshots)
    BY ONLY <2>1
  <2> QED
    BY <2>2
<1>3. TypeOK
  BY <1>1, <1>2 DEF TypeOK, Locals, GuardedPcs, DeletePcs, OpenPcs, FinalPcs
<1>4. JobBound /\ RunBound /\ ReleaseBound
  BY DEF JobBound, RunBound, ReleaseBound, Holding, GuardedPcs, DeletePcs
<1> QED
  BY <1>3, <1>4 DEF CallInv

\* The lock a user takes is a row of the table.
LEMMA TakenLock == \A u \in Users : Taken(u) \in Locks /\ Taken(u) # NoLock
<1>1. \A u \in Users : Taken(u) \in Locks
  BY DEF Taken, Locks
<1> QED
  BY <1>1, StagingNulls

\* Every step keeps the types and what a call's place in the code says of its
\* slot, its promotion and its lock.
LEMMA NextCall == CallInv /\ [Next]_vars => CallInv'
<1> SUFFICES ASSUME CallInv, [Next]_vars PROVE CallInv'
  OBVIOUS
<1> USE DEF CallInv, Goto, rowVars
<1> DEFINE Bound == JobBound /\ RunBound /\ ReleaseBound
<1>1. ASSUME NEW c \in Calls, Acquire(c) PROVE CallInv'
  <2>1. TypeOK'
    BY StagingAssumption, TakenLock, <1>1 DEF TypeOK, JobBound, Holding, Locals, GuardedPcs, DeletePcs, OpenPcs, FinalPcs, Acquire
  <2>2. Bound'
    BY <1>1 DEF TypeOK, JobBound, RunBound, ReleaseBound, Holding, Locals, GuardedPcs, DeletePcs, OpenPcs, Acquire
  <2> QED
    BY <2>1, <2>2
<1>2. ASSUME NEW c \in Calls, Release(c) PROVE CallInv'
  <2>1. TypeOK'
    BY <1>2 DEF TypeOK, JobBound, Holding, Locals, GuardedPcs, DeletePcs, OpenPcs, FinalPcs, Release, Released, Losers
  <2>2. Bound'
    BY <1>2 DEF TypeOK, JobBound, RunBound, ReleaseBound, Holding, Locals, GuardedPcs, DeletePcs, OpenPcs, Release, Released
  <2> QED
    BY <2>1, <2>2
<1>3. ASSUME NEW c \in Calls, CreateFind(c) PROVE CallInv'
  <2>1. TypeOK'
    BY <1>3 DEF TypeOK, JobBound, Holding, Locals, GuardedPcs, DeletePcs, OpenPcs, FinalPcs, CreateFind, Enter
  <2>2. Bound'
    BY <1>3 DEF TypeOK, JobBound, RunBound, ReleaseBound, Holding, Locals, GuardedPcs, DeletePcs, OpenPcs, CreateFind, Enter
  <2> QED
    BY <2>1, <2>2
<1>4. ASSUME NEW c \in Calls, CreateInsert(c) PROVE CallInv'
  <2>1. TypeOK'
    <3>1. NewSlot(c) \in Slots
      BY SlotChanges DEF SlotIds
    <3> QED
      BY <3>1, <1>4 DEF TypeOK, GuardedPcs, DeletePcs, OpenPcs, FinalPcs, CreateInsert
  <2>2. Bound'
    BY <1>4 DEF TypeOK, JobBound, RunBound, ReleaseBound, Holding, Locals, GuardedPcs, DeletePcs, OpenPcs, CreateInsert
  <2> QED
    BY <2>1, <2>2
<1>5. ASSUME NEW c \in Calls, CreateDirectory(c) PROVE CallInv'
  <2>1. TypeOK'
    BY <1>5 DEF TypeOK, JobBound, Holding, Locals, GuardedPcs, DeletePcs, OpenPcs, FinalPcs, CreateDirectory
  <2>2. Bound'
    BY <1>5 DEF TypeOK, JobBound, RunBound, ReleaseBound, Holding, Locals, GuardedPcs, DeletePcs, OpenPcs, CreateDirectory
  <2> QED
    BY <2>1, <2>2
<1>6. ASSUME NEW c \in Calls, SyncFind(c) PROVE CallInv'
  <2>1. TypeOK'
    BY <1>6 DEF TypeOK, JobBound, Holding, Locals, GuardedPcs, DeletePcs, OpenPcs, FinalPcs, SyncFind, Enter
  <2>2. Bound'
    BY <1>6 DEF TypeOK, JobBound, RunBound, ReleaseBound, Holding, Locals, GuardedPcs, DeletePcs, OpenPcs, SyncFind, Enter
  <2> QED
    BY <2>1, <2>2
<1>7. ASSUME NEW c \in Calls, SyncCopy(c) PROVE CallInv'
  <2>1. TypeOK'
    BY <1>7 DEF TypeOK, JobBound, Holding, Locals, GuardedPcs, DeletePcs, OpenPcs, FinalPcs, SyncCopy
  <2>2. Bound'
    BY <1>7 DEF TypeOK, JobBound, RunBound, ReleaseBound, Holding, Locals, GuardedPcs, DeletePcs, OpenPcs, SyncCopy
  <2> QED
    BY <2>1, <2>2
<1>8. ASSUME NEW c \in Calls, SyncRecord(c) PROVE CallInv'
  <2> DEFINE next == job[c].slot.current + 1
             new == [job[c].slot EXCEPT !.current = next]
             row == [id |-> next, slot |-> job[c].slot.id]
  <2>1. job[c] \in Locals /\ job[c].slot \in Slots
    BY <1>8 DEF SyncRecord, TypeOK, JobBound, Holding, GuardedPcs
  <2>2. next \in Nat /\ new \in Slots /\ row \in Snapshots
    <3>1. next \in Nat
      BY <2>1, SlotChanges
    <3> HIDE DEF next
    <3> QED
      BY <2>1, <3>1, SlotChanges
  <2> HIDE DEF new, row, next
  <2>3. CASE DropGuard(c) /\ UNCHANGED <<snapshots, job>>
    <3>1. TypeOK'
      BY <1>8, <2>3 DEF TypeOK, SyncRecord, DropGuard, GuardedPcs, DeletePcs, OpenPcs, FinalPcs
    <3>2. Bound'
      BY <1>8, <2>3 DEF TypeOK, JobBound, RunBound, ReleaseBound, Holding, GuardedPcs, DeletePcs, OpenPcs, SyncRecord, DropGuard
    <3> QED
      BY <3>1, <3>2
  <2>4. CASE /\ snapshots' = Append(snapshots, row)
             /\ job' = [job EXCEPT ![c] = [job[c] EXCEPT !.slot = new]]
             /\ Goto(c, "save") /\ UNCHANGED releasing
    <3>1. snapshots' \in Seq(Snapshots)
      <4>1. snapshots \in Seq(Snapshots)
        BY DEF TypeOK
      <4> QED
        BY ONLY <4>1, <2>2, <2>4
    <3>2. [job[c] EXCEPT !.slot = new] \in Locals /\ [job[c] EXCEPT !.slot = new].slot = new
      BY <2>1, <2>2 DEF Locals
    <3>3. TypeOK'
      BY <1>8, <2>4, <3>1, <3>2 DEF TypeOK, SyncRecord, GuardedPcs, DeletePcs, OpenPcs, FinalPcs
    <3>4. Bound'
      BY <1>8, <2>2, <2>4, <3>2 DEF TypeOK, JobBound, RunBound, ReleaseBound, Holding, GuardedPcs, DeletePcs, OpenPcs, SyncRecord
    <3> QED
      BY <3>3, <3>4
  <2> QED
    BY <1>8, <2>3, <2>4 DEF SyncRecord, next, new, row
<1>9. ASSUME NEW c \in Calls, SaveSlot(c) PROVE CallInv'
  <2>1. TypeOK'
    BY <1>9 DEF TypeOK, JobBound, Holding, Locals, GuardedPcs, DeletePcs, OpenPcs, FinalPcs, SaveSlot, DropGuard, Stored
  <2>2. Bound'
    BY <1>9 DEF TypeOK, JobBound, RunBound, ReleaseBound, Holding, Locals, GuardedPcs, DeletePcs, OpenPcs, SaveSlot, DropGuard, Stored
  <2> QED
    BY <2>1, <2>2
<1>10. ASSUME NEW c \in Calls, NEW n, PromoteFind(c, n) PROVE CallInv'
  <2>1. TypeOK'
    BY <1>10 DEF TypeOK, JobBound, Holding, Locals, GuardedPcs, DeletePcs, OpenPcs, FinalPcs, PromoteFind, Enter
  <2>2. Bound'
    BY <1>10 DEF TypeOK, JobBound, RunBound, ReleaseBound, Holding, Locals, GuardedPcs, DeletePcs, OpenPcs, PromoteFind, Enter
  <2> QED
    BY <2>1, <2>2
<1>11. ASSUME NEW c \in Calls, PromoteBegin(c) PROVE CallInv'
  <2>1. TypeOK'
    BY <1>11 DEF TypeOK, JobBound, Holding, Locals, GuardedPcs, DeletePcs, OpenPcs, FinalPcs, PromoteBegin, DropGuard
  <2>2. Bound'
    <3>1. CASE DropGuard(c) /\ UNCHANGED runs
      BY <1>11, <3>1 DEF TypeOK, JobBound, RunBound, ReleaseBound, Holding, GuardedPcs, DeletePcs, OpenPcs, PromoteBegin, DropGuard
    <3>2. CASE runs' = [runs EXCEPT ![c] = "promoting"] /\ Goto(c, "swap") /\ UNCHANGED releasing
      BY <1>11, <3>2 DEF TypeOK, JobBound, RunBound, ReleaseBound, Holding, GuardedPcs, DeletePcs, OpenPcs, PromoteBegin
    <3> QED
      BY <1>11, <3>1, <3>2 DEF PromoteBegin
  <2> QED
    BY <2>1, <2>2
<1>12. ASSUME NEW c \in Calls, PromoteSwap(c) PROVE CallInv'
  <2>1. TypeOK'
    BY <1>12 DEF TypeOK, JobBound, Holding, Locals, GuardedPcs, DeletePcs, OpenPcs, FinalPcs, PromoteSwap
  <2>2. Bound'
    BY <1>12 DEF TypeOK, JobBound, RunBound, ReleaseBound, Holding, Locals, GuardedPcs, DeletePcs, OpenPcs, PromoteSwap
  <2> QED
    BY <2>1, <2>2
<1>13. ASSUME NEW c \in Calls, PromoteComplete(c) PROVE CallInv'
  <2> DEFINE new == [job[c].slot EXCEPT !.promoted = job[c].slot.current]
  <2>1. job[c] \in Locals /\ job[c].slot \in Slots
    BY <1>13 DEF PromoteComplete, TypeOK, JobBound, Holding, GuardedPcs
  <2>2. new \in Slots
    BY <2>1, SlotChanges
  <2>3. job' = [job EXCEPT ![c] = [job[c] EXCEPT !.slot = new]]
    BY <1>13 DEF PromoteComplete
  <2> HIDE DEF new
  <2>4. [job[c] EXCEPT !.slot = new] \in Locals /\ [job[c] EXCEPT !.slot = new].slot = new
    BY <2>1, <2>2 DEF Locals
  <2>5. TypeOK'
    BY <1>13, <2>3, <2>4 DEF TypeOK, PromoteComplete, GuardedPcs, DeletePcs, OpenPcs, FinalPcs
  <2>6. Bound'
    BY <1>13, <2>2, <2>3, <2>4 DEF TypeOK, JobBound, RunBound, ReleaseBound, Holding, GuardedPcs, DeletePcs, OpenPcs, PromoteComplete
  <2> QED
    BY <2>5, <2>6
<1>14. ASSUME NEW c \in Calls, PromoteRevert(c) PROVE CallInv'
  <2>1. TypeOK'
    BY <1>14 DEF TypeOK, JobBound, Holding, Locals, GuardedPcs, DeletePcs, OpenPcs, FinalPcs, PromoteRevert, DropGuard
  <2>2. Bound'
    BY <1>14 DEF TypeOK, JobBound, RunBound, ReleaseBound, Holding, Locals, GuardedPcs, DeletePcs, OpenPcs, PromoteRevert, DropGuard
  <2> QED
    BY <2>1, <2>2
<1>15. ASSUME NEW c \in Calls, DeleteFind(c) PROVE CallInv'
  <2>1. TypeOK'
    BY <1>15 DEF TypeOK, JobBound, Holding, Locals, GuardedPcs, DeletePcs, OpenPcs, FinalPcs, DeleteFind, Enter
  <2>2. Bound'
    BY <1>15 DEF TypeOK, JobBound, RunBound, ReleaseBound, Holding, Locals, GuardedPcs, DeletePcs, OpenPcs, DeleteFind, Enter
  <2> QED
    BY <2>1, <2>2
<1>16. ASSUME NEW c \in Calls, DeleteSeize(c) PROVE CallInv'
  <2>1. TypeOK'
    BY StagingAssumption, TakenLock, <1>16 DEF TypeOK, JobBound, Holding, Locals, GuardedPcs, DeletePcs, OpenPcs, FinalPcs, DeleteSeize
  <2>2. Bound'
    BY <1>16 DEF TypeOK, JobBound, RunBound, ReleaseBound, Holding, Locals, GuardedPcs, DeletePcs, OpenPcs, DeleteSeize
  <2> QED
    BY <2>1, <2>2
<1>17. ASSUME NEW c \in Calls, DeleteDestroy(c) PROVE CallInv'
  <2>1. TypeOK'
    BY <1>17 DEF TypeOK, JobBound, Holding, Locals, GuardedPcs, DeletePcs, OpenPcs, FinalPcs, DeleteDestroy
  <2>2. Bound'
    BY <1>17 DEF TypeOK, JobBound, RunBound, ReleaseBound, Holding, Locals, GuardedPcs, DeletePcs, OpenPcs, DeleteDestroy
  <2> QED
    BY <2>1, <2>2
<1>18. ASSUME NEW c \in Calls, DeleteRow(c) PROVE CallInv'
  <2>1. TypeOK'
    BY <1>18 DEF TypeOK, JobBound, Holding, Locals, GuardedPcs, DeletePcs, OpenPcs, FinalPcs, DeleteRow
  <2>2. Bound'
    BY <1>18 DEF TypeOK, JobBound, RunBound, ReleaseBound, Holding, Locals, GuardedPcs, DeletePcs, OpenPcs, DeleteRow
  <2> QED
    BY <2>1, <2>2
<1>19. ASSUME NEW c \in Calls, DeleteUnlock(c) PROVE CallInv'
  <2>1. TypeOK'
    BY <1>19 DEF TypeOK, JobBound, Holding, Locals, GuardedPcs, DeletePcs, OpenPcs, FinalPcs, DeleteUnlock, Released, Losers
  <2>2. Bound'
    BY <1>19 DEF TypeOK, JobBound, RunBound, ReleaseBound, Holding, Locals, GuardedPcs, DeletePcs, OpenPcs, DeleteUnlock, Released
  <2> QED
    BY <2>1, <2>2
<1>20. ASSUME NEW c \in Calls, NEW on \in BOOLEAN, CaptureFind(c, on) PROVE CallInv'
  <2>1. TypeOK'
    BY SlotChanges, <1>20 DEF TypeOK, JobBound, Holding, Locals, GuardedPcs, DeletePcs, OpenPcs, FinalPcs, CaptureFind, Enter
  <2>2. Bound'
    BY SlotChanges, <1>20 DEF TypeOK, JobBound, RunBound, ReleaseBound, Holding, Locals, GuardedPcs, DeletePcs, OpenPcs, CaptureFind, Enter
  <2> QED
    BY <2>1, <2>2
<1>21. ASSUME NEW c \in Calls, CaptureMissing(c) PROVE CallInv'
  <2>1. TypeOK'
    BY <1>21 DEF TypeOK, JobBound, Holding, Locals, GuardedPcs, DeletePcs, OpenPcs, FinalPcs, CaptureMissing, Enter
  <2>2. Bound'
    BY <1>21 DEF TypeOK, JobBound, RunBound, ReleaseBound, Holding, Locals, GuardedPcs, DeletePcs, OpenPcs, CaptureMissing, Enter
  <2> QED
    BY <2>1, <2>2
<1>22. ASSUME NEW c \in Calls, CaptureSave(c) PROVE CallInv'
  <2>1. TypeOK'
    BY <1>22 DEF TypeOK, JobBound, Holding, Locals, GuardedPcs, DeletePcs, OpenPcs, FinalPcs, CaptureSave, Stored
  <2>2. Bound'
    BY <1>22 DEF TypeOK, JobBound, RunBound, ReleaseBound, Holding, Locals, GuardedPcs, DeletePcs, OpenPcs, CaptureSave, Stored
  <2> QED
    BY <2>1, <2>2
<1>23. ASSUME NEW c \in Calls, Cut(c) PROVE CallInv'
  <2>1. /\ faults' \in 0..MaxFaults /\ lock' \in Locks \cup {NoLock}
        /\ UNCHANGED <<slot, snapshots, runs, job, robbed>>
    <3>1. Taken(UserOf[c]) \in Locks
      BY StagingAssumption, TakenLock
    <3>2. lock' \in Locks \cup {NoLock}
      BY <3>1, <1>23 DEF TypeOK, Cut
    <3>3. faults' \in 0..MaxFaults
      BY StagingAssumption, <1>23 DEF TypeOK, Cut
    <3>4. UNCHANGED <<slot, snapshots, runs, job, robbed>>
      BY <1>23 DEF Cut
    <3> QED
      BY <3>2, <3>3, <3>4
  <2>2. \/ Guarded(c) /\ DropGuard(c)
        \/ pc[c] \in DeletePcs /\ Goto(c, "kept") /\ UNCHANGED releasing
        \/ pc[c] \in OpenPcs /\ (Goto(c, "refused") \/ Goto(c, "kept")) /\ UNCHANGED releasing
    BY <1>23 DEF Cut, OpenPcs
  <2>3. CASE Guarded(c) /\ DropGuard(c)
    <3>1. TypeOK'
      BY <2>1, <2>3 DEF TypeOK, DropGuard, FinalPcs
    <3>2. JobBound' /\ ReleaseBound'
      BY <2>1, <2>3 DEF TypeOK, JobBound, ReleaseBound, Holding, GuardedPcs, DeletePcs, DropGuard
    <3>3. RunBound'
      BY <2>1, <2>3 DEF TypeOK, RunBound, Guarded, GuardedPcs, DropGuard
    <3> QED
      BY <3>1, <3>2, <3>3
  <2>4. CASE /\ pc[c] \in DeletePcs \cup OpenPcs /\ UNCHANGED releasing
             /\ Goto(c, "refused") \/ Goto(c, "kept")
    <3>1. TypeOK'
      BY <2>1, <2>4 DEF TypeOK, FinalPcs
    <3>2. JobBound' /\ ReleaseBound'
      BY <2>1, <2>4 DEF TypeOK, JobBound, ReleaseBound, Holding, GuardedPcs, DeletePcs, OpenPcs
    <3>3. RunBound'
      BY <2>1, <2>4 DEF TypeOK, RunBound, DeletePcs, OpenPcs
    <3> QED
      BY <3>1, <3>2, <3>3
  <2> QED
    BY <2>2, <2>3, <2>4
<1>24. ASSUME NEW c \in Calls, Die(c) PROVE CallInv'
  <2>1. TypeOK'
    BY StagingAssumption, <1>24 DEF TypeOK, JobBound, Holding, Locals, GuardedPcs, DeletePcs, OpenPcs, FinalPcs, Die, InFlight, Guarded
  <2>2. Bound'
    BY <1>24 DEF TypeOK, JobBound, RunBound, ReleaseBound, Holding, Locals, GuardedPcs, DeletePcs, OpenPcs, Die, InFlight, Guarded
  <2> QED
    BY <2>1, <2>2
<1>25. CASE LockAges
  <2>1. TypeOK'
    BY <1>25 DEF TypeOK, Locks, LockAges
  <2> QED
    BY <1>25, <2>1 DEF LockAges, JobBound, RunBound, ReleaseBound
<1>26. CASE UNCHANGED vars
  BY <1>26 DEF vars, TypeOK, JobBound, RunBound, ReleaseBound
<1> QED
  BY <1>1, <1>2, <1>3, <1>4, <1>5, <1>6, <1>7, <1>8, <1>9, <1>10, <1>11, <1>12, <1>13, <1>14, <1>15, <1>16, <1>17, <1>18, <1>19, <1>20, <1>21, <1>22, <1>23, <1>24, <1>25, <1>26 DEF Next

\* The types, and the place of each call, hold in every state.
LEMMA CallsInvariant == Spec => []CallInv
<1>1. Init => CallInv
  BY InitCall
<1>2. CallInv /\ [Next]_vars => CallInv'
  BY NextCall
<1> QED
  BY <1>1, <1>2, PTL DEF Spec

\* Whatever the calls, their owners and their failures, the rows, the lock and
\* the local variables of the service keep their types.
THEOREM StagingTypes == Spec => []TypeOK
<1>1. CallInv => TypeOK
  BY DEF CallInv
<1> QED
  BY <1>1, CallsInvariant, PTL

-----------------------------------------------------------------------------
(* The lock *)

\* A call that may account for the lock.
Accounts(c) == pc[c] \in GuardedPcs \cup DeletePcs \cup {"kept", "lost"} \/ c \in releasing

\* A step that leaves the lock, and loses no call that accounts for it, leaves
\* it explained.
LEMMA ExplainedStays ==
  ASSUME LockExplained, UNCHANGED lock, \A c \in Calls : Accounts(c) => Accounts(c)'
  PROVE  LockExplained'
BY DEF LockExplained, Accounts

\* The lock belongs to a call that accounts for it after every step: the calls
\* that stop doing so delete the row of their user.
LEMMA NextExplained == CallInv /\ LockExplained /\ [Next]_vars => LockExplained'
<1> SUFFICES ASSUME CallInv, LockExplained, [Next]_vars PROVE LockExplained'
  OBVIOUS
<1> USE DEF CallInv, Goto, rowVars
<1>1. ASSUME NEW c \in Calls, Acquire(c) PROVE LockExplained'
  <2>1. CASE lock' = Taken(UserOf[c]) /\ (Goto(c, "copy") \/ Goto(c, "begin"))
    BY <2>1 DEF TypeOK, LockExplained, Taken, GuardedPcs
  <2>2. CASE Goto(c, "refused") /\ UNCHANGED lock
    <3>1. \A d \in Calls : Accounts(d) => Accounts(d)'
      BY <1>1, <2>2 DEF Accounts, Acquire, TypeOK, GuardedPcs, DeletePcs
    <3> QED
      BY <3>1, <2>2, ExplainedStays
  <2> QED
    BY <1>1, <2>1, <2>2 DEF Acquire
<1>2. ASSUME NEW c \in Calls, Release(c) PROVE LockExplained'
  BY <1>2 DEF Release, Released, LockExplained
<1>3. ASSUME NEW c \in Calls, DeleteUnlock(c) PROVE LockExplained'
  BY <1>3 DEF DeleteUnlock, Released, LockExplained, TypeOK
<1>4. ASSUME NEW c \in Calls, DeleteSeize(c) PROVE LockExplained'
  <2>1. CASE lock' = Taken(UserOf[c])
    BY <1>4, <2>1 DEF DeleteSeize, TypeOK, LockExplained, Taken, DeletePcs
  <2>2. CASE UNCHANGED lock
    <3>1. \A d \in Calls : Accounts(d) => Accounts(d)'
      BY <1>4 DEF Accounts, DeleteSeize, TypeOK, DeletePcs
    <3> QED
      BY <3>1, <2>2, ExplainedStays
  <2> QED
    BY <1>4, <2>1, <2>2 DEF DeleteSeize
<1>5. ASSUME NEW c \in Calls, Cut(c) PROVE LockExplained'
  <2>1. CASE lock' = Taken(UserOf[c]) /\ Goto(c, "kept")
    BY <2>1 DEF TypeOK, LockExplained, Taken
  <2>2. CASE UNCHANGED lock
    <3>1. ASSUME NEW d \in Calls, Accounts(d) PROVE Accounts(d)'
      BY <1>5, <2>2, <3>1 DEF Accounts, Cut, Guarded, DropGuard, TypeOK, GuardedPcs, DeletePcs, OpenPcs
    <3> QED
      BY <3>1, <2>2, ExplainedStays
  <2> QED
    BY <1>5, <2>1, <2>2 DEF Cut
<1>6. ASSUME NEW c \in Calls, Die(c) PROVE LockExplained'
  <2>1. UNCHANGED lock /\ \A d \in Calls : Accounts(d) => Accounts(d)'
    BY <1>6 DEF Accounts, Die, TypeOK
  <2> QED
    BY <2>1, ExplainedStays
<1>7. CASE LockAges
  <2>1. lock' # NoLock => lock'.old
    BY <1>7 DEF LockAges, TypeOK, Locks
  <2> QED
    BY <2>1 DEF LockExplained
<1>8. ASSUME NEW c \in Calls, NEW n, NEW on,
             \/ CreateFind(c) \/ SyncFind(c) \/ PromoteFind(c, n) \/ DeleteFind(c)
             \/ CaptureFind(c, on) \/ CaptureMissing(c)
      PROVE  LockExplained'
  <2>1. UNCHANGED lock /\ \A d \in Calls : Accounts(d) => Accounts(d)'
    <3>1. pc[c] = "idle" /\ UNCHANGED <<lock, releasing>> /\ \A d \in Calls \ {c} : pc'[d] = pc[d]
      BY <1>8 DEF CreateFind, SyncFind, PromoteFind, DeleteFind, CaptureFind, CaptureMissing, Enter, TypeOK
    <3> QED
      BY <3>1 DEF Accounts, GuardedPcs, DeletePcs
  <2> QED
    BY <2>1, ExplainedStays
<1>9. ASSUME NEW c \in Calls,
             \/ CreateInsert(c) \/ CreateDirectory(c) \/ SyncCopy(c) \/ PromoteSwap(c)
             \/ PromoteComplete(c) \/ DeleteDestroy(c) \/ DeleteRow(c) \/ CaptureSave(c)
      PROVE  LockExplained'
  <2>1. UNCHANGED lock /\ \A d \in Calls : Accounts(d) => Accounts(d)'
    BY <1>9 DEF CreateInsert, CreateDirectory, SyncCopy, PromoteSwap, PromoteComplete, DeleteDestroy,
                DeleteRow, CaptureSave, Accounts, TypeOK, GuardedPcs, DeletePcs
  <2> QED
    BY <2>1, ExplainedStays
<1>10. ASSUME NEW c \in Calls,
              SyncRecord(c) \/ SaveSlot(c) \/ PromoteBegin(c) \/ PromoteRevert(c)
       PROVE  LockExplained'
  <2>1. UNCHANGED lock /\ \/ DropGuard(c)
                          \/ Goto(c, "save") /\ UNCHANGED releasing
                          \/ Goto(c, "swap") /\ UNCHANGED releasing
    BY <1>10 DEF SyncRecord, SaveSlot, PromoteBegin, PromoteRevert
  <2>2. \A d \in Calls : Accounts(d) => Accounts(d)'
    BY <2>1 DEF DropGuard, Accounts, TypeOK, GuardedPcs
  <2> QED
    BY <2>1, <2>2, ExplainedStays
<1>11. CASE UNCHANGED vars
  BY <1>11 DEF vars, LockExplained
<1> QED
  BY <1>1, <1>2, <1>3, <1>4, <1>5, <1>6, <1>7, <1>8, <1>9, <1>10, <1>11 DEF Next

\* "the lock auto-releases on writer error": a lock that keeps others out belongs
\* to a call at work, to a DELETE on its way, or to a call that died or left
\* between locking and unlocking without a guard.
THEOREM LocksExplained == Spec => []LockExplained
<1>1. Init => LockExplained
  BY DEF Init, LockExplained
<1>2. CallInv /\ LockExplained /\ [Next]_vars => LockExplained'
  BY NextExplained
<1> QED
  BY <1>1, <1>2, CallsInvariant, PTL DEF Spec

\* A step that leaves the lock, and brings in no writer, leaves it with them.
LEMMA HoldsStays ==
  ASSUME WriterHolds, UNCHANGED <<lock, robbed>>,
         \A c \in Calls : Guarded(c)' => Guarded(c)
  PROVE  WriterHolds'
BY DEF WriterHolds, Taken

\* A user who takes the lock takes it from nobody who is writing.
LEMMA HoldsTaken ==
  ASSUME WriterHolds, NEW u \in Users, Acquirable(u), lock' = Taken(u), UNCHANGED robbed,
         \A c \in Calls : Guarded(c)' => Guarded(c) \/ UserOf[c] = u
  PROVE  WriterHolds'
<1> SUFFICES ASSUME NEW c \in Calls, Guarded(c)'
             PROVE  lock' = Taken(UserOf[c]) \/ c \in robbed'
  BY DEF WriterHolds, Taken
<1>1. UserOf[c] \in Users
  BY StagingAssumption
<1>2. CASE UserOf[c] = u
  BY <1>2
<1>3. CASE c \in robbed
  BY <1>3
<1>4. CASE lock = Taken(UserOf[c])
  <2>1. lock # NoLock /\ ~lock.old /\ lock.by = UserOf[c]
    BY <1>1, <1>4, TakenLock DEF Taken
  <2> QED
    BY <1>2, <2>1 DEF Acquirable
<1> QED
  BY <1>2, <1>3, <1>4 DEF WriterHolds

\* Whoever loses the row to a release of its own user is one of its losers.
LEMMA HoldsReleased ==
  ASSUME WriterHolds, NEW u \in Users, lock' = Released(u), robbed' = robbed \cup Losers(u),
         \A c \in Calls : Guarded(c)' => Guarded(c)
  PROVE  WriterHolds'
<1> SUFFICES ASSUME NEW c \in Calls, Guarded(c)'
             PROVE  lock' = Taken(UserOf[c]) \/ c \in robbed'
  BY DEF WriterHolds, Taken
<1>1. UserOf[c] \in Users /\ Guarded(c)
  BY StagingAssumption
<1>2. CASE c \in robbed
  BY <1>2
<1>3. CASE lock = Taken(UserOf[c])
  <2>1. lock # NoLock /\ lock.by = UserOf[c]
    BY <1>1, <1>3, TakenLock DEF Taken
  <2>2. CASE UserOf[c] = u
    BY <1>1, <2>1, <2>2 DEF Losers
  <2>3. CASE UserOf[c] # u
    BY <1>3, <2>1, <2>3 DEF Released
  <2> QED
    BY <2>2, <2>3
<1> QED
  BY <1>1, <1>2, <1>3 DEF WriterHolds

\* While no call takes five minutes, a writer keeps the lock until a call of its
\* own user deletes it under him.
LEMMA NextHolds ==
  ASSUME ~SlowCalls
  PROVE  CallInv /\ WriterHolds /\ [Next]_vars => WriterHolds'
<1> SUFFICES ASSUME CallInv, WriterHolds, [Next]_vars PROVE WriterHolds'
  OBVIOUS
<1> USE DEF CallInv, Goto, rowVars
<1>1. ASSUME NEW c \in Calls, Acquire(c) PROVE WriterHolds'
  <2>1. UNCHANGED robbed /\ \A d \in Calls \ {c} : Guarded(d)' => Guarded(d)
    BY <1>1 DEF Acquire, TypeOK, Guarded
  <2>2. CASE Acquirable(UserOf[c])
    BY <1>1, <2>1, <2>2, HoldsTaken, StagingAssumption DEF Acquire
  <2>3. CASE ~Acquirable(UserOf[c])
    <3>1. UNCHANGED lock /\ ~Guarded(c)'
      BY <1>1, <2>3 DEF Acquire, TypeOK, Guarded, GuardedPcs
    <3> QED
      BY <2>1, <3>1, HoldsStays
  <2> QED
    BY <2>2, <2>3
<1>2. ASSUME NEW c \in Calls, Release(c) PROVE WriterHolds'
  <2>1. /\ \A d \in Calls : Guarded(d)' => Guarded(d)
        /\ lock' = Released(UserOf[c]) /\ robbed' = robbed \cup Losers(UserOf[c])
    BY <1>2 DEF Release, Guarded
  <2> QED
    BY <2>1, HoldsReleased, StagingAssumption
<1>3. ASSUME NEW c \in Calls, DeleteUnlock(c) PROVE WriterHolds'
  <2>1. /\ \A d \in Calls : Guarded(d)' => Guarded(d)
        /\ lock' = Released(UserOf[c]) /\ robbed' = robbed \cup Losers(UserOf[c])
    BY <1>3 DEF DeleteUnlock, TypeOK, Guarded, GuardedPcs
  <2> QED
    BY <2>1, HoldsReleased, StagingAssumption
<1>4. ASSUME NEW c \in Calls, DeleteSeize(c) PROVE WriterHolds'
  <2>1. UNCHANGED robbed /\ \A d \in Calls : Guarded(d)' => Guarded(d)
    BY <1>4 DEF DeleteSeize, TypeOK, Guarded, GuardedPcs
  <2>2. CASE Acquirable(UserOf[c])
    BY <1>4, <2>1, <2>2, HoldsTaken, StagingAssumption DEF DeleteSeize
  <2>3. CASE ~Acquirable(UserOf[c])
    BY <1>4, <2>1, <2>3, HoldsStays DEF DeleteSeize
  <2> QED
    BY <2>2, <2>3
<1>5. ASSUME NEW c \in Calls, Cut(c) PROVE WriterHolds'
  <2>1. \A d \in Calls : Guarded(d)' => Guarded(d)
    BY <1>5 DEF Cut, DropGuard, TypeOK, Guarded, GuardedPcs
  <2>2. UNCHANGED robbed
    BY <1>5 DEF Cut
  <2>3. CASE Acquirable(UserOf[c]) /\ lock' = Taken(UserOf[c])
    BY <2>1, <2>2, <2>3, HoldsTaken, StagingAssumption
  <2>4. CASE UNCHANGED lock
    BY <2>1, <2>2, <2>4, HoldsStays
  <2> QED
    BY <1>5, <2>3, <2>4 DEF Cut
<1>6. ASSUME NEW c \in Calls, Die(c) PROVE WriterHolds'
  <2>1. /\ \A d \in Calls : Guarded(d)' => Guarded(d)
        /\ UNCHANGED <<lock, robbed>>
    BY <1>6 DEF Die, TypeOK, Guarded, GuardedPcs
  <2> QED
    BY <2>1, HoldsStays
<1>7. CASE LockAges
  <2>1. ASSUME NEW c \in Calls, Guarded(c)
        PROVE  lock # Taken(UserOf[c])
    BY <1>7, <2>1 DEF LockAges, Guarded, Taken
  <2> QED
    BY <1>7, <2>1 DEF LockAges, WriterHolds, Guarded
<1>8. ASSUME NEW c \in Calls, NEW n, NEW on,
             \/ CreateFind(c) \/ SyncFind(c) \/ PromoteFind(c, n) \/ DeleteFind(c)
             \/ CaptureFind(c, on) \/ CaptureMissing(c)
      PROVE  WriterHolds'
  <2>1. \E l : /\ Goto(c, l) /\ UNCHANGED <<lock, robbed>>
               /\ l \in {"insert", "refused", "acquire", "seize", "toggle"}
    BY <1>8 DEF CreateFind, SyncFind, PromoteFind, DeleteFind, CaptureFind, CaptureMissing, Enter
  <2>2. \A d \in Calls : Guarded(d)' => Guarded(d)
    BY <2>1 DEF TypeOK, Guarded, GuardedPcs
  <2> QED
    BY <2>1, <2>2, HoldsStays
<1>9. ASSUME NEW c \in Calls,
             \/ CreateInsert(c) \/ CreateDirectory(c) \/ SyncCopy(c) \/ PromoteSwap(c)
             \/ PromoteComplete(c) \/ DeleteDestroy(c) \/ DeleteRow(c) \/ CaptureSave(c)
      PROVE  WriterHolds'
  <2>1. UNCHANGED <<lock, robbed>>
    BY <1>9 DEF CreateInsert, CreateDirectory, SyncCopy, PromoteSwap, PromoteComplete, DeleteDestroy,
                DeleteRow, CaptureSave
  <2>2. \A d \in Calls : Guarded(d)' => Guarded(d)
    BY <1>9 DEF CreateInsert, CreateDirectory, SyncCopy, PromoteSwap, PromoteComplete, DeleteDestroy,
                DeleteRow, CaptureSave, TypeOK, Guarded, GuardedPcs
  <2> QED
    BY <2>1, <2>2, HoldsStays
<1>10. ASSUME NEW c \in Calls,
              SyncRecord(c) \/ SaveSlot(c) \/ PromoteBegin(c) \/ PromoteRevert(c)
       PROVE  WriterHolds'
  <2>1. /\ UNCHANGED <<lock, robbed>> /\ pc[c] \in GuardedPcs
        /\ DropGuard(c) \/ Goto(c, "save") \/ Goto(c, "swap")
    BY <1>10 DEF SyncRecord, SaveSlot, PromoteBegin, PromoteRevert, GuardedPcs
  <2>2. \A d \in Calls : Guarded(d)' => Guarded(d)
    BY <2>1 DEF DropGuard, TypeOK, Guarded
  <2> QED
    BY <2>1, <2>2, HoldsStays
<1>11. CASE UNCHANGED vars
  BY <1>11 DEF vars, WriterHolds, Guarded
<1> QED
  BY <1>1, <1>2, <1>3, <1>4, <1>5, <1>6, <1>7, <1>8, <1>9, <1>10, <1>11 DEF Next

\* "During a sync or promote the staging slot MUST block writes": with calls that
\* end within five minutes, two owners sync or promote together only when
\* another call of one of them has deleted the row under which he still works.
THEOREM WritersExcluded ==
  ASSUME ~SlowCalls
  PROVE  Spec => []OneWriter
<1>1. Init => WriterHolds
  BY DEF Init, WriterHolds, Guarded, GuardedPcs
<1>2. CallInv /\ WriterHolds /\ [Next]_vars => WriterHolds'
  BY NextHolds
<1>3. WriterHolds => OneWriter
  BY DEF WriterHolds, OneWriter, Taken
<1> QED
  BY <1>1, <1>2, <1>3, CallsInvariant, PTL DEF Spec

-----------------------------------------------------------------------------
(* What the rows say of themselves *)

\* The steps that end before anything is recorded or promoted.
LEMMA QuietSteps ==
  ASSUME NEW c \in Calls,
         \/ Acquire(c) \/ Release(c) \/ CreateDirectory(c) \/ SyncCopy(c) \/ PromoteSwap(c)
         \/ DeleteSeize(c) \/ DeleteDestroy(c) \/ DeleteUnlock(c) \/ Cut(c) \/ Die(c)
  PROVE  UNCHANGED <<slot, snapshots, runs, job>>
BY DEF Acquire, Release, CreateDirectory, SyncCopy, PromoteSwap,
       DeleteSeize, DeleteDestroy, DeleteUnlock, Cut, Die, rowVars

\* Every first step of a call copies the row, or goes nowhere.
LEMMA FindSteps ==
  ASSUME TypeOK, NEW c \in Calls, NEW n, NEW on \in BOOLEAN,
         \/ CreateFind(c) \/ SyncFind(c) \/ PromoteFind(c, n) \/ DeleteFind(c)
         \/ CaptureFind(c, on) \/ CaptureMissing(c)
  PROVE  /\ UNCHANGED <<slot, snapshots, runs>> /\ pc[c] = "idle"
         /\ \A d \in Calls \ {c} : pc'[d] = pc[d] /\ job'[d] = job[d]
         /\ pc'[c] \in Holding =>
               /\ slot \in Slots
               /\ job'[c].slot = slot \/ job'[c].slot = [slot EXCEPT !.capture = on]
<1> USE DEF TypeOK, Enter, Goto, Holding, GuardedPcs, DeletePcs, rowVars
<1>1. CASE CreateFind(c)
  BY <1>1 DEF CreateFind
<1>2. CASE SyncFind(c)
  BY <1>2 DEF SyncFind
<1>3. CASE PromoteFind(c, n)
  BY <1>3 DEF PromoteFind
<1>4. CASE DeleteFind(c)
  BY <1>4 DEF DeleteFind
<1>5. CASE CaptureFind(c, on)
  BY <1>5 DEF CaptureFind
<1>6. CASE CaptureMissing(c)
  BY <1>6 DEF CaptureMissing
<1> QED
  BY <1>1, <1>2, <1>3, <1>4, <1>5, <1>6

\* What has happened: a recorded snapshot and a promotion that succeeded.
Kept ==
    /\ \A i \in DOMAIN snapshots : i \in DOMAIN snapshots' /\ snapshots'[i] = snapshots[i]
    /\ \A d \in Calls : runs[d] = "promoted" => runs'[d] = "promoted" /\ job'[d] = job[d]

\* t will be backed.
BackedNext(t) ==
    /\ t.current > 0 =>
          \E i \in DOMAIN snapshots' : snapshots'[i] = [id |-> t.current, slot |-> t.id]
    /\ t.promoted > 0 =>
          \E c \in Calls : /\ runs'[c] = "promoted"
                           /\ job'[c].slot.id = t.id
                           /\ job'[c].slot.current = t.promoted

\* What has happened stays backed.
LEMMA BackedStays ==
  ASSUME Kept
  PROVE  /\ \A s, t : Backed(s) /\ t.id = s.id /\ t.current = s.current /\ t.promoted = s.promoted
                       => BackedNext(t)
         /\ \A s : Backed(s) => BackedNext(s)
<1>1. ASSUME NEW s, NEW t, Backed(s), t.id = s.id, t.current = s.current, t.promoted = s.promoted
      PROVE  BackedNext(t)
  BY <1>1 DEF Kept, Backed, CurrentBacked, PromotedBacked, BackedNext
<1> QED
  BY <1>1

\* It is enough that what the step leaves will be backed.
LEMMA RowsBackedNext ==
  ASSUME slot' # NoSlot => BackedNext(slot'),
         \A c \in Calls : pc'[c] \in Holding => BackedNext(job'[c].slot)
  PROVE  RowsBacked'
BY DEF RowsBacked, Backed, CurrentBacked, PromotedBacked, BackedNext

\* A step that changes no row keeps what was backed.
LEMMA RowsUnchanged ==
  ASSUME RowsBacked, UNCHANGED <<slot, snapshots, runs, job>>,
         \A c \in Calls : pc'[c] \in Holding => pc[c] \in Holding
  PROVE  RowsBacked'
BY DEF RowsBacked, Backed, CurrentBacked, PromotedBacked

\* The id that a sync takes is the next one: the ids so far are 1 .. n, the row
\* it read is backed by one of them, and the database refuses one of them.
LEMMA NextId ==
  ASSUME SnapshotsIncrease, snapshots \in Seq(Snapshots), NEW s \in Slots, CurrentBacked(s),
         ~ \E i \in DOMAIN snapshots : snapshots[i].id = s.current + 1
  PROVE  s.current + 1 = Len(snapshots) + 1
<1>1. s.current \in Nat
  BY SlotChanges
<1>2. DOMAIN snapshots = 1..Len(snapshots) /\ Len(snapshots) \in Nat
  OBVIOUS
<1>3. s.current <= Len(snapshots)
  <2>1. CASE s.current > 0
    <3>1. PICK i \in DOMAIN snapshots : snapshots[i] = [id |-> s.current, slot |-> s.id]
      BY <2>1 DEF CurrentBacked
    <3>2. snapshots[i].id = s.current /\ snapshots[i].id = i
      BY <3>1 DEF SnapshotsIncrease
    <3> QED
      BY <3>2, <1>2
  <2>2. CASE s.current = 0
    BY <2>2, <1>2
  <2> QED
    BY <2>1, <2>2, <1>1
<1>4. ~ (s.current + 1 <= Len(snapshots))
  <2> SUFFICES ASSUME s.current + 1 <= Len(snapshots) PROVE FALSE
    OBVIOUS
  <2>1. s.current + 1 \in DOMAIN snapshots
    BY <1>1, <1>2
  <2>2. snapshots[s.current + 1].id = s.current + 1
    BY <2>1 DEF SnapshotsIncrease
  <2> QED
    BY <2>1, <2>2
<1> QED
  BY <1>1, <1>2, <1>3, <1>4

RowInv == CallInv /\ SnapshotsIncrease /\ RowsBacked

\* The row, every copy of it, and the ids of the snapshots after every step.
LEMMA NextRows == RowInv /\ [Next]_vars => (SnapshotsIncrease /\ RowsBacked)'
<1> SUFFICES ASSUME RowInv, [Next]_vars PROVE SnapshotsIncrease' /\ RowsBacked'
  OBVIOUS
<1> USE DEF RowInv, CallInv
<1>0. UNCHANGED snapshots => SnapshotsIncrease'
  BY DEF SnapshotsIncrease
<1>1. ASSUME NEW c \in Calls,
             \/ Acquire(c) \/ Release(c) \/ CreateDirectory(c) \/ SyncCopy(c) \/ PromoteSwap(c)
             \/ DeleteSeize(c) \/ DeleteDestroy(c) \/ DeleteUnlock(c) \/ Cut(c) \/ Die(c)
      PROVE  SnapshotsIncrease' /\ RowsBacked'
  <2>1. UNCHANGED <<slot, snapshots, runs, job>>
    BY <1>1, QuietSteps
  <2>2. \A d \in Calls : pc'[d] \in Holding => pc[d] \in Holding
    BY <1>1 DEF Acquire, Release, CreateDirectory, SyncCopy, PromoteSwap, DeleteSeize, DeleteDestroy,
                DeleteUnlock, Cut, Die, Goto, DropGuard, TypeOK, Holding, GuardedPcs, DeletePcs
  <2> QED
    BY <2>1, <2>2, <1>0, RowsUnchanged
<1>2. ASSUME NEW c \in Calls, NEW n, NEW on \in BOOLEAN,
             \/ CreateFind(c) \/ SyncFind(c) \/ PromoteFind(c, n) \/ DeleteFind(c)
             \/ CaptureFind(c, on) \/ CaptureMissing(c)
      PROVE  SnapshotsIncrease' /\ RowsBacked'
  <2>1. /\ UNCHANGED <<slot, snapshots, runs>> /\ pc[c] = "idle"
        /\ \A d \in Calls \ {c} : pc'[d] = pc[d] /\ job'[d] = job[d]
        /\ pc'[c] \in Holding =>
              /\ slot \in Slots
              /\ job'[c].slot = slot \/ job'[c].slot = [slot EXCEPT !.capture = on]
    BY <1>2, FindSteps
  <2>2. Kept
    BY <2>1 DEF Kept, RunBound
  <2>3. ASSUME pc'[c] \in Holding PROVE BackedNext(job'[c].slot)
    <3>1. slot \in Slots /\ slot # NoSlot /\ Backed(slot)
      BY <2>1, <2>3, SlotChanges DEF RowsBacked
    <3>2. job'[c].slot.id = slot.id /\ job'[c].slot.current = slot.current
          /\ job'[c].slot.promoted = slot.promoted
      BY <2>1, <2>3, <3>1 DEF Slots
    <3> QED
      BY <2>2, <3>1, <3>2, BackedStays
  <2>4. \A d \in Calls : pc'[d] \in Holding => BackedNext(job'[d].slot)
    BY <2>1, <2>2, <2>3, BackedStays DEF RowsBacked
  <2>5. slot' # NoSlot => BackedNext(slot')
    BY <2>1, <2>2, BackedStays DEF RowsBacked
  <2> QED
    BY <1>0, <2>1, <2>4, <2>5, RowsBackedNext
<1>3. ASSUME NEW c \in Calls, CreateInsert(c) PROVE SnapshotsIncrease' /\ RowsBacked'
  <2>1. UNCHANGED <<snapshots, runs, job>> /\ (UNCHANGED slot \/ slot' = NewSlot(c))
    BY <1>3 DEF CreateInsert
  <2>2. Kept
    BY <2>1 DEF Kept
  <2>3. \A d \in Calls : pc'[d] \in Holding => pc[d] \in Holding
    BY <1>3 DEF CreateInsert, Goto, TypeOK, Holding, GuardedPcs, DeletePcs
  <2>4. BackedNext(NewSlot(c))
    BY DEF BackedNext, NewSlot
  <2>5. slot' # NoSlot => BackedNext(slot')
    BY <2>1, <2>2, <2>4, BackedStays DEF RowsBacked
  <2>6. \A d \in Calls : pc'[d] \in Holding => BackedNext(job'[d].slot)
    BY <2>1, <2>2, <2>3, BackedStays DEF RowsBacked
  <2> QED
    BY <1>0, <2>1, <2>5, <2>6, RowsBackedNext
<1>4. ASSUME NEW c \in Calls, SaveSlot(c) \/ CaptureSave(c) PROVE SnapshotsIncrease' /\ RowsBacked'
  <2>1. UNCHANGED <<snapshots, runs, job>> /\ (UNCHANGED slot \/ slot' = job[c].slot)
    BY <1>4 DEF SaveSlot, CaptureSave, Stored
  <2>2. Kept
    BY <2>1 DEF Kept
  <2>3. \A d \in Calls : pc'[d] \in Holding => pc[d] \in Holding
    BY <1>4 DEF SaveSlot, CaptureSave, DropGuard, Goto, TypeOK, Holding, GuardedPcs, DeletePcs
  <2>4. Backed(job[c].slot)
    BY <1>4 DEF SaveSlot, CaptureSave, RowsBacked, Holding, GuardedPcs
  <2>5. slot' # NoSlot => BackedNext(slot')
    BY <2>1, <2>2, <2>4, BackedStays DEF RowsBacked
  <2>6. \A d \in Calls : pc'[d] \in Holding => BackedNext(job'[d].slot)
    BY <2>1, <2>2, <2>3, BackedStays DEF RowsBacked
  <2> QED
    BY <1>0, <2>1, <2>5, <2>6, RowsBackedNext
<1>5. ASSUME NEW c \in Calls, DeleteRow(c) PROVE SnapshotsIncrease' /\ RowsBacked'
  <2>1. UNCHANGED <<snapshots, runs, job>> /\ (UNCHANGED slot \/ slot' = NoSlot)
    BY <1>5 DEF DeleteRow
  <2>2. Kept
    BY <2>1 DEF Kept
  <2>3. \A d \in Calls : pc'[d] \in Holding => pc[d] \in Holding
    BY <1>5 DEF DeleteRow, Goto, TypeOK, Holding, GuardedPcs, DeletePcs
  <2>4. slot' # NoSlot => BackedNext(slot')
    BY <2>1, <2>2, BackedStays DEF RowsBacked
  <2>5. \A d \in Calls : pc'[d] \in Holding => BackedNext(job'[d].slot)
    BY <2>1, <2>2, <2>3, BackedStays DEF RowsBacked
  <2> QED
    BY <1>0, <2>1, <2>4, <2>5, RowsBackedNext
<1>6. ASSUME NEW c \in Calls, PromoteBegin(c) \/ PromoteRevert(c)
      PROVE  SnapshotsIncrease' /\ RowsBacked'
  <2>1. UNCHANGED <<slot, snapshots, job>> /\ \A d \in Calls \ {c} : runs'[d] = runs[d]
    BY <1>6 DEF PromoteBegin, PromoteRevert, TypeOK
  <2>2. runs[c] # "promoted"
    BY <1>6 DEF PromoteBegin, PromoteRevert, RunBound
  <2>3. Kept
    BY <2>1, <2>2 DEF Kept
  <2>4. \A d \in Calls : pc'[d] \in Holding => pc[d] \in Holding
    BY <1>6 DEF PromoteBegin, PromoteRevert, DropGuard, Goto, TypeOK, Holding, GuardedPcs, DeletePcs
  <2>5. slot' # NoSlot => BackedNext(slot')
    BY <2>1, <2>3, BackedStays DEF RowsBacked
  <2>6. \A d \in Calls : pc'[d] \in Holding => BackedNext(job'[d].slot)
    BY <2>1, <2>3, <2>4, BackedStays DEF RowsBacked
  <2> QED
    BY <1>0, <2>1, <2>5, <2>6, RowsBackedNext
<1>7. CASE LockAges \/ UNCHANGED vars
  <2>1. UNCHANGED <<slot, snapshots, runs, job, pc>>
    BY <1>7 DEF LockAges, vars, rowVars
  <2> QED
    BY <2>1, <1>0, RowsUnchanged
<1>8. ASSUME NEW c \in Calls, PromoteComplete(c) PROVE SnapshotsIncrease' /\ RowsBacked'
  <2> DEFINE new == [job[c].slot EXCEPT !.promoted = job[c].slot.current]
  <2>1. job[c] \in Locals /\ job[c].slot \in Slots /\ Backed(job[c].slot)
    BY <1>8 DEF PromoteComplete, TypeOK, JobBound, RowsBacked, Holding, GuardedPcs
  <2>2. job' = [job EXCEPT ![c] = [job[c] EXCEPT !.slot = new]]
    BY <1>8 DEF PromoteComplete
  <2>3. new.id = job[c].slot.id /\ new.current = job[c].slot.current
        /\ new.promoted = job[c].slot.current
    BY <2>1 DEF Slots
  <2> HIDE DEF new
  <2>4. job'[c].slot = new /\ \A d \in Calls \ {c} : job'[d] = job[d]
    BY <2>1, <2>2 DEF TypeOK, Locals
  <2>5. /\ UNCHANGED <<slot, snapshots>> /\ runs'[c] = "promoted" /\ runs[c] # "promoted"
        /\ \A d \in Calls \ {c} : runs'[d] = runs[d]
    BY <1>8 DEF PromoteComplete, RunBound, TypeOK
  <2>6. Kept
    BY <2>4, <2>5 DEF Kept
  <2>7. \A d \in Calls : pc'[d] \in Holding => pc[d] \in Holding
    BY <1>8 DEF PromoteComplete, Goto, TypeOK, Holding, GuardedPcs
  <2>8. BackedNext(job'[c].slot)
    <3>1. CurrentBacked(job[c].slot)
      BY <2>1 DEF Backed
    <3> QED
      BY <2>3, <2>4, <2>5, <3>1 DEF BackedNext, CurrentBacked
  <2>9. \A d \in Calls : pc'[d] \in Holding => BackedNext(job'[d].slot)
    BY <2>4, <2>6, <2>7, <2>8, BackedStays DEF RowsBacked
  <2>10. slot' # NoSlot => BackedNext(slot')
    BY <2>5, <2>6, BackedStays DEF RowsBacked
  <2> QED
    BY <1>0, <2>5, <2>9, <2>10, RowsBackedNext
<1>9. ASSUME NEW c \in Calls, SyncRecord(c) PROVE SnapshotsIncrease' /\ RowsBacked'
  <2> DEFINE old == job[c].slot
             next == old.current + 1
             new == [old EXCEPT !.current = next]
             row == [id |-> next, slot |-> old.id]
  <2>1. /\ job[c] \in Locals /\ old \in Slots /\ Backed(old) /\ snapshots \in Seq(Snapshots)
        /\ runs[c] # "promoted"
    BY <1>9 DEF SyncRecord, TypeOK, JobBound, RunBound, RowsBacked, Holding, GuardedPcs
  <2>2. next \in Nat /\ row \in Snapshots
    <3>1. next \in Nat
      BY <2>1, SlotChanges
    <3> HIDE DEF next
    <3> QED
      BY <2>1, <3>1, SlotChanges
  <2>3. new.id = old.id /\ new.current = next /\ new.promoted = old.promoted
    BY <2>1 DEF Slots
  <2>4. row.id = next /\ row.slot = old.id
    OBVIOUS
  <2>5. \A d \in Calls : pc'[d] \in Holding => pc[d] \in Holding
    BY <1>9 DEF SyncRecord, DropGuard, Goto, TypeOK, Holding, GuardedPcs, DeletePcs
  <2>6. UNCHANGED <<slot, runs>>
    BY <1>9 DEF SyncRecord
  <2>7. CASE UNCHANGED <<snapshots, job>>
    BY <2>5, <2>6, <2>7, <1>0, RowsUnchanged
  <2>8. CASE /\ ~ \E i \in DOMAIN snapshots : snapshots[i].id = next
             /\ snapshots' = Append(snapshots, row)
             /\ job' = [job EXCEPT ![c] = [job[c] EXCEPT !.slot = new]]
    <3>1. next = Len(snapshots) + 1
      BY <2>1, <2>8, NextId DEF Backed
    <3> HIDE DEF new, row, next
    <3>2. job'[c].slot = new /\ \A d \in Calls \ {c} : job'[d] = job[d]
      BY <2>1, <2>8 DEF TypeOK, Locals
    <3> HIDE DEF old
    <3>3. /\ DOMAIN snapshots = 1..Len(snapshots) /\ DOMAIN snapshots' = 1..next
          /\ \A i \in 1..Len(snapshots) : snapshots'[i] = snapshots[i]
          /\ snapshots'[next] = row /\ next \in 1..next /\ Len(snapshots) \in Nat
      BY ONLY <2>1, <2>2, <2>8, <3>1
    <3>4. SnapshotsIncrease'
      BY <2>4, <3>1, <3>3 DEF SnapshotsIncrease
    <3>5. Kept
      BY <2>1, <2>6, <3>1, <3>2, <3>3 DEF Kept
    <3>6. BackedNext(new)
      <4>1. BackedNext(old)
        BY <2>1, <3>5, BackedStays
      <4>2. row = [id |-> new.current, slot |-> new.id]
        BY <2>3 DEF row
      <4>3. \E i \in DOMAIN snapshots' : snapshots'[i] = [id |-> new.current, slot |-> new.id]
        BY <3>3, <4>2
      <4> QED
        BY <2>3, <4>1, <4>3 DEF BackedNext
    <3>7. \A d \in Calls : pc'[d] \in Holding => BackedNext(job'[d].slot)
      BY <2>5, <3>2, <3>5, <3>6, BackedStays DEF RowsBacked
    <3>8. slot' # NoSlot => BackedNext(slot')
      BY <2>6, <3>5, BackedStays DEF RowsBacked
    <3> QED
      BY <3>4, <3>7, <3>8, RowsBackedNext
  <2> QED
    BY <1>9, <2>7, <2>8 DEF SyncRecord
<1> QED
  BY <1>1, <1>2, <1>3, <1>4, <1>5, <1>6, <1>7, <1>8, <1>9 DEF Next

\* The row, its copies and the ids of the snapshots in every state.
LEMMA RowsInvariant == Spec => []RowInv
<1>1. Init => SnapshotsIncrease /\ RowsBacked
  <2> SUFFICES ASSUME Init PROVE SnapshotsIncrease /\ RowsBacked
    OBVIOUS
  <2>1. SnapshotsIncrease
    BY DEF Init, SnapshotsIncrease
  <2>2. slot # NoSlot => Backed(slot)
    BY DEF Init, NewSlot, Backed, CurrentBacked, PromotedBacked
  <2>3. \A c \in Calls : pc[c] \notin Holding
    BY DEF Init, Holding, GuardedPcs, DeletePcs
  <2> QED
    BY <2>1, <2>2, <2>3 DEF RowsBacked
<1>2. RowInv /\ [Next]_vars => RowInv'
  BY NextRows, NextCall DEF RowInv
<1>3. Init => RowInv
  BY <1>1, InitCall DEF RowInv
<1> QED
  BY <1>2, <1>3, PTL DEF Spec

\* What the slot's row says of itself happened to it: the current snapshot was
\* recorded and the last promoted one promoted by calls on this slot, although
\* sync, promote and set_mail_capture write whole rows they read earlier.
THEOREM SlotsBacked == Spec => []SlotBacked
<1>1. RowInv => SlotBacked
  BY DEF RowInv, RowsBacked, Backed, CurrentBacked, PromotedBacked, SlotBacked
<1> QED
  BY <1>1, RowsInvariant, PTL

\* "staging_snapshots row has a monotonically increasing snapshot_id": the ids go
\* up by one across deletions, stale rows and failures.
THEOREM SnapshotIdsIncrease == Spec => []SnapshotsIncrease
<1>1. RowInv => SnapshotsIncrease
  BY DEF RowInv
<1> QED
  BY <1>1, RowsInvariant, PTL
=============================================================================
