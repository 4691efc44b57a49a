----------------------- MODULE ArtifactInstallsProofs -----------------------
(***************************************************************************)
(* Theorems about ArtifactInstalls for every number of tasks, entries and  *)
(* files and every number of refreshes and crashes.                        *)
(***************************************************************************)
EXTENDS ArtifactInstalls, TLAPS

\* A task that was started knows its entry.
EntryBound == \A t \in Tasks : pc[t] # "idle" => entry[t] \in Entries

\* Whoever is past AcquireSlot holds the permit.
SlotHeld == \A t \in Tasks : pc[t] \in Working => slot = t

TaskInv == TypeOK /\ EntryBound /\ SlotHeld

\* What a task writes under the gate passed a real digest.
PlacesGood == GateOn => \A t \in Tasks : pc[t] = "place" => bytes[t] = "good"

\* The files a placing task has done with are its own, and its event comes
\* after all of them.
PlacedOwn ==
    \A t \in Tasks :
       /\ pc[t] = "place" => \A f \in Files \ todo[t] : file[entry[t]][f] = bytes[t]
       /\ pc[t] \notin {"settle", "ended"} => t \notin audited
       /\ pc[t] = "settle" => t \in audited
       /\ state[t] = "installed" => pc[t] = "ended"
       /\ t \in audited => entry[t] \in Entries

FileInv == TaskInv /\ PlacesGood /\ PlacedOwn /\ OnlyVerifiedFiles /\ InstalledComplete

-----------------------------------------------------------------------------
\* No task has started.
LEMMA InitTask == Init => TaskInv
  BY ArtifactAssumption
  DEF Init, TaskInv, TypeOK, EntryBound, SlotHeld, Working, Active, Pins

\* The steps of a task, of the client, the catalog and the process keep the
\* types and the permit.
LEMMA NextTask == TaskInv /\ [Next]_vars => TaskInv'
<1> SUFFICES ASSUME TaskInv, [Next]_vars PROVE TaskInv'
  OBVIOUS
<1> USE ArtifactAssumption DEF TaskInv, TypeOK, EntryBound, SlotHeld, Goto, Show, Working, Active, Pins
<1>1. ASSUME NEW t \in Tasks, NEW e \in Entries, StartInstall(t, e) PROVE TaskInv'
  BY <1>1 DEF StartInstall
<1>2. ASSUME NEW t \in Tasks, AcquireSlot(t) PROVE TaskInv'
  BY <1>2 DEF AcquireSlot
<1>3. ASSUME NEW t \in Tasks, Lookup(t) PROVE TaskInv'
  BY <1>3 DEF Lookup
<1>4. ASSUME NEW t \in Tasks, Fetch(t) PROVE TaskInv'
  BY <1>4 DEF Fetch
<1>5. ASSUME NEW t \in Tasks, Verify(t) PROVE TaskInv'
  <2>1. CASE Accepts(t)
    <3>1. /\ pc[t] = "verify" /\ pc' = [pc EXCEPT ![t] = "place"]
          /\ todo' = [todo EXCEPT ![t] = Files]
          /\ UNCHANGED <<pin, refreshes, file, audited, exits, state, slot, entry, seen, bytes>>
      BY <1>5, <2>1 DEF Verify
    <3>2. TypeOK'
      BY <3>1
    <3>3. EntryBound' /\ SlotHeld'
      BY <3>1
    <3> QED
      BY <3>2, <3>3
  <2>2. CASE ~Accepts(t)
    BY <1>5, <2>2 DEF Verify, Fail
  <2> QED
    BY <2>1, <2>2
<1>6. ASSUME NEW t \in Tasks, NEW f \in Files, PlaceFile(t, f) PROVE TaskInv'
  BY <1>6 DEF PlaceFile
<1>7. ASSUME NEW t \in Tasks, NEW f \in Files, PlaceConflicts(t, f) PROVE TaskInv'
  BY <1>7 DEF PlaceConflicts, Fail
<1>8. ASSUME NEW t \in Tasks, NEW f \in Files, PlaceFails(t, f) PROVE TaskInv'
  BY <1>8 DEF PlaceFails, Fail
<1>9. ASSUME NEW t \in Tasks, RecordAudit(t) PROVE TaskInv'
  BY <1>9 DEF RecordAudit
<1>10. ASSUME NEW t \in Tasks, Settle(t) PROVE TaskInv'
  BY <1>10 DEF Settle
<1>11. ASSUME NEW t \in Tasks, Broken(t) PROVE TaskInv'
  BY <1>11 DEF Broken, Fail
<1>12. CASE Refresh
  BY <1>12 DEF Refresh
<1>13. CASE Exit
  <2>1. file' \in [Entries -> [Files -> {"absent", "partial", "good", "bad"}]]
    <3>1. CASE UNCHANGED file
      BY <3>1
    <3>2. CASE file' # file
      <4>1. PICK t \in Tasks, f \in Files :
               file' = [file EXCEPT ![entry[t]][f] = "partial"]
        BY <1>13, <3>2 DEF Exit
      <4> QED
        BY <4>1
    <3> QED
      BY <3>1, <3>2
  <2> QED
    BY <1>13, <2>1 DEF Exit
<1>14. CASE UNCHANGED vars
  BY <1>14 DEF vars
<1> QED
  BY <1>1, <1>2, <1>3, <1>4, <1>5, <1>6, <1>7, <1>8, <1>9, <1>10, <1>11, <1>12, <1>13, <1>14
  DEF Next, Step

\* Every reachable state of the installer is well typed.
THEOREM ArtifactTypes == Spec => []TypeOK
<1>1. TaskInv => TypeOK
  BY DEF TaskInv
<1> QED
  BY <1>1, InitTask, NextTask, PTL DEF Spec

\* At most one task downloads and writes at any time.
THEOREM SingleWriter == Spec => []OnePlacer
<1>1. TaskInv => OnePlacer
  BY DEF TaskInv, SlotHeld, OnePlacer
<1> QED
  BY <1>1, InitTask, NextTask, PTL DEF Spec

-----------------------------------------------------------------------------
\* create_new: a step that writes only where nothing was leaves the files of
\* every audited install as they were.
LEMMA AuditedKept ==
  ASSUME TypeOK, PlacedOwn, InstalledComplete,
         bytes' = bytes /\ entry' = entry /\ audited' = audited,
         \A e \in Entries : \A g \in Files : file'[e][g] = file[e][g] \/ file[e][g] = "absent"
  PROVE  (\A t \in audited : \A f \in Files : file[entry[t]][f] = bytes[t])'
<1> SUFFICES ASSUME NEW t \in audited, NEW f \in Files PROVE file'[entry[t]][f] = bytes[t]
  OBVIOUS
<1>1. t \in Tasks /\ entry[t] \in Entries
  BY DEF TypeOK, PlacedOwn
<1>2. file[entry[t]][f] = bytes[t]
  BY DEF InstalledComplete
<1>3. bytes[t] # "absent"
  BY <1>1 DEF TypeOK
<1> QED
  BY <1>1, <1>2, <1>3

\* No step spoils what is on disk, and none writes what was not verified.
LEMMA NextFile == FileInv /\ [Next]_vars => FileInv'
<1> SUFFICES ASSUME FileInv, [Next]_vars PROVE FileInv'
  OBVIOUS
<1>0. TaskInv /\ TaskInv'
  BY NextTask DEF FileInv
<1>a. TypeOK /\ EntryBound
  BY <1>0 DEF TaskInv
<1> DEFINE Rest == PlacesGood /\ PlacedOwn /\ OnlyVerifiedFiles /\ InstalledComplete
<1>b. Rest
  BY DEF FileInv
<1> USE DEF PlacesGood, PlacedOwn, OnlyVerifiedFiles, InstalledComplete, TypeOK, EntryBound,
            Goto, Show, Working, Active, Pins
<1>1. ASSUME NEW t \in Tasks, NEW e \in Entries, StartInstall(t, e) PROVE Rest'
  BY <1>a, <1>b, <1>1 DEF StartInstall
<1>2. ASSUME NEW t \in Tasks, AcquireSlot(t) PROVE Rest'
  BY <1>a, <1>b, <1>2 DEF AcquireSlot
<1>3. ASSUME NEW t \in Tasks, Lookup(t) PROVE Rest'
  BY <1>a, <1>b, <1>3 DEF Lookup
<1>4. ASSUME NEW t \in Tasks, Fetch(t) PROVE Rest'
  BY <1>a, <1>b, <1>4 DEF Fetch
<1>5. ASSUME NEW t \in Tasks, Verify(t) PROVE Rest'
  <2>1. CASE Accepts(t)
    BY <1>a, <1>b, <1>5, <2>1 DEF Verify, Accepts
  <2>2. CASE ~Accepts(t)
    BY <1>a, <1>b, <1>5, <2>2 DEF Verify, Fail
  <2> QED
    BY <2>1, <2>2
<1>6. ASSUME NEW t \in Tasks, NEW f \in Files, PlaceFile(t, f) PROVE Rest'
  <2>1. pc' = pc /\ bytes' = bytes /\ entry' = entry /\ audited' = audited /\ state' = state
    BY <1>6 DEF PlaceFile
  <2>2. \A e \in Entries : \A g \in Files :
           \/ file'[e][g] = file[e][g]
           \/ e = entry[t] /\ g = f /\ file[e][g] = "absent" /\ file'[e][g] = bytes[t]
    BY <1>a, <1>6 DEF PlaceFile
  <2>3. \A u \in Tasks : u # t => todo'[u] = todo[u]
    BY <1>a, <1>6 DEF PlaceFile
  <2>4. todo'[t] = todo[t] \ {f} /\ pc[t] = "place" /\ entry[t] \in Entries
    BY <1>a, <1>6 DEF PlaceFile
  <2>5. file'[entry[t]][f] = bytes[t]
    BY <1>a, <1>6, <2>4 DEF PlaceFile
  <2>6. PlacesGood' /\ OnlyVerifiedFiles'
    BY <1>a, <1>b, <2>1, <2>2, <2>4
  <2>7. PlacedOwn'
    BY <1>a, <1>b, <2>1, <2>2, <2>3, <2>4, <2>5
  <2>8. InstalledComplete'
    <3>1. \A e \in Entries : \A g \in Files : file'[e][g] = file[e][g] \/ file[e][g] = "absent"
      BY <2>2
    <3>2. (\A u \in audited : \A g \in Files : file[entry[u]][g] = bytes[u])'
      BY <1>a, <1>b, <2>1, <3>1, AuditedKept
    <3>3. (\A u \in Tasks : state[u] = "installed" => u \in audited)'
      BY <1>b, <2>1
    <3> QED
      BY <3>2, <3>3
  <2> QED
    BY <2>6, <2>7, <2>8
<1>7. ASSUME NEW t \in Tasks, NEW f \in Files, PlaceConflicts(t, f) PROVE Rest'
  BY <1>a, <1>b, <1>7 DEF PlaceConflicts, Fail
<1>8. ASSUME NEW t \in Tasks, NEW f \in Files, PlaceFails(t, f) PROVE Rest'
  <2>1. bytes' = bytes /\ entry' = entry /\ audited' = audited /\ todo' = todo
    BY <1>8 DEF PlaceFails
  <2>2. \A e \in Entries : \A g \in Files :
           \/ file'[e][g] = file[e][g]
           \/ file[e][g] = "absent" /\ file'[e][g] = "partial"
    BY <1>a, <1>8 DEF PlaceFails
  <2>3. /\ pc' = [pc EXCEPT ![t] = "ended"] /\ state' = [state EXCEPT ![t] = "failed"]
        /\ pc[t] = "place"
    BY <1>8 DEF PlaceFails, Fail
  <2>4. PlacesGood' /\ OnlyVerifiedFiles'
    BY <1>a, <1>b, <2>1, <2>2, <2>3
  <2>5. PlacedOwn'
    BY <1>a, <1>b, <2>1, <2>2, <2>3
  <2>6. InstalledComplete'
    <3>1. \A e \in Entries : \A g \in Files : file'[e][g] = file[e][g] \/ file[e][g] = "absent"
      BY <2>2
    <3>2. (\A u \in audited : \A g \in Files : file[entry[u]][g] = bytes[u])'
      BY <1>a, <1>b, <2>1, <3>1, AuditedKept
    <3>3. (\A u \in Tasks : state[u] = "installed" => u \in audited)'
      BY <1>a, <1>b, <2>1, <2>3
    <3> QED
      BY <3>2, <3>3
  <2> QED
    BY <2>4, <2>5, <2>6
<1>9. ASSUME NEW t \in Tasks, RecordAudit(t) PROVE Rest'
  BY <1>a, <1>b, <1>9 DEF RecordAudit
<1>10. ASSUME NEW t \in Tasks, Settle(t) PROVE Rest'
  BY <1>a, <1>b, <1>10 DEF Settle
<1>11. ASSUME NEW t \in Tasks, Broken(t) PROVE Rest'
  BY <1>a, <1>b, <1>11 DEF Broken, Fail
<1>12. ASSUME Refresh PROVE Rest'
  BY <1>a, <1>b, <1>12 DEF Refresh
<1>13. ASSUME Exit PROVE Rest'
  <2>1. bytes' = bytes /\ entry' = entry /\ audited' = audited /\ todo' = todo
    BY <1>13 DEF Exit
  <2>2. \A e \in Entries : \A g \in Files :
           \/ file'[e][g] = file[e][g]
           \/ file[e][g] = "absent" /\ file'[e][g] = "partial"
    <3>1. CASE UNCHANGED file
      BY <3>1
    <3>2. CASE file' # file
      <4>1. PICK t \in Tasks, f \in Files :
               /\ entry[t] \in Entries /\ file[entry[t]][f] = "absent"
               /\ file' = [file EXCEPT ![entry[t]][f] = "partial"]
        BY <1>a, <1>13, <3>2 DEF Exit
      <4> QED
        BY <1>a, <4>1
    <3> QED
      BY <3>1, <3>2
  <2>3. \A t \in Tasks : /\ pc'[t] = (IF pc[t] = "idle" THEN "idle" ELSE "ended")
                        /\ state'[t] = "none"
    BY <1>13 DEF Exit
  <2>4. PlacesGood' /\ OnlyVerifiedFiles'
    <3>1. PlacesGood'
      BY <2>3
    <3>2. OnlyVerifiedFiles'
      BY <1>b, <2>2
    <3> QED
      BY <3>1, <3>2
  <2>5. PlacedOwn'
    BY <1>a, <1>b, <2>1, <2>2, <2>3
  <2>6. InstalledComplete'
    <3>1. \A e \in Entries : \A g \in Files : file'[e][g] = file[e][g] \/ file[e][g] = "absent"
      BY <2>2
    <3>2. (\A u \in audited : \A g \in Files : file[entry[u]][g] = bytes[u])'
      BY <1>a, <1>b, <2>1, <3>1, AuditedKept
    <3>3. (\A u \in Tasks : state[u] = "installed" => u \in audited)'
      BY <2>3
    <3> QED
      BY <3>2, <3>3
  <2> QED
    BY <2>4, <2>5, <2>6
<1>14. ASSUME UNCHANGED vars PROVE Rest'
  BY <1>b, <1>14 DEF vars
<1>15. Rest'
  BY <1>1, <1>2, <1>3, <1>4, <1>5, <1>6, <1>7, <1>8, <1>9, <1>10, <1>11, <1>12, <1>13, <1>14
  DEF Next, Step
<1> QED
  BY <1>0, <1>15 DEF FileInv

\* Nothing is installed before the first task runs.
LEMMA InitFile == Init => FileInv
  BY ArtifactAssumption
  DEF Init, FileInv, TaskInv, TypeOK, EntryBound, SlotHeld, PlacesGood, PlacedOwn,
      OnlyVerifiedFiles, InstalledComplete, Working, Active, Pins

\* With the gate on nothing unverified reaches the disk, however the catalog
\* is refreshed while tasks wait.
THEOREM GateHolds == Spec => []OnlyVerifiedFiles
<1>1. FileInv => OnlyVerifiedFiles
  BY DEF FileInv
<1> QED
  BY <1>1, InitFile, NextFile, PTL DEF Spec

\* An audited or installed entry is complete and stays so.
THEOREM InstalledStaysComplete == Spec => []InstalledComplete
<1>1. FileInv => InstalledComplete
  BY DEF FileInv
<1> QED
  BY <1>1, InitFile, NextFile, PTL DEF Spec
=============================================================================
