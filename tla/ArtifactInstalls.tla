-------------------------- MODULE ArtifactInstalls --------------------------
(***************************************************************************)
(* Background installs of pinned web artifacts.  Each task waits for the   *)
(* one-permit slot, reads the entry from the catalog again, downloads the  *)
(* artifact, checks its digest, writes its files, records the audit event  *)
(* and settles.  Tasks live in memory; files, catalog and audit survive    *)
(* the process.                                                            *)
(***************************************************************************)
EXTENDS Naturals, FiniteSets

CONSTANTS
    Tasks,         \* install tasks, one per request
    Entries,       \* web entries of the catalog
    Files,         \* files of every artifact
    GateOn,        \* require_verified_digests
    MaxExits,      \* bound on process deaths
    MaxRefreshes,  \* bound on catalog refreshes
    NoTask, NoEntry

ASSUME ArtifactAssumption ==
    /\ GateOn \in BOOLEAN
    /\ MaxExits \in Nat /\ MaxRefreshes \in Nat
    /\ NoTask \notin Tasks /\ NoEntry \notin Entries

VARIABLES
    pin,       \* the digest the catalog pins for an entry: real or placeholder
    refreshes, \* catalog refreshes so far
    file,      \* what is on disk: absent, partial, good (as published), bad
    audited,   \* tasks with a SoftwareArtifactInstalled event
    exits,     \* process deaths so far
    state,     \* artifact_tasks: the InstallTaskState, none if not registered
    slot,      \* holder of the artifact_slot permit
    pc,        \* where the spawned task stands
    entry,     \* the entry it installs
    seen,      \* the pin it read from the catalog
    bytes,     \* what it downloaded: good or bad
    todo       \* files it still has to write

vars == <<pin, refreshes, file, audited, exits, state, slot, pc, entry, seen, bytes, todo>>

Pins == {"real", "placeholder"}
Active == {"queued", "downloading", "placing"}
Working == {"lookup", "fetch", "verify", "place", "settle"}

Init ==
    /\ pin \in [Entries -> Pins]
    /\ refreshes = 0
    /\ file = [e \in Entries |-> [f \in Files |-> "absent"]]
    /\ audited = {}
    /\ exits = 0
    /\ state = [t \in Tasks |-> "none"]
    /\ slot = NoTask
    /\ pc = [t \in Tasks |-> "idle"]
    /\ entry = [t \in Tasks |-> NoEntry]
    /\ seen = [t \in Tasks |-> "real"]
    /\ bytes = [t \in Tasks |-> "good"]
    /\ todo = [t \in Tasks |-> {}]

Goto(t, l) == pc' = [pc EXCEPT ![t] = l]
Show(t, s) == state' = [state EXCEPT ![t] = s]

\* refresh_catalog replaces every entry in one transaction.
Refresh ==
    /\ refreshes < MaxRefreshes
    /\ refreshes' = refreshes + 1
    /\ pin' \in [Entries -> Pins]
    /\ UNCHANGED <<file, audited, exits, state, slot, pc, entry, seen, bytes, todo>>

\* start_artifact_install: the placeholder check, then the queued task.
StartInstall(t, e) ==
    /\ pc[t] = "idle"
    /\ ~(GateOn /\ pin[e] = "placeholder")
    /\ entry' = [entry EXCEPT ![t] = e]
    /\ Show(t, "queued")
    /\ Goto(t, "wait")
    /\ UNCHANGED <<pin, refreshes, file, audited, exits, slot, seen, bytes, todo>>

\* Mutant: the permit is not waited for.
AcquireFreely(t) ==
    /\ pc[t] = "wait"
    /\ slot' = t
    /\ Goto(t, "lookup")
    /\ UNCHANGED <<pin, refreshes, file, audited, exits, state, entry, seen, bytes, todo>>

\* artifact_slot.acquire().await
AcquireSlot(t) ==
    /\ pc[t] = "wait"
    /\ slot = NoTask
    /\ slot' = t
    /\ Goto(t, "lookup")
    /\ UNCHANGED <<pin, refreshes, file, audited, exits, state, entry, seen, bytes, todo>>

\* run_artifact_install reads the entry again and starts the download.
Lookup(t) ==
    /\ pc[t] = "lookup"
    /\ seen' = [seen EXCEPT ![t] = pin[entry[t]]]
    /\ Show(t, "downloading")
    /\ Goto(t, "fetch")
    /\ UNCHANGED <<pin, refreshes, file, audited, exits, slot, entry, bytes, todo>>

\* The server answers with the published bytes or with others.
Fetch(t) ==
    /\ pc[t] = "fetch"
    /\ \E b \in {"good", "bad"} : bytes' = [bytes EXCEPT ![t] = b]
    /\ Show(t, "placing")
    /\ Goto(t, "verify")
    /\ UNCHANGED <<pin, refreshes, file, audited, exits, slot, entry, seen, todo>>

\* Mutant: an error leaves the permit with a task that is gone.
FailKeepsSlot(t) ==
    /\ Show(t, "failed")
    /\ Goto(t, "ended")
    /\ UNCHANGED slot

\* An error ends the task: failed, and the permit goes back.
Fail(t) ==
    /\ Show(t, "failed")
    /\ Goto(t, "ended")
    /\ slot' = NoTask

\* Mutant: place_artifact_with_gate trusts the check made at the start.
AcceptsPinned(t) == seen[t] = "placeholder" \/ bytes[t] = "good"

\* place_artifact_with_gate: the gate, then the digest of a real pin.
Accepts(t) ==
    /\ ~(GateOn /\ seen[t] = "placeholder")
    /\ seen[t] = "real" => bytes[t] = "good"

\* A refused download ends the task before a file is created.
Verify(t) ==
    /\ pc[t] = "verify"
    /\ IF Accepts(t)
       THEN /\ todo' = [todo EXCEPT ![t] = Files]
            /\ Goto(t, "place")
            /\ UNCHANGED <<state, slot>>
       ELSE Fail(t) /\ UNCHANGED todo
    /\ UNCHANGED <<pin, refreshes, file, audited, exits, entry, seen, bytes>>

\* OpenOptions::create_new, write, flush.
PlaceFile(t, f) ==
    /\ pc[t] = "place" /\ f \in todo[t]
    /\ file[entry[t]][f] = "absent"
    /\ file' = [file EXCEPT ![entry[t]][f] = bytes[t]]
    /\ todo' = [todo EXCEPT ![t] = @ \ {f}]
    /\ UNCHANGED <<pin, refreshes, audited, exits, state, slot, pc, entry, seen, bytes>>

\* Mutant: a file that is there already is taken as placed.
PlaceSkips(t, f) ==
    /\ pc[t] = "place" /\ f \in todo[t]
    /\ file[entry[t]][f] # "absent"
    /\ todo' = [todo EXCEPT ![t] = @ \ {f}]
    /\ UNCHANGED <<pin, refreshes, file, audited, exits, state, slot, pc, entry, seen, bytes>>

\* A file that exists already ends the install; what was written stays.
PlaceConflicts(t, f) ==
    /\ pc[t] = "place" /\ f \in todo[t]
    /\ file[entry[t]][f] # "absent"
    /\ Fail(t)
    /\ UNCHANGED <<pin, refreshes, file, audited, exits, entry, seen, bytes, todo>>

\* So does a failed write, which leaves the file created and incomplete.
PlaceFails(t, f) ==
    /\ pc[t] = "place" /\ f \in todo[t]
    /\ file[entry[t]][f] = "absent"
    /\ file' = [file EXCEPT ![entry[t]][f] = "partial"]
    /\ Fail(t)
    /\ UNCHANGED <<pin, refreshes, audited, exits, entry, seen, bytes, todo>>

\* With every file in place the audit event is stored.
RecordAudit(t) ==
    /\ pc[t] = "place" /\ todo[t] = {}
    /\ audited' = audited \cup {t}
    /\ Goto(t, "settle")
    /\ UNCHANGED <<pin, refreshes, file, exits, state, slot, entry, seen, bytes, todo>>

\* The task shows Installed and its permit goes back.
Settle(t) ==
    /\ pc[t] = "settle"
    /\ Show(t, "installed")
    /\ Goto(t, "ended")
    /\ slot' = NoTask
    /\ UNCHANGED <<pin, refreshes, file, audited, exits, entry, seen, bytes, todo>>

\* The entry is gone, the download fails, an archive member is refused, or
\* the audit event is not stored although the files are in place.
Broken(t) ==
    /\ pc[t] \in {"lookup", "fetch", "place"}
    /\ Fail(t)
    /\ UNCHANGED <<pin, refreshes, file, audited, exits, entry, seen, bytes, todo>>

\* The process dies and starts again: every task is gone, and the file that
\* was being written stays as it was left.
Exit ==
    /\ exits < MaxExits
    /\ exits' = exits + 1
    /\ state' = [t \in Tasks |-> "none"]
    /\ pc' = [t \in Tasks |-> IF pc[t] = "idle" THEN "idle" ELSE "ended"]
    /\ slot' = NoTask
    /\ \/ UNCHANGED file
       \/ \E t \in Tasks : \E f \in todo[t] :
             /\ pc[t] = "place" /\ file[entry[t]][f] = "absent"
             /\ file' = [file EXCEPT ![entry[t]][f] = "partial"]
    /\ UNCHANGED <<pin, refreshes, audited, entry, seen, bytes, todo>>

Step(t) ==
    \/ AcquireSlot(t) \/ Lookup(t) \/ Verify(t)
    \/ \E f \in Files : PlaceFile(t, f) \/ PlaceConflicts(t, f)
    \/ RecordAudit(t) \/ Settle(t)

Next ==
    \/ \E t \in Tasks : \/ \E e \in Entries : StartInstall(t, e)
                        \/ Step(t) \/ Fetch(t) \/ Broken(t)
                        \/ \E f \in Files : PlaceFails(t, f)
    \/ Refresh
    \/ Exit

Spec == Init /\ [][Next]_vars

\* A spawned task is polled until it ends; the semaphore is fair to waiters.
\* The download has no fairness: see DownloadsEnd.
FairSpec == /\ Spec
            /\ \A t \in Tasks : WF_vars(Step(t)) /\ SF_vars(AcquireSlot(t))

-----------------------------------------------------------------------------
\* Every value of artifact_tasks is an InstallTaskState, the permit has at
\* most one holder, and every file is in one of the states a write leaves.
TypeOK ==
    /\ pin \in [Entries -> Pins]
    /\ refreshes \in 0..MaxRefreshes
    /\ file \in [Entries -> [Files -> {"absent", "partial", "good", "bad"}]]
    /\ audited \subseteq Tasks
    /\ exits \in 0..MaxExits
    /\ state \in [Tasks -> Active \cup {"none", "installed", "failed"}]
    /\ slot \in Tasks \cup {NoTask}
    /\ pc \in [Tasks -> Working \cup {"idle", "wait", "ended"}]
    /\ entry \in [Tasks -> Entries \cup {NoEntry}]
    /\ seen \in [Tasks -> Pins]
    /\ bytes \in [Tasks -> {"good", "bad"}]
    /\ todo \in [Tasks -> SUBSET Files]

\* start_artifact_install: artifact_slot lets one task at a time download
\* and write, through every early return and every death of the process.
OnePlacer == \A t, u \in Tasks : pc[t] \in Working /\ pc[u] \in Working => t = u

\* run_artifact_install: an audited install left every file of its entry
\* complete and made of its own download, whatever a failed or killed install
\* of the same entry left there before, and a task is shown as Installed only
\* with its audit event.
InstalledComplete ==
    /\ \A t \in audited : \A f \in Files : file[entry[t]][f] = bytes[t]
    /\ \A t \in Tasks : state[t] = "installed" => t \in audited

\* place_artifact_with_gate: with the gate on, no byte other than those a
\* real digest vouches for is written, although the pin checked at the
\* request may be replaced while the task waits for its turn.
OnlyVerifiedFiles ==
    GateOn => \A e \in Entries : \A f \in Files : file[e][f] # "bad"

\* No download runs for ever.  ReqwestArtifactFetcher sets no timeout, so the code
\* leaves this to the server it reads from.
DownloadsEnd == \A t \in Tasks : []<>(pc[t] # "fetch")

\* start_artifact_install: unless a download stalls, a task that is queued or
\* running becomes terminal or is gone with its process, whoever held the permit
\* before it; the storefront's poll of it ends.
TasksSettle == DownloadsEnd => \A t \in Tasks : state[t] \in Active ~> state[t] \notin Active
=============================================================================
