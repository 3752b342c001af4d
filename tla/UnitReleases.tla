---------------------------- MODULE UnitReleases ----------------------------
(***************************************************************************)
(* The life of the releases of one deployment unit: CI uploads a package   *)
(* (web/mod.rs, runtimefs.rs), application releases refer to it            *)
(* (application_releases.rs), deployments of one environment use it        *)
(* (deployment_orchestrator.rs), and operators archive, delete and clean   *)
(* up (deployment_retention.rs), while clients and the console go away at  *)
(* any moment.                                                             *)
(*                                                                         *)
(* Abstractions.  Every transaction and every operation on the file system *)
(* is one step.  A package is its checksum, a member of Content, and the   *)
(* body of a request besides it is its version.  A unit release is known   *)
(* by its version; application releases, runs and requests have            *)
(* identifiers that are used once and taken in a fixed order.  The         *)
(* idempotency records do not live to be 24 hours old.                     *)
(* The application has one unit and one environment; what a run does       *)
(* besides is the subject of DeploymentOrchestrator, and a run that is     *)
(* queued, running or reconciling is "active" here.  Packages are in local *)
(* storage.  Old queue items and tasks that refer to an application        *)
(* release are left out: they only keep it from being deleted.             *)
(***************************************************************************)
EXTENDS Naturals, FiniteSets

CONSTANTS
    Version,     \* versions of the unit
    Uploaded,    \* those that were uploaded before
    Content,     \* checksums of packages
    Old,         \* what the packages uploaded before contain
    Key,         \* idempotency keys
    Request,     \* upload requests, each used once
    AppRelease,  \* application releases
    Run,         \* runs of the environment
    Cleaner,     \* clean-up requests, and the one at start-up
    Boot,        \* that one
    MaxCrashes,  \* bound of the crashes of the console
    MaxDrops,    \* bound of the clean-up requests whose client goes away
    None         \* no version, release, content or key

ASSUME UploadedAssumption == Uploaded \subseteq Version /\ Old \in Content
ASSUME BootAssumption == Boot \in Cleaner
ASSUME BoundAssumption == MaxCrashes \in Nat /\ MaxDrops \in Nat
ASSUME NoneAssumption == None \notin Version \cup Content \cup Key \cup AppRelease
ASSUME DiskAssumption == {"absent", "empty"} \cap Content = {}

VARIABLES
    phase,     \* "down", "starting" (recover_deleting_artifacts), "serving"
    row,       \* deployment_unit_releases
    disk,      \* releases/<version> of the unit: absent, without package, or what
               \* the package contains
    record,    \* api_idempotency_records of "unit_release.upload"
    rq,        \* the futures of api_v1_upload_unit_release
    manifest,  \* app_releases with application_release_manifests, app_release_units
    run,       \* environment_deployment_runs with the result row of the unit
    current,   \* app_environments.current_app_release_id
    state,     \* deployment_unit_runtime_states.active_unit_release_id
    cleaner,   \* the futures of cleanup_artifact
    boot,      \* identifiers recover_deleting_artifacts still goes through
    crashes,
    drops

artifactVars == <<row, disk>>
uploadVars == <<record, rq>>
deployVars == <<manifest, run, current, state>>
cleanVars == <<cleaner, boot>>
limitVars == <<crashes, drops>>
vars == <<phase, row, disk, record, rq, manifest, run, current, state, cleaner,
          boot, crashes, drops>>

UnitRelease == [status : {"none", "active", "deleting", "delete_failed", "deleted"},
                checksum : Content \cup {None}]
Record == [version : Version \cup {None}, content : Content \cup {None}]
Upload == [pc : {"idle", "promote", "register", "remove", "store", "done"},
           key : Key \cup {None}, version : Version \cup {None}, content : Content \cup {None}]
Manifest == [status : {"none", "ready", "archived", "deleted"},
             base : AppRelease \cup {None}, unit : Version \cup {None}]
RunRow == [status : {"none", "active", "settled", "deleted"},
           release : AppRelease \cup {None}, unit : Version \cup {None},
           snapshot : {"active", "deleted"}, logs : {"kept", "deleted"}]
Cleanup == [pc : {"idle", "look", "remove", "finish", "fail"},
            version : Version \cup {None}, targets : SUBSET {"package", "dir"}]

NoRelease == [status |-> "none", checksum |-> None]
NoRecord == [version |-> None, content |-> None]
NoUpload == [pc |-> "idle", key |-> None, version |-> None, content |-> None]
Answered == [pc |-> "done", key |-> None, version |-> None, content |-> None]
NoManifest == [status |-> "none", base |-> None, unit |-> None]
NoRun == [status |-> "none", release |-> None, unit |-> None, snapshot |-> "active",
          logs |-> "kept"]
NoCleanup == [pc |-> "idle", version |-> None, targets |-> {}]

\* the identifier that is taken next, if there is one
First(unused) == IF unused = {} THEN {} ELSE {CHOOSE x \in unused : TRUE}

Exists(r) == manifest[r].status \in {"ready", "archived"}

Init ==
    /\ phase = "serving"
    /\ row = [v \in Version |-> IF v \in Uploaded THEN [status |-> "active", checksum |-> Old]
                                ELSE NoRelease]
    /\ disk = [v \in Version |-> IF v \in Uploaded THEN Old ELSE "absent"]
    /\ record = [k \in Key |-> NoRecord]
    /\ rq = [q \in Request |-> NoUpload]
    /\ manifest = [r \in AppRelease |-> NoManifest]
    /\ run = [d \in Run |-> NoRun]
    /\ current = None
    /\ state = None
    /\ cleaner = [g \in Cleaner |-> NoCleanup]
    /\ boot = {}
    /\ crashes = 0
    /\ drops = 0

-----------------------------------------------------------------------------
(* api_v1_upload_unit_release *)

UploadUnchanged == <<phase, deployVars, cleanVars, limitVars>>

\* idempotency_replay, whose request hash covers the version and the checksum,
\* then stage_unit_release_package_file into a directory of the request's own.
\* A key on record answers for the request: with the old response if it was
\* used for the same request, with a conflict if not.
BeginUpload(q, k, v, c) ==
    /\ phase = "serving"
    /\ q \in First({p \in Request : rq[p].pc = "idle"})
    /\ \/ /\ record[k] = NoRecord
          /\ rq' = [rq EXCEPT ![q] = [pc |-> "promote", key |-> k, version |-> v, content |-> c]]
       \/ /\ record[k] # NoRecord
          /\ rq' = [rq EXCEPT ![q] = Answered]
    /\ UNCHANGED <<artifactVars, record, UploadUnchanged>>

\* Mutant: the promotion replaces the directory of the version.
Promote_Replaces(q) ==
    /\ rq[q].pc = "promote"
    /\ disk' = [disk EXCEPT ![rq[q].version] = rq[q].content]
    /\ rq' = [rq EXCEPT ![q].pc = "register"]
    /\ UNCHANGED <<row, record, UploadUnchanged>>

\* promote_staged_release_package: the rename does not replace a directory, and
\* the request ends with UNIT_VERSION_EXISTS.
Promote(q) ==
    /\ rq[q].pc = "promote"
    /\ LET v == rq[q].version IN
       \/ /\ disk[v] = "absent"
          /\ disk' = [disk EXCEPT ![v] = rq[q].content]
          /\ rq' = [rq EXCEPT ![q].pc = "register"]
       \/ /\ disk[v] # "absent"
          /\ disk' = disk
          /\ rq' = [rq EXCEPT ![q] = Answered]
    /\ UNCHANGED <<row, record, UploadUnchanged>>

\* Mutant: any package of a version on record will do.
Accepted_AnyPackage(v, c) == TRUE

\* what register_unit_release accepts of a version that is on record
Accepted(v, c) == row[v].checksum = c

\* register_unit_release: a version on record is returned as it is if the
\* checksum agrees, whatever became of its package.
Register(q) ==
    /\ rq[q].pc = "register"
    /\ LET v == rq[q].version
           c == rq[q].content
       IN \/ /\ row[v].status = "none"
             /\ row' = [row EXCEPT ![v] = [status |-> "active", checksum |-> c]]
             /\ rq' = [rq EXCEPT ![q].pc = "store"]
          \/ /\ row[v].status # "none"
             /\ row' = row
             /\ rq' = [rq EXCEPT ![q].pc = IF Accepted(v, c) THEN "store" ELSE "remove"]
    /\ UNCHANGED <<disk, record, UploadUnchanged>>

\* the database refuses
RegisterFails(q) ==
    /\ rq[q].pc = "register"
    /\ rq' = [rq EXCEPT ![q].pc = "remove"]
    /\ UNCHANGED <<artifactVars, record, UploadUnchanged>>

\* remove_promoted_release_package, whose failure is ignored
Remove(q) ==
    /\ rq[q].pc = "remove"
    /\ disk' \in {disk, [disk EXCEPT ![rq[q].version] = "absent"]}
    /\ rq' = [rq EXCEPT ![q] = Answered]
    /\ UNCHANGED <<row, record, UploadUnchanged>>

\* store_idempotency_response; a request that finds a record ends with a conflict.
Store(q) ==
    /\ rq[q].pc = "store"
    /\ LET k == rq[q].key IN
       \/ /\ record[k] = NoRecord
          /\ record' = [record EXCEPT ![k] = [version |-> rq[q].version,
                                              content |-> rq[q].content]]
          /\ rq' = [rq EXCEPT ![q] = Answered]
       \/ /\ record[k] # NoRecord
          /\ record' = record
          /\ rq' = [rq EXCEPT ![q] = Answered]
    /\ UNCHANGED <<artifactVars, UploadUnchanged>>

\* The client goes away and the future is dropped at an await.
DropUpload(q) ==
    /\ rq[q].pc \notin {"idle", "done"}
    /\ rq' = [rq EXCEPT ![q] = Answered]
    /\ UNCHANGED <<artifactVars, record, UploadUnchanged>>

-----------------------------------------------------------------------------
(* create_application_release *)

\* Mutant: an inherited unit is not resolved when the release is created.
UnitOf_Unresolved(base, change) == change

\* A unit that changes needs an active release, one that is inherited is taken
\* from the manifest of the base as it is.  (Two manifests with the same unit
\* differ in the configuration they select; equal ones are refused.)
UnitOf(base, change) == IF change = "inherit" THEN manifest[base].unit ELSE change

CreateAppRelease(r, base, change) ==
    /\ phase = "serving"
    /\ r \in First({s \in AppRelease : manifest[s].status = "none"})
    /\ IF base = None THEN change # "inherit"
       ELSE base # r /\ manifest[base].status = "ready"
    /\ change \in Version => row[change].status = "active"
    /\ manifest' = [manifest EXCEPT ![r] = [status |-> "ready", base |-> base,
                                            unit |-> UnitOf(base, change)]]
    /\ UNCHANGED <<phase, artifactVars, uploadVars, run, current, state, cleanVars, limitVars>>

-----------------------------------------------------------------------------
(* Runs of the environment *)

RunUnchanged == <<phase, artifactVars, uploadVars, manifest, cleanVars, limitVars>>

CreateRun(d, r) ==
    /\ phase = "serving"
    /\ d \in First({e \in Run : run[e].status = "none"})
    /\ \A e \in Run : run[e].status # "active"
    /\ manifest[r].status = "ready"
    /\ run' = [run EXCEPT ![d] = [status |-> "active", release |-> r, unit |-> manifest[r].unit,
                                  snapshot |-> "active", logs |-> "kept"]]
    /\ UNCHANGED <<current, state, RunUnchanged>>

\* persist_unit_outcome of a unit that succeeded
UnitSucceeds(d) ==
    /\ phase = "serving" /\ run[d].status = "active"
    /\ state' = run[d].unit
    /\ UNCHANGED <<run, current, RunUnchanged>>

\* finalize_deployment_run, fail_run_on_internal_error and the other ways to
\* end a run: only success, of all units, moves the environment.
SettleRun(d) ==
    /\ phase = "serving" /\ run[d].status = "active"
    /\ run' = [run EXCEPT ![d].status = "settled"]
    /\ \/ current' = current
       \/ state = run[d].unit /\ current' = run[d].release
    /\ UNCHANGED <<state, RunUnchanged>>

-----------------------------------------------------------------------------
(* Archiving and deleting *)

Operator == phase = "serving"

ArchiveBlocked(r) ==
    \/ current = r
    \/ \E d \in Run : run[d].status = "active" /\ run[d].release = r

DeleteBlocked(r) ==
    \/ current = r
    \/ \E d \in Run : run[d].status \in {"active", "settled"} /\ run[d].release = r
    \/ \E s \in AppRelease : Exists(s) /\ manifest[s].base = r

\* archive_application_release
Archive(r) ==
    /\ Operator
    /\ manifest[r].status = "ready" /\ ~ArchiveBlocked(r)
    /\ manifest' = [manifest EXCEPT ![r].status = "archived"]
    /\ UNCHANGED <<run, current, state, phase, artifactVars, uploadVars, cleanVars, limitVars>>

\* delete_application_release
DeleteAppRelease(r) ==
    /\ Operator
    /\ manifest[r].status = "archived" /\ ~DeleteBlocked(r)
    /\ manifest' = [manifest EXCEPT ![r] = [NoManifest EXCEPT !.status = "deleted"]]
    /\ UNCHANGED <<run, current, state, phase, artifactVars, uploadVars, cleanVars, limitVars>>

\* delete_task_logs of the run's task
DeleteLogs(d) ==
    /\ Operator
    /\ run[d].status = "settled" /\ run[d].logs = "kept"
    /\ run' = [run EXCEPT ![d].logs = "deleted"]
    /\ UNCHANGED <<current, state, RunUnchanged>>

\* delete_deployment_snapshot, which also forgets the unit releases of the results
DeleteSnapshot(d) ==
    /\ Operator
    /\ run[d].status = "settled" /\ run[d].snapshot = "active"
    /\ run' = [run EXCEPT ![d] = [@ EXCEPT !.snapshot = "deleted", !.unit = None]]
    /\ UNCHANGED <<current, state, RunUnchanged>>

HistoryDeletable(d) ==
    run[d].status = "settled" /\ run[d].snapshot = "deleted" /\ run[d].logs = "deleted"

\* delete_deployment_history
DeleteHistory(d) ==
    /\ Operator
    /\ HistoryDeletable(d)
    /\ run' = [run EXCEPT ![d] = [NoRun EXCEPT !.status = "deleted"]]
    /\ UNCHANGED <<current, state, RunUnchanged>>

-----------------------------------------------------------------------------
(* cleanup_artifact *)

InManifest(v) == \E r \in AppRelease : Exists(r) /\ manifest[r].unit = v
InRuntime(v) == state = v
InSnapshot(v) == \E d \in Run : run[d].snapshot = "active" /\ run[d].unit = v

\* the blockers of artifact_cleanup_preview
Referenced(v) == InManifest(v) \/ InRuntime(v) \/ InSnapshot(v)

\* Mutant: what the environment has active is not counted.
Cleanable_NotRuntime(v) ==
    ~InManifest(v) /\ ~InSnapshot(v) /\ row[v].status \in {"active", "delete_failed", "deleting"}

\* Mutant: a clean-up that was begun is not taken up again.
Cleanable_NotBegun(v) == ~Referenced(v) /\ row[v].status \in {"active", "delete_failed"}

Cleanable(v) ==
    ~Referenced(v) /\ row[v].status \in {"active", "delete_failed", "deleting"}

CleanUnchanged == <<uploadVars, deployVars, limitVars>>

\* The first transaction: the references are counted again and the row is marked.
BeginCleanup(g, v) ==
    /\ Cleanable(v)
    /\ cleaner[g].pc = "idle"
    /\ cleaner' = [cleaner EXCEPT ![g] = [pc |-> "look", version |-> v, targets |-> {}]]
    /\ row' = [row EXCEPT ![v].status = "deleting"]

RequestCleanup(g, v) ==
    /\ Operator /\ g # Boot
    /\ BeginCleanup(g, v)
    /\ UNCHANGED <<phase, disk, boot, CleanUnchanged>>

Continue(g, pc, targets) ==
    cleaner' = [cleaner EXCEPT ![g] = [pc |-> pc, version |-> cleaner[g].version,
                                       targets |-> targets]]
Fail(g) == Continue(g, "fail", {})

\* delete_local_artifact_paths looks at all paths first ...
Look(g) ==
    /\ cleaner[g].pc = "look"
    /\ LET content == disk[cleaner[g].version]
           found == IF content = "absent" THEN {}
                    ELSE IF content = "empty" THEN {"dir"} ELSE {"package", "dir"}
       IN \/ Continue(g, IF found = {} THEN "finish" ELSE "remove", found)
          \/ Fail(g)
    /\ UNCHANGED <<phase, artifactVars, boot, CleanUnchanged>>

\* ... then removes the package and the directory, which must still be there.
RemovePackage(g) ==
    /\ cleaner[g].pc = "remove" /\ "package" \in cleaner[g].targets
    /\ LET v == cleaner[g].version IN
       \/ /\ disk[v] \in Content
          /\ disk' = [disk EXCEPT ![v] = "empty"]
          /\ Continue(g, "remove", {"dir"})
       \/ /\ disk' = disk
          /\ Fail(g)
    /\ UNCHANGED <<phase, row, boot, CleanUnchanged>>

RemoveDir(g) ==
    /\ cleaner[g].pc = "remove" /\ cleaner[g].targets = {"dir"}
    /\ LET v == cleaner[g].version IN
       \/ /\ disk[v] # "absent"
          /\ disk' = [disk EXCEPT ![v] = "absent"]
          /\ Continue(g, "finish", {})
       \/ /\ disk' = disk
          /\ Fail(g)
    /\ UNCHANGED <<phase, row, boot, CleanUnchanged>>

\* The second transaction
EndCleanup(g) ==
    /\ cleaner[g].pc \in {"finish", "fail"}
    /\ LET v == cleaner[g].version
           status == IF cleaner[g].pc = "finish" THEN "deleted" ELSE "delete_failed"
       IN row' = [row EXCEPT ![v].status = IF @ = "deleting" THEN status ELSE @]
    /\ cleaner' = [cleaner EXCEPT ![g] = NoCleanup]
    /\ UNCHANGED <<phase, disk, boot, CleanUnchanged>>

DropCleanup(g) ==
    /\ g # Boot /\ cleaner[g].pc # "idle"
    /\ drops < MaxDrops
    /\ drops' = drops + 1
    /\ cleaner' = [cleaner EXCEPT ![g] = NoCleanup]
    /\ UNCHANGED <<phase, artifactVars, boot, uploadVars, deployVars, crashes>>

-----------------------------------------------------------------------------
(* The process *)

Crash ==
    /\ phase # "down" /\ crashes < MaxCrashes
    /\ crashes' = crashes + 1
    /\ phase' = "down"
    /\ rq' = [q \in Request |-> IF rq[q].pc \in {"idle", "done"} THEN rq[q]
                                ELSE Answered]
    /\ cleaner' = [g \in Cleaner |-> NoCleanup]
    /\ boot' = {}
    /\ UNCHANGED <<artifactVars, record, deployVars, drops>>

\* Mutant: the start does not look for interrupted clean-ups.
Start_NoRecovery ==
    /\ phase = "down"
    /\ phase' = "starting" /\ boot' = {}
    /\ UNCHANGED <<artifactVars, cleaner, CleanUnchanged>>

\* recover_deleting_artifacts reads the identifiers, ...
Start ==
    /\ phase = "down"
    /\ phase' = "starting"
    /\ boot' = {v \in Version : row[v].status = "deleting"}
    /\ UNCHANGED <<artifactVars, cleaner, CleanUnchanged>>

\* ... and cleans up one after the other; the process ends when one is refused.
BootCleanup(v) ==
    /\ phase = "starting" /\ v \in boot
    /\ cleaner[Boot].pc = "idle"
    /\ IF Cleanable(v)
       THEN BeginCleanup(Boot, v) /\ boot' = boot \ {v} /\ phase' = phase
       ELSE phase' = "down" /\ boot' = {} /\ UNCHANGED <<row, cleaner>>
    /\ UNCHANGED <<disk, CleanUnchanged>>

Serve ==
    /\ phase = "starting" /\ boot = {} /\ cleaner[Boot].pc = "idle"
    /\ phase' = "serving"
    /\ UNCHANGED <<artifactVars, boot, cleaner, CleanUnchanged>>

-----------------------------------------------------------------------------
UploadStep(q) ==
    \/ Promote(q) \/ Register(q) \/ RegisterFails(q) \/ Remove(q) \/ Store(q)

CleanupStep(g) ==
    Look(g) \/ RemovePackage(g) \/ RemoveDir(g) \/ EndCleanup(g)

StartUp == Start \/ Serve \/ \E v \in Version : BootCleanup(v)

Next ==
    \/ \E q \in Request, k \in Key, v \in Version, c \in Content : BeginUpload(q, k, v, c)
    \/ \E q \in Request : UploadStep(q) \/ DropUpload(q)
    \/ \E r \in AppRelease, base \in AppRelease \cup {None},
          change \in Version \cup {None, "inherit"} : CreateAppRelease(r, base, change)
    \/ \E d \in Run, r \in AppRelease : CreateRun(d, r)
    \/ \E d \in Run : UnitSucceeds(d) \/ SettleRun(d)
    \/ \E r \in AppRelease : Archive(r) \/ DeleteAppRelease(r)
    \/ \E d \in Run : DeleteLogs(d) \/ DeleteSnapshot(d) \/ DeleteHistory(d)
    \/ \E g \in Cleaner, v \in Version : RequestCleanup(g, v)
    \/ \E g \in Cleaner : CleanupStep(g) \/ DropCleanup(g)
    \/ StartUp
    \/ Crash

Spec == Init /\ [][Next]_vars

\* A clean-up that nobody drops goes on, and the process is started again.
Fairness ==
    /\ \A g \in Cleaner : WF_vars(CleanupStep(g))
    /\ WF_vars(StartUp)

FairSpec == Spec /\ Fairness

-----------------------------------------------------------------------------
(* Properties *)

\* Every row and every future has its type.
TypeOK ==
    /\ phase \in {"down", "starting", "serving"}
    /\ row \in [Version -> UnitRelease]
    /\ disk \in [Version -> Content \cup {"absent", "empty"}]
    /\ record \in [Key -> Record]
    /\ rq \in [Request -> Upload]
    /\ manifest \in [AppRelease -> Manifest]
    /\ run \in [Run -> RunRow]
    /\ current \in AppRelease \cup {None}
    /\ state \in Version \cup {None}
    /\ cleaner \in [Cleaner -> Cleanup]
    /\ boot \subseteq Version
    /\ crashes \in 0 .. MaxCrashes /\ drops \in 0 .. MaxDrops

\* What an application release, the environment or a deployment that can be
\* repeated refers to is there: no order of archiving, deleting and cleaning up,
\* interleaved with new releases, inherited ones and deployments that fail half
\* way, takes it away or begins to.
ReferencedReleaseIsActive ==
    \A v \in Version : Referenced(v) => row[v].status = "active"

\* A unit release that may be used has its package, the one that was registered,
\* whatever upload, failed upload and clean-up of the same version do to the
\* directory they share.
ActiveReleaseHasPackage ==
    \A v \in Version : row[v].status = "active" => disk[v] = row[v].checksum

\* What a record of a request would answer is true: the version is on record
\* with the package of that request, however two uses of a key, or two uploads
\* of a version, are interleaved.
ReplayIsTrue ==
    \A k \in Key : record[k] # NoRecord => row[record[k].version].checksum = record[k].content

\* An operator's deletion ends, in whatever state a crash leaves it, unless the
\* request was dropped; then the row stays "deleting" until somebody asks again
\* or the console restarts.
DeletionEnds ==
    \A v \in Version : (row[v].status = "deleting") ~> (row[v].status # "deleting" \/ drops > 0)

\* The console comes up: what it finds half deleted may always be deleted.
StartUpCompletes == (phase = "starting") ~> (phase = "serving")

\* Does not hold.  The plan of 2026-07-11 says that the same key with the same
\* content may replay the first response, also when the first request succeeded
\* and its client did not see it: a request that begins while no other is under
\* way, and repeats one whose package is registered, is answered from the record
\* and does not go on to be refused because its version exists.
RetryIsReplayed ==
    [][\A q \in Request :
          /\ rq[q].pc = "idle" /\ rq'[q].pc = "promote"
          /\ \A p \in Request \ {q} : rq[p].pc \in {"idle", "done"}
          => row[rq'[q].version] # [status |-> "active", checksum |-> rq'[q].content]]_vars
==============================================================================
