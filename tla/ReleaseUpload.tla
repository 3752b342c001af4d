---------------------------- MODULE ReleaseUpload ----------------------------
(***************************************************************************)
(* How a release package of one application reaches the console: upload    *)
(* sessions that reserve a version and hand out a signed PUT address of    *)
(* the object store, their completion, their expiry and the clean-up of    *)
(* what they left in the store (api/src/apps.rs, artifact_storage.rs), and *)
(* the direct upload of a package through a staging directory (apps.rs,    *)
(* runtimefs.rs).  Both make releases of the same versions, and so does    *)
(* the release that is put together from unit releases.                    *)
(*                                                                         *)
(* Abstractions.  Every SQL statement, and every transaction that writes   *)
(* before it reads anything it depends on, is one step.  The packages of a *)
(* session are told apart by the number of the PUT that brought them, and  *)
(* the size and checksum a client declares either agree with the object or *)
(* do not.  A timestamp is a number of the clock `now'; the address of a   *)
(* session stays valid for Ttl.  The batches of 20 rows of the scheduler   *)
(* are left out, and so is its channel to the worker, whose order and      *)
(* duplicates do not matter: `queued' is the set of the identifiers in it. *)
(* The staging directory of a direct upload has a name of its own, and     *)
(* only its promotion is visible here.                                     *)
(***************************************************************************)
EXTENDS Integers, FiniteSets

CONSTANTS
    Upload,        \* identifiers of upload sessions
    Version,       \* release versions of the application
    Request,       \* requests that complete a session, each used once
    LocalUpload,   \* direct uploads of a package, each used once
    Slots,         \* ARTIFACT_VERIFICATION_CONCURRENCY
    Ttl,           \* how long the address of a session is valid
    MaxTime,       \* bound of the clock
    MaxPuts,       \* bound of the PUTs to one address
    MaxCrashes,    \* bound of the crashes of the console
    MaxDrops,      \* bound of the requests whose client goes away
    None           \* no upload, no version

ASSUME SlotsAssumption == Slots \in Nat \ {0}
ASSUME ClockAssumption == Ttl \in Nat \ {0} /\ MaxTime \in Nat /\ MaxPuts \in Nat
ASSUME BoundAssumption == MaxCrashes \in Nat /\ MaxDrops \in Nat
ASSUME NoneAssumption == None \notin Upload \cup LocalUpload \cup Version
ASSUME NamesAssumption == Upload \cap LocalUpload = {} /\ "metadata" \notin LocalUpload

VARIABLES
    now,       \* the clock
    phase,     \* "starting": workers run, no request is served; "serving"
    row,       \* app_release_uploads
    release,   \* app_releases
    dir,       \* releases/<version> on disk: the promoted package, release.yaml
    rq,        \* the futures of complete_release_package_upload
    local,     \* the futures of upload_release_package
    bucket,    \* whether the store keeps every version of an object
    puts,      \* how many PUTs to the key of a session took effect
    live,      \* the numbers of those whose object the store still has
    queued,    \* identifiers in the channel of the clean-up worker
    worker,    \* the clean-up worker
    crashes,
    drops

dbVars == <<row, release>>
storeVars == <<bucket, puts, live>>
cleanVars == <<queued, worker>>
limitVars == <<crashes, drops>>
vars == <<now, phase, row, release, dir, rq, local, bucket, puts, live, queued,
          worker, crashes, drops>>

NoTime == -1
Time == 0 .. (MaxTime + Ttl)

Session == [status : {"none", "pending", "expired", "canceled", "completed"},
            version : Version \cup {None}, expires : Time, active : {0, 1},
            claim : {"null", "set"}, cleanAt : Time \cup {NoTime},
            cleanup : {"null", "started", "completed"}]
Release == [store : {"none", "oss", "local", "manifest"},
            by : Upload \cup LocalUpload \cup {None},
            object : Nat]
CompleteCall == [pc : {"idle", "expire", "claim", "verify", "store", "register",
                       "clear", "cancel", "done"},
                 upload : Upload \cup {None}, object : Nat]
LocalCall == [pc : {"idle", "register", "remove", "done"}, version : Version]
Worker == [pc : {"idle", "list", "delete"}, upload : Upload \cup {None},
           todo : SUBSET (1 .. MaxPuts)]

NoRelease == [store |-> "none", by |-> None, object |-> 0]
IdleCall == [pc |-> "idle", upload |-> None, object |-> 0]
Returned == [pc |-> "done", upload |-> None, object |-> 0]
IdleWorker == [pc |-> "idle", upload |-> None, todo |-> {}]
NoSession == [status |-> "none", version |-> None, expires |-> 0, active |-> 0,
              claim |-> "null", cleanAt |-> NoTime, cleanup |-> "null"]

Dead == {"expired", "canceled"}
Reserved(v) == \E u \in Upload : row[u].version = v /\ row[u].active = 1
Released(v) == release[v].store # "none"
Verifying == {q \in Request : rq[q].pc = "verify"}

Init ==
    /\ now = 0
    /\ phase = "starting"
    /\ row = [u \in Upload |-> NoSession]
    /\ release = [v \in Version |-> NoRelease]
    /\ dir = [v \in Version |-> {}]
    /\ rq = [q \in Request |-> IdleCall]
    /\ local \in [LocalUpload -> {[pc |-> "idle", version |-> v] : v \in Version}]
    /\ bucket \in {"versioned", "plain"}
    /\ puts = [u \in Upload |-> 0]
    /\ live = [u \in Upload |-> {}]
    /\ queued = {}
    /\ worker = IdleWorker
    /\ crashes = 0
    /\ drops = 0

-----------------------------------------------------------------------------
(* Rows of app_release_uploads *)

\* `julianday(expires_at) <= julianday('now')'
Due(s) == s.expires <= now

\* the row of a session that an expiry closes
Expired(s) == [s EXCEPT !.status = "expired", !.active = 0, !.claim = "null",
                        !.cleanAt = IF s.cleanAt = NoTime THEN now ELSE s.cleanAt]

\* mutant: the object of a canceled session is deleted at once
Canceled_CleanedAtOnce(s) == [s EXCEPT !.status = "canceled", !.active = 0, !.claim = "null",
                                       !.cleanAt = IF s.cleanAt # NoTime THEN s.cleanAt ELSE now]

\* the row of a session that lost the registration of its version
Canceled(s) == [s EXCEPT !.status = "canceled", !.active = 0, !.claim = "null",
                         !.cleanAt = IF s.cleanAt # NoTime THEN s.cleanAt
                                     ELSE IF s.expires > now THEN s.expires ELSE now]

\* the guard of both expiries that are not asked for by a completion
Expirable(s) == s.status = "pending" /\ s.active = 1 /\ s.claim = "null" /\ Due(s)

\* expire_release_upload_reservation, inside a transaction about version v
ExpireReservation(v) ==
    [u \in Upload |-> IF row[u].version = v /\ Expirable(row[u]) THEN Expired(row[u])
                      ELSE row[u]]

\* mutant: a session is created for a version that has a release
Available_Unreserved(v) ==
    \A u \in Upload : row[u].version = v /\ row[u].active = 1 => Expirable(row[u])

\* no release of the version, and no reservation but what is about to expire
Available(v) ==
    /\ ~Released(v)
    /\ \A u \in Upload : row[u].version = v /\ row[u].active = 1 => Expirable(row[u])

\* mutants: a claim that is held is taken; a session that was taken away is
\* registered all the same
Claimable_Pending(s) == s.status = "pending" /\ s.active = 1
HoldsClaim_NotCanceled(s) == s.status # "canceled"

\* what a request needs to claim a session, and what it must find when it
\* stores the object's version and when it registers the release
Claimable(s) == s.status = "pending" /\ s.active = 1 /\ s.claim = "null"
HoldsClaim(s) == s.status = "pending" /\ s.active = 1 /\ s.claim = "set"

\* clear_release_upload_verification
Unclaimed(s) == IF s.status = "pending" /\ s.active = 1 THEN [s EXCEPT !.claim = "null"] ELSE s

\* the row pending_release_upload_cleanup_ids and the worker's claim look for
Cleanable(s) ==
    /\ s.cleanAt # NoTime /\ s.cleanAt <= now
    /\ s.status \in Dead
    /\ s.cleanup = "null"

-----------------------------------------------------------------------------
(* Sessions *)

\* A session is created when no release and, after the expiry of what is due,
\* no reservation of the version exists; every refusal rolls the expiry back.
CreateUpload(u, v) ==
    /\ phase = "serving"
    /\ row[u].status = "none"
    /\ now + Ttl <= MaxTime
    /\ Available(v)
    /\ row' = [ExpireReservation(v) EXCEPT
                   ![u] = [NoSession EXCEPT !.status = "pending", !.version = v,
                                            !.active = 1, !.expires = now + Ttl]]
    /\ UNCHANGED <<now, phase, release, dir, rq, local, storeVars, cleanVars, limitVars>>

\* A PUT that was started while the address was valid takes effect, however
\* late, or is refused: x-oss-forbid-overwrite counts in a bucket without
\* versions only.
Put(u) ==
    /\ row[u].status # "none" /\ puts[u] < MaxPuts
    /\ bucket = "versioned" \/ live[u] = {}
    /\ puts' = [puts EXCEPT ![u] = @ + 1]
    /\ live' = [live EXCEPT ![u] = @ \cup {puts[u] + 1}]
    /\ UNCHANGED <<now, phase, dbVars, dir, rq, local, bucket, cleanVars, limitVars>>

-----------------------------------------------------------------------------
(* complete_release_package_upload *)

CompleteUnchanged == <<now, phase, dir, local, storeVars, worker, limitVars>>

\* The row is read and its expiry compared with the clock of the process.
BeginComplete(q, u) ==
    /\ phase = "serving" /\ rq[q].pc = "idle"
    /\ row[u].status = "pending"
    /\ rq' = [rq EXCEPT ![q] = [IdleCall EXCEPT !.pc = IF Due(row[u]) THEN "expire" ELSE "claim",
                                                !.upload = u]]
    /\ UNCHANGED <<dbVars, queued, CompleteUnchanged>>

\* expire_release_upload asks for a pending row only: it takes the session
\* away from a request that is verifying it.
CompleteExpires(q) ==
    /\ rq[q].pc = "expire"
    /\ LET u == rq[q].upload IN
       /\ row' = [row EXCEPT ![u] = IF @.status = "pending" THEN Expired(@) ELSE @]
       /\ queued' = queued \cup {u}
    /\ rq' = [rq EXCEPT ![q] = Returned]
    /\ UNCHANGED <<release, CompleteUnchanged>>

ClaimVerification(q) ==
    /\ rq[q].pc = "claim"
    /\ LET u == rq[q].upload IN
       \/ /\ Claimable(row[u])
          /\ row' = [row EXCEPT ![u].claim = "set"]
          /\ rq' = [rq EXCEPT ![q].pc = IF Cardinality(Verifying) < Slots THEN "verify"
                                        ELSE "clear"]
       \/ /\ ~Claimable(row[u])
          /\ rq' = [rq EXCEPT ![q] = Returned]
          /\ row' = row
    /\ UNCHANGED <<release, queued, CompleteUnchanged>>

\* The object is read as a whole in its latest version; a missing object, a
\* failed request and a malformed answer end in clear_release_upload_verification.
Verify(q) ==
    /\ rq[q].pc = "verify"
    /\ LET u == rq[q].upload IN
       \/ \E k \in live[u] :
             /\ \A j \in live[u] : j <= k
             /\ rq' = [rq EXCEPT ![q] = [@ EXCEPT !.pc = "store", !.object = k]]
       \/ rq' = [rq EXCEPT ![q].pc = "clear"]
    /\ UNCHANGED <<dbVars, queued, CompleteUnchanged>>

\* store_release_upload_object_version, then the comparison with the size and
\* the checksum the client declared
StoreVersion(q) ==
    /\ rq[q].pc = "store"
    /\ \E agrees \in BOOLEAN :
          rq' = [rq EXCEPT ![q].pc = IF HoldsClaim(row[rq[q].upload]) /\ agrees THEN "register"
                                     ELSE "clear"]
    /\ UNCHANGED <<dbVars, queued, CompleteUnchanged>>

RegisterUnchanged == <<now, phase, local, storeVars, cleanVars, limitVars>>

\* The transaction that makes the release and closes the session commits only
\* when the session is still claimed.
Register(q) ==
    LET u == rq[q].upload
        v == row[u].version
    IN /\ rq[q].pc = "register"
       /\ ~Released(v)
       /\ HoldsClaim(row[u])
       /\ release' = [release EXCEPT ![v] = [store |-> "oss", by |-> u, object |-> rq[q].object]]
       /\ row' = [row EXCEPT ![u] = [@ EXCEPT !.status = "completed", !.active = 0,
                                              !.claim = "null"]]
       /\ dir' = [dir EXCEPT ![v] = @ \cup {"metadata"}]
       /\ rq' = [rq EXCEPT ![q] = Returned]
       /\ UNCHANGED RegisterUnchanged

\* A conflict rolls it back: the version has a release (found before
\* release.yaml is written) or the session was taken away (found after).
RegisterConflict(q) ==
    LET u == rq[q].upload
        v == row[u].version
    IN /\ rq[q].pc = "register"
       /\ \/ Released(v) /\ dir' = dir
          \/ /\ ~Released(v)
             /\ ~HoldsClaim(row[u])
             /\ dir' = [dir EXCEPT ![v] = @ \cup {"metadata"}]
       /\ rq' = [rq EXCEPT ![q].pc = "cancel"]
       /\ UNCHANGED <<dbVars, RegisterUnchanged>>

\* Any other failure, before or after release.yaml is written
RegisterFails(q) ==
    /\ rq[q].pc = "register"
    /\ dir' \in {dir, [dir EXCEPT ![row[rq[q].upload].version] = @ \cup {"metadata"}]}
    /\ rq' = [rq EXCEPT ![q].pc = "clear"]
    /\ UNCHANGED <<dbVars, RegisterUnchanged>>

ClearVerification(q) ==
    /\ rq[q].pc = "clear"
    /\ row' = [row EXCEPT ![rq[q].upload] = Unclaimed(@)]
    /\ rq' = [rq EXCEPT ![q] = Returned]
    /\ UNCHANGED <<release, queued, CompleteUnchanged>>

\* cancel_release_upload and the message to the clean-up worker
CancelUpload(q) ==
    /\ rq[q].pc = "cancel"
    /\ LET u == rq[q].upload IN
       /\ row' = [row EXCEPT ![u] = IF @.status = "pending" THEN Canceled(@) ELSE @]
       /\ queued' = queued \cup {u}
    /\ rq' = [rq EXCEPT ![q] = Returned]
    /\ UNCHANGED <<release, CompleteUnchanged>>

\* The client goes away and the server drops the future of the handler, with
\* its slot; nothing gives the claim back.
DropRequest(q) ==
    /\ rq[q].pc \notin {"idle", "done"}
    /\ drops < MaxDrops
    /\ drops' = drops + 1
    /\ rq' = [rq EXCEPT ![q] = Returned]
    /\ UNCHANGED <<now, phase, dbVars, dir, local, storeVars, cleanVars, crashes>>

-----------------------------------------------------------------------------
(* upload_release_package *)

\* ensure_release_version_available commits the expiry even when it refuses.
LocalCheck(l) ==
    /\ phase = "serving" /\ local[l].pc = "idle"
    /\ row' = ExpireReservation(local[l].version)
    /\ local' = [local EXCEPT ![l].pc = IF Available(local[l].version) THEN "register" ELSE "done"]
    /\ UNCHANGED <<now, phase, release, dir, rq, storeVars, cleanVars, limitVars>>

LocalUnchanged == <<now, phase, rq, storeVars, cleanVars, limitVars>>

\* The transaction checks again, promotes the staging directory by a rename
\* that must not find a directory, and commits.
LocalRegister(l) ==
    LET v == local[l].version IN
    /\ local[l].pc = "register"
    /\ Available(v) /\ dir[v] = {}
    /\ row' = ExpireReservation(v)
    /\ release' = [release EXCEPT ![v] = [store |-> "local", by |-> l, object |-> 0]]
    /\ dir' = [dir EXCEPT ![v] = {l, "metadata"}]
    /\ local' = [local EXCEPT ![l].pc = "done"]
    /\ UNCHANGED LocalUnchanged

\* The version was taken, or its directory exists: nothing was promoted.
LocalRefused(l) ==
    /\ local[l].pc = "register"
    /\ ~Available(local[l].version) \/ dir[local[l].version] # {}
    /\ local' = [local EXCEPT ![l].pc = "done"]
    /\ UNCHANGED <<dbVars, dir, LocalUnchanged>>

\* A failure after the promotion rolls the rows back and leaves the directory
\* to the clean-up of the call, which a dropped future never runs.
LocalFails(l) ==
    LET v == local[l].version IN
    /\ local[l].pc = "register"
    /\ Available(v) /\ dir[v] = {}
    /\ dir' \in {[dir EXCEPT ![v] = {l}], [dir EXCEPT ![v] = {l, "metadata"}]}
    /\ \/ local' = [local EXCEPT ![l].pc = "remove"] /\ drops' = drops
       \/ /\ drops < MaxDrops /\ drops' = drops + 1
          /\ local' = [local EXCEPT ![l].pc = "done"]
    /\ UNCHANGED <<now, phase, dbVars, rq, storeVars, cleanVars, crashes>>

\* cleanup_failed_staged_release_package
LocalRemove(l) ==
    /\ local[l].pc = "remove"
    /\ dir' = [dir EXCEPT ![local[l].version] = {}]
    /\ local' = [local EXCEPT ![l].pc = "done"]
    /\ UNCHANGED <<dbVars, LocalUnchanged>>

-----------------------------------------------------------------------------
(* ApplicationReleaseService::create_application_release *)

\* Asks for a release of the version only: a reservation does not stop it.
CreateApplicationRelease(v) ==
    /\ phase = "serving"
    /\ ~Released(v)
    /\ release' = [release EXCEPT ![v] = [store |-> "manifest", by |-> None, object |-> 0]]
    /\ UNCHANGED <<now, phase, row, dir, rq, local, storeVars, cleanVars, limitVars>>

-----------------------------------------------------------------------------
(* Expiry by the scheduler, clean-up by the worker *)

CleanUnchanged == <<now, phase, release, dir, rq, local, bucket, puts, limitVars>>

\* expire_due_release_uploads
ScheduleExpire(u) ==
    /\ Expirable(row[u])
    /\ row' = [row EXCEPT ![u] = Expired(@)]
    /\ queued' = queued \cup {u}
    /\ UNCHANGED <<live, worker, CleanUnchanged>>

\* pending_release_upload_cleanup_ids
ScheduleCleanup(u) ==
    /\ Cleanable(row[u]) /\ u \notin queued
    /\ queued' = queued \cup {u}
    /\ UNCHANGED <<row, live, worker, CleanUnchanged>>

\* The worker takes an identifier and claims its clean-up.
StartCleanup(u) ==
    /\ worker.pc = "idle" /\ u \in queued
    /\ queued' = queued \ {u}
    /\ \/ /\ Cleanable(row[u])
          /\ row' = [row EXCEPT ![u].cleanup = "started"]
          /\ worker' = [IdleWorker EXCEPT !.pc = "list", !.upload = u]
       \/ /\ ~Cleanable(row[u])
          /\ UNCHANGED <<row, worker>>
    /\ UNCHANGED <<live, CleanUnchanged>>

ListVersions ==
    /\ worker.pc = "list"
    /\ worker' = [worker EXCEPT !.pc = "delete", !.todo = live[worker.upload]]
    /\ UNCHANGED <<row, queued, live, CleanUnchanged>>

DeleteVersion ==
    /\ worker.pc = "delete"
    /\ \E k \in worker.todo :
          /\ live' = [live EXCEPT ![worker.upload] = @ \ {k}]
          /\ worker' = [worker EXCEPT !.todo = @ \ {k}]
    /\ UNCHANGED <<row, queued, CleanUnchanged>>

FinishCleanup ==
    /\ worker.pc = "delete" /\ worker.todo = {}
    /\ row' = [row EXCEPT ![worker.upload].cleanup = "completed"]
    /\ worker' = IdleWorker
    /\ UNCHANGED <<queued, live, CleanUnchanged>>

\* The list or a delete failed: the claim is given back for another attempt.
CleanupFails ==
    /\ worker.pc = "list" \/ (worker.pc = "delete" /\ worker.todo # {})
    /\ row' = [row EXCEPT ![worker.upload].cleanup = "null"]
    /\ worker' = IdleWorker
    /\ UNCHANGED <<queued, live, CleanUnchanged>>

-----------------------------------------------------------------------------
(* The process and the clock *)

\* Everything in memory is gone; the workers start before the recovery runs.
Crash ==
    /\ crashes < MaxCrashes
    /\ crashes' = crashes + 1
    /\ phase' = "starting"
    /\ rq' = [q \in Request |-> IF rq[q].pc = "idle" THEN rq[q] ELSE Returned]
    /\ local' = [l \in LocalUpload |-> IF local[l].pc = "idle" THEN local[l]
                                       ELSE [local[l] EXCEPT !.pc = "done"]]
    /\ \/ dir' = dir
       \/ \E l \in LocalUpload :   \* between the promotion and the commit
             /\ local[l].pc = "register" /\ Available(local[l].version)
             /\ dir[local[l].version] = {}
             /\ dir' = [dir EXCEPT ![local[l].version] = {l, "metadata"}]
    /\ queued' = {} /\ worker' = IdleWorker
    /\ UNCHANGED <<now, dbVars, storeVars, drops>>

\* mutant: recovery sends an interrupted clean-up to a state nobody knows
Recovered_Pending(s) ==
    [Unclaimed(s) EXCEPT !.cleanup = IF s.cleanup = "started" THEN "pending" ELSE s.cleanup]

Recovered(s) ==
    [Unclaimed(s) EXCEPT !.cleanup = IF s.cleanup = "started" THEN "null" ELSE s.cleanup]

\* the part of recover_interrupted_work that concerns uploads
Recover ==
    /\ phase = "starting"
    /\ phase' = "serving"
    /\ row' = [u \in Upload |-> Recovered(row[u])]
    /\ UNCHANGED <<now, release, dir, rq, local, storeVars, cleanVars, limitVars>>

Tick ==
    /\ now < MaxTime
    /\ now' = now + 1
    /\ UNCHANGED <<phase, dbVars, dir, rq, local, storeVars, cleanVars, limitVars>>

-----------------------------------------------------------------------------
RequestStep(q) ==
    \/ CompleteExpires(q) \/ ClaimVerification(q) \/ Verify(q) \/ StoreVersion(q)
    \/ Register(q) \/ RegisterConflict(q) \/ RegisterFails(q)
    \/ ClearVerification(q) \/ CancelUpload(q)

LocalStep(l) == LocalRegister(l) \/ LocalRefused(l) \/ LocalFails(l) \/ LocalRemove(l)

WorkerStep == (\E u \in Upload : StartCleanup(u)) \/ ListVersions \/ DeleteVersion \/ FinishCleanup

Next ==
    \/ \E u \in Upload, v \in Version : CreateUpload(u, v)
    \/ \E v \in Version : CreateApplicationRelease(v)
    \/ \E u \in Upload : Put(u) \/ ScheduleExpire(u) \/ ScheduleCleanup(u)
    \/ \E q \in Request, u \in Upload : BeginComplete(q, u)
    \/ \E q \in Request : RequestStep(q) \/ DropRequest(q)
    \/ \E l \in LocalUpload : LocalCheck(l) \/ LocalStep(l)
    \/ WorkerStep \/ CleanupFails
    \/ Crash \/ Recover \/ Tick

Spec == Init /\ [][Next]_vars

-----------------------------------------------------------------------------
(* Properties *)

\* Every row and every future has its type.
TypeOK ==
    /\ now \in Time /\ phase \in {"starting", "serving"}
    /\ row \in [Upload -> Session]
    /\ release \in [Version -> Release]
    /\ dir \in [Version -> SUBSET (LocalUpload \cup {"metadata"})]
    /\ rq \in [Request -> CompleteCall]
    /\ local \in [LocalUpload -> LocalCall]
    /\ bucket \in {"versioned", "plain"}
    /\ puts \in [Upload -> 0 .. MaxPuts]
    /\ live \in [Upload -> SUBSET (1 .. MaxPuts)]
    /\ queued \subseteq Upload
    /\ worker \in Worker
    /\ crashes \in 0 .. MaxCrashes /\ drops \in 0 .. MaxDrops

\* The package of a release is where the release says: the object version that
\* was verified is still in the store, the directory of a direct upload still
\* holds its package.  An expiry, a cancellation, a clean-up or the clean-up of
\* a failed direct upload that races with the registration must not take it away.
ReleasedPackageExists ==
    \A v \in Version :
        /\ release[v].store = "oss" => release[v].object \in live[release[v].by]
        /\ release[v].store = "local" => release[v].by \in dir[v]

\* A version is reserved by one session at most and not reserved once a package
\* of it is released, whichever of the two ways of uploading comes first.
ReservationIsExclusive ==
    \A u \in Upload : row[u].active = 1 =>
        /\ release[row[u].version].store \notin {"oss", "local"}
        /\ \A w \in Upload \ {u} : row[w].active = 1 => row[w].version # row[u].version

Holders(u) == {q \in Request :
                  /\ rq[q].pc \in {"verify", "store", "register", "clear", "cancel"}
                  /\ rq[q].upload = u}

\* A session is verified by one request at a time, and a claim nobody holds is
\* there only because a client went away or because the process restarts:
\* every failure of the completion gives the claim back.
ClaimHasOneHolder ==
    \A u \in Upload :
        /\ row[u].claim = "set" /\ drops = 0 /\ phase = "serving" => Holders(u) # {}
        /\ row[u].claim = "set" => Cardinality(Holders(u)) <= 1

\* Only what a dead session left is deleted, and only once the address of a
\* canceled session is no longer valid: while it is, the client may still PUT.
OnlyDeadObjectsAreDeleted ==
    [][\A u \in Upload : live'[u] \subseteq live[u] /\ live'[u] # live[u] =>
           row[u].status \in Dead /\ row[u].expires <= now]_vars
==============================================================================
