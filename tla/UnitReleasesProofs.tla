------------------------- MODULE UnitReleasesProofs -------------------------
(***************************************************************************)
(* Proofs about UnitReleases, for every value of its constants.            *)
(***************************************************************************)
EXTENDS UnitReleases, TLAPS

InFlight == {"promote", "register", "remove", "store"}

\* a future that is under way knows what it is about
UploadKnown(q) ==
    rq[q].pc \in InFlight =>
        rq[q].key \in Key /\ rq[q].version \in Version /\ rq[q].content \in Content
CleanupKnown(g) == cleaner[g].pc # "idle" => cleaner[g].version \in Version

Programs ==
    /\ \A q \in Request : UploadKnown(q)
    /\ \A g \in Cleaner : CleanupKnown(g)

Inv == TypeOK /\ Programs
-----------------------------------------------------------------------------
(* Every action keeps the types. *)

\* writing one row of a table
LEMMA RowType ==
    ASSUME NEW S, NEW V, NEW r \in S, NEW f \in [S -> V], NEW x \in V
    PROVE  /\ [f EXCEPT ![r] = x] \in [S -> V]
           /\ [f EXCEPT ![r] = x][r] = x
           /\ \A q \in S \ {r} : [f EXCEPT ![r] = x][q] = f[q]
OBVIOUS

LEMMA AnsweredType == Answered \in Upload
BY DEF Answered, Upload

LEMMA NoCleanupType == NoCleanup \in Cleanup
BY DEF NoCleanup, Cleanup

LEMMA InitType == Init => Inv
BY UploadedAssumption, BoundAssumption
DEF Init, Inv, Programs, UploadKnown, CleanupKnown, InFlight, TypeOK, NoRelease, NoRecord,
    NoUpload, NoManifest, NoRun, NoCleanup, UnitRelease, Record, Upload, Manifest, RunRow, Cleanup

\* one step of an upload's future
LEMMA UploadGoes ==
    ASSUME Inv, NEW q \in Request, rq[q].pc \in InFlight,
           \/ \E pc \in InFlight : rq' = [rq EXCEPT ![q].pc = pc]
           \/ rq' = [rq EXCEPT ![q] = Answered]
    PROVE  /\ rq' \in [Request -> Upload]
           /\ \A p \in Request : UploadKnown(p)'
<1> USE DEF InFlight
<1>1. rq \in [Request -> Upload] /\ \A p \in Request : UploadKnown(p)
  BY DEF Inv, TypeOK, Programs
<1>2. ASSUME NEW pc \in InFlight, rq' = [rq EXCEPT ![q].pc = pc]
      PROVE  /\ rq' \in [Request -> Upload]
             /\ \A p \in Request : UploadKnown(p)'
  <2> DEFINE x == [rq[q] EXCEPT !.pc = pc]
  <2>1. /\ x \in Upload /\ x.pc = pc
        /\ x.key = rq[q].key /\ x.version = rq[q].version /\ x.content = rq[q].content
    BY <1>1 DEF Upload
  <2>2. rq' = [rq EXCEPT ![q] = x]
    BY <1>2
  <2> HIDE DEF x
  <2> QED BY <1>1, <2>1, <2>2, RowType DEF UploadKnown
<1>3. CASE rq' = [rq EXCEPT ![q] = Answered]
  BY <1>1, <1>3, AnsweredType, RowType DEF UploadKnown, Answered
<1> QED BY <1>2, <1>3

\* one step of a clean-up
LEMMA CleanupGoes ==
    ASSUME Inv, NEW g \in Cleaner, cleaner[g].pc # "idle",
           \/ \E pc \in {"remove", "finish", "fail"}, targets \in SUBSET {"package", "dir"} :
                  Continue(g, pc, targets)
           \/ cleaner' = [cleaner EXCEPT ![g] = NoCleanup]
    PROVE  /\ cleaner' \in [Cleaner -> Cleanup]
           /\ \A h \in Cleaner : CleanupKnown(h)'
<1>1. cleaner \in [Cleaner -> Cleanup] /\ \A h \in Cleaner : CleanupKnown(h)
  BY DEF Inv, TypeOK, Programs
<1>2. ASSUME NEW pc \in {"remove", "finish", "fail"}, NEW targets \in SUBSET {"package", "dir"},
             Continue(g, pc, targets)
      PROVE  /\ cleaner' \in [Cleaner -> Cleanup]
             /\ \A h \in Cleaner : CleanupKnown(h)'
  <2> DEFINE x == [pc |-> pc, version |-> cleaner[g].version, targets |-> targets]
  <2>1. x \in Cleanup /\ x.pc = pc /\ x.version = cleaner[g].version
    BY <1>1 DEF Cleanup
  <2>2. cleaner' = [cleaner EXCEPT ![g] = x]
    BY <1>2 DEF Continue
  <2> HIDE DEF x
  <2> QED BY <1>1, <2>1, <2>2, RowType DEF CleanupKnown
<1>3. CASE cleaner' = [cleaner EXCEPT ![g] = NoCleanup]
  BY <1>1, <1>3, NoCleanupType, RowType DEF CleanupKnown, NoCleanup
<1> QED BY <1>2, <1>3

\* futures that are left alone know what they knew
LEMMA UploadsKept == Inv /\ UNCHANGED rq => \A q \in Request : UploadKnown(q)'
BY DEF Inv, Programs, UploadKnown

LEMMA CleanupsKept == Inv /\ UNCHANGED cleaner => \A g \in Cleaner : CleanupKnown(g)'
BY DEF Inv, Programs, CleanupKnown

LEMMA UploadType ==
    ASSUME Inv, NEW q \in Request, UploadStep(q) \/ DropUpload(q)
    PROVE  Inv'
<1> USE DEF Inv, TypeOK, Programs, UploadUnchanged, artifactVars, deployVars, cleanVars, limitVars
<1>0. rq[q].pc \in InFlight => rq[q].version \in Version /\ rq[q].content \in Content
  BY DEF UploadKnown
<1>7. UNCHANGED cleaner => \A g \in Cleaner : CleanupKnown(g)'
  BY CleanupsKept
<1>1. CASE Promote(q)
  <2>1. disk' \in [Version -> Content \cup {"absent", "empty"}]
    BY <1>0, <1>1 DEF Promote, InFlight
  <2>2. rq' \in [Request -> Upload] /\ \A p \in Request : UploadKnown(p)'
    BY <1>1, UploadGoes DEF Promote, InFlight
  <2> QED BY <1>1, <1>7, <2>1, <2>2 DEF Promote
<1>2. CASE Register(q)
  <2>1. row' \in [Version -> UnitRelease]
    BY <1>0, <1>2 DEF Register, InFlight, UnitRelease
  <2>2. rq' \in [Request -> Upload] /\ \A p \in Request : UploadKnown(p)'
    BY <1>2, UploadGoes DEF Register, InFlight
  <2> QED BY <1>2, <1>7, <2>1, <2>2 DEF Register
<1>3. CASE RegisterFails(q)
  <2>1. rq' \in [Request -> Upload] /\ \A p \in Request : UploadKnown(p)'
    BY <1>3, UploadGoes DEF RegisterFails, InFlight
  <2> QED BY <1>3, <1>7, <2>1 DEF RegisterFails
<1>4. CASE Remove(q)
  <2>1. disk' \in [Version -> Content \cup {"absent", "empty"}]
    BY <1>4 DEF Remove
  <2>2. rq' \in [Request -> Upload] /\ \A p \in Request : UploadKnown(p)'
    BY <1>4, UploadGoes DEF Remove, InFlight
  <2> QED BY <1>4, <1>7, <2>1, <2>2 DEF Remove
<1>5. CASE Store(q)
  <2>1. record' \in [Key -> Record]
    BY <1>0, <1>5 DEF Store, InFlight, Record
  <2>2. rq' \in [Request -> Upload] /\ \A p \in Request : UploadKnown(p)'
    BY <1>5, UploadGoes DEF Store, InFlight
  <2> QED BY <1>5, <1>7, <2>1, <2>2 DEF Store
<1>6. CASE DropUpload(q)
  <2>1. rq[q].pc \in InFlight
    BY <1>6 DEF DropUpload, InFlight, Upload
  <2>2. rq' \in [Request -> Upload] /\ \A p \in Request : UploadKnown(p)'
    BY <1>6, <2>1, UploadGoes DEF DropUpload
  <2> QED BY <1>6, <1>7, <2>2 DEF DropUpload
<1> QED BY <1>1, <1>2, <1>3, <1>4, <1>5, <1>6 DEF UploadStep

LEMMA BeginUploadType ==
    ASSUME Inv, NEW q \in Request, NEW k \in Key, NEW v \in Version, NEW c \in Content,
           BeginUpload(q, k, v, c)
    PROVE  Inv'
<1> USE DEF Inv, TypeOK, Programs
<1> DEFINE x == [pc |-> "promote", key |-> k, version |-> v, content |-> c]
<1>1. x \in Upload /\ x.key = k /\ x.version = v /\ x.content = c
  BY DEF Upload
<1>2. rq' = [rq EXCEPT ![q] = x] \/ rq' = [rq EXCEPT ![q] = Answered]
  BY DEF BeginUpload
<1> HIDE DEF x
<1>3. rq' \in [Request -> Upload]
  BY <1>1, <1>2, AnsweredType
<1>4. \A p \in Request : UploadKnown(p)'
  <2>1. CASE rq' = [rq EXCEPT ![q] = x]
    BY <1>1, <2>1, RowType DEF UploadKnown
  <2>2. CASE rq' = [rq EXCEPT ![q] = Answered]
    BY <2>2, AnsweredType, RowType DEF UploadKnown, Answered, InFlight
  <2> QED BY <1>2, <2>1, <2>2
<1> QED
  BY <1>3, <1>4, CleanupsKept
  DEF BeginUpload, UploadUnchanged, artifactVars, deployVars, cleanVars, limitVars

LEMMA CreateAppReleaseType ==
    ASSUME Inv, NEW r \in AppRelease, NEW base \in AppRelease \cup {None},
           NEW change \in Version \cup {None, "inherit"}, CreateAppRelease(r, base, change)
    PROVE  Inv'
<1> USE DEF Inv, TypeOK, Programs
<1>1. UnitOf(base, change) \in Version \cup {None}
  BY DEF CreateAppRelease, UnitOf, Manifest
<1>2. manifest' \in [AppRelease -> Manifest]
  BY <1>1 DEF CreateAppRelease, Manifest
<1> QED
  BY <1>2, UploadsKept, CleanupsKept
  DEF CreateAppRelease, artifactVars, uploadVars, cleanVars, limitVars

LEMMA DeployType ==
    ASSUME Inv, NEW d \in Run,
           \/ \E r \in AppRelease : CreateRun(d, r)
           \/ UnitSucceeds(d) \/ SettleRun(d) \/ DeleteLogs(d) \/ DeleteSnapshot(d)
           \/ DeleteHistory(d)
    PROVE  Inv'
<1> USE DEF Inv, TypeOK
<1>1. UNCHANGED <<rq, cleaner>>
  BY DEF CreateRun, UnitSucceeds, SettleRun, DeleteLogs, DeleteSnapshot, DeleteHistory,
         RunUnchanged, uploadVars, cleanVars
<1>2. Programs'
  BY <1>1, UploadsKept, CleanupsKept DEF Programs
<1>3. run' \in [Run -> RunRow]
  <2> USE DEF RunRow
  <2>1. ASSUME NEW r \in AppRelease, CreateRun(d, r) PROVE run' \in [Run -> RunRow]
    <3>1. manifest[r].unit \in Version \cup {None}
      BY DEF Manifest
    <3> DEFINE x == [status |-> "active", release |-> r, unit |-> manifest[r].unit,
                     snapshot |-> "active", logs |-> "kept"]
    <3>2. x \in RunRow
      BY <3>1
    <3>3. run' = [run EXCEPT ![d] = x]
      BY <2>1 DEF CreateRun
    <3> HIDE DEF x
    <3> QED BY <3>2, <3>3, RowType
  <2>2. CASE UnitSucceeds(d)
    BY <2>2 DEF UnitSucceeds
  <2>3. CASE SettleRun(d)
    BY <2>3 DEF SettleRun
  <2>4. CASE DeleteLogs(d)
    BY <2>4 DEF DeleteLogs
  <2>5. CASE DeleteSnapshot(d)
    <3> DEFINE x == [run[d] EXCEPT !.snapshot = "deleted", !.unit = None]
    <3>1. x \in RunRow
      OBVIOUS
    <3>2. run' = [run EXCEPT ![d] = x]
      BY <2>5 DEF DeleteSnapshot
    <3> HIDE DEF x
    <3> QED BY <3>1, <3>2, RowType
  <2>6. CASE DeleteHistory(d)
    BY <2>6 DEF DeleteHistory, NoRun
  <2> QED BY <2>1, <2>2, <2>3, <2>4, <2>5, <2>6
<1>4. current' \in AppRelease \cup {None} /\ state' \in Version \cup {None}
  BY DEF CreateRun, UnitSucceeds, SettleRun, DeleteLogs, DeleteSnapshot, DeleteHistory, RunRow
<1> QED
  BY <1>2, <1>3, <1>4
  DEF CreateRun, UnitSucceeds, SettleRun, DeleteLogs, DeleteSnapshot, DeleteHistory,
      RunUnchanged, artifactVars, uploadVars, cleanVars, limitVars

LEMMA OperatorType ==
    ASSUME Inv, NEW r \in AppRelease, Archive(r) \/ DeleteAppRelease(r)
    PROVE  Inv'
<1>1. manifest' \in [AppRelease -> Manifest]
  BY DEF Inv, TypeOK, Archive, DeleteAppRelease, Manifest, NoManifest
<1> QED
  BY <1>1, UploadsKept, CleanupsKept
  DEF Inv, TypeOK, Programs, Archive, DeleteAppRelease, artifactVars, uploadVars, cleanVars,
      limitVars

LEMMA BeginCleanupType ==
    ASSUME Inv, NEW g \in Cleaner, NEW v \in Version, BeginCleanup(g, v)
    PROVE  /\ row' \in [Version -> UnitRelease]
           /\ cleaner' \in [Cleaner -> Cleanup]
           /\ \A h \in Cleaner : CleanupKnown(h)'
<1> USE DEF Inv, TypeOK, Programs
<1> DEFINE x == [pc |-> "look", version |-> v, targets |-> {}]
<1>1. x \in Cleanup /\ x.version = v
  BY DEF Cleanup
<1>2. cleaner' = [cleaner EXCEPT ![g] = x]
  BY DEF BeginCleanup
<1> HIDE DEF x
<1>3. row' \in [Version -> UnitRelease]
  BY DEF BeginCleanup, UnitRelease
<1> QED BY <1>1, <1>2, <1>3, RowType DEF CleanupKnown

LEMMA CleanupType ==
    ASSUME Inv, NEW g \in Cleaner,
           \/ \E v \in Version : RequestCleanup(g, v)
           \/ CleanupStep(g) \/ DropCleanup(g)
    PROVE  Inv'
<1> USE DEF Inv, TypeOK, Programs, CleanUnchanged, artifactVars, uploadVars, deployVars, limitVars
<1>0. UNCHANGED rq => \A p \in Request : UploadKnown(p)'
  BY UploadsKept
<1>1. ASSUME NEW v \in Version, RequestCleanup(g, v) PROVE Inv'
  BY <1>0, <1>1, BeginCleanupType DEF RequestCleanup
<1>2. CASE Look(g)
  <2>1. cleaner' \in [Cleaner -> Cleanup] /\ \A h \in Cleaner : CleanupKnown(h)'
    BY <1>2, CleanupGoes DEF Look, Fail
  <2> QED BY <1>0, <1>2, <2>1 DEF Look
<1>3. CASE RemovePackage(g)
  <2>1. cleaner' \in [Cleaner -> Cleanup] /\ \A h \in Cleaner : CleanupKnown(h)'
    BY <1>3, CleanupGoes DEF RemovePackage, Fail
  <2>2. disk' \in [Version -> Content \cup {"absent", "empty"}]
    BY <1>3 DEF RemovePackage
  <2> QED BY <1>0, <1>3, <2>1, <2>2 DEF RemovePackage
<1>4. CASE RemoveDir(g)
  <2>1. cleaner' \in [Cleaner -> Cleanup] /\ \A h \in Cleaner : CleanupKnown(h)'
    BY <1>4, CleanupGoes DEF RemoveDir, Fail
  <2>2. disk' \in [Version -> Content \cup {"absent", "empty"}]
    BY <1>4 DEF RemoveDir
  <2> QED BY <1>0, <1>4, <2>1, <2>2 DEF RemoveDir
<1>5. CASE EndCleanup(g)
  <2>1. cleaner' \in [Cleaner -> Cleanup] /\ \A h \in Cleaner : CleanupKnown(h)'
    BY <1>5, CleanupGoes DEF EndCleanup
  <2>2. row' \in [Version -> UnitRelease]
    <3> DEFINE v == cleaner[g].version
               x == [row[v] EXCEPT !.status = IF row[v].status = "deleting"
                                              THEN IF cleaner[g].pc = "finish" THEN "deleted"
                                                   ELSE "delete_failed"
                                              ELSE row[v].status]
    <3>1. v \in Version
      BY <1>5 DEF EndCleanup, CleanupKnown
    <3>2. x \in UnitRelease
      BY <3>1 DEF UnitRelease
    <3>3. row' = [row EXCEPT ![v] = x]
      BY <1>5 DEF EndCleanup
    <3> HIDE DEF v, x
    <3> QED BY <3>1, <3>2, <3>3, RowType
  <2> QED BY <1>0, <1>5, <2>1, <2>2 DEF EndCleanup
<1>6. CASE DropCleanup(g)
  <2>1. cleaner' \in [Cleaner -> Cleanup] /\ \A h \in Cleaner : CleanupKnown(h)'
    BY <1>6, CleanupGoes DEF DropCleanup
  <2>2. drops' \in 0 .. MaxDrops
    BY <1>6, BoundAssumption DEF DropCleanup
  <2> QED BY <1>0, <1>6, <2>1, <2>2 DEF DropCleanup
<1> QED BY <1>1, <1>2, <1>3, <1>4, <1>5, <1>6 DEF CleanupStep

LEMMA ProcessType ==
    ASSUME Inv, StartUp \/ Crash
    PROVE  Inv'
<1> USE DEF Inv, TypeOK, Programs, CleanUnchanged, artifactVars, uploadVars, deployVars, limitVars
<1>0. UNCHANGED rq => \A p \in Request : UploadKnown(p)'
  BY UploadsKept
<1>7. UNCHANGED cleaner => \A g \in Cleaner : CleanupKnown(g)'
  BY CleanupsKept
<1>1. CASE Start
  BY <1>0, <1>1, <1>7 DEF Start
<1>2. CASE Serve
  BY <1>0, <1>2, <1>7 DEF Serve
<1>3. ASSUME NEW v \in Version, BootCleanup(v) PROVE Inv'
  <2>1. CASE Cleanable(v)
    BY <1>0, <1>3, <2>1, BeginCleanupType, BootAssumption DEF BootCleanup
  <2>2. CASE ~Cleanable(v)
    BY <1>0, <1>3, <1>7, <2>2 DEF BootCleanup
  <2> QED BY <2>1, <2>2
<1>4. CASE Crash
  <2>1. cleaner' \in [Cleaner -> Cleanup] /\ \A g \in Cleaner : CleanupKnown(g)'
    BY <1>4, NoCleanupType DEF Crash, NoCleanup, CleanupKnown
  <2>2. \A q \in Request : rq'[q] \in Upload /\ rq'[q].pc \notin InFlight
    BY <1>4, AnsweredType DEF Crash, Answered, InFlight
  <2>3. rq' \in [Request -> Upload] /\ \A q \in Request : UploadKnown(q)'
    BY <1>4, <2>2 DEF Crash, UploadKnown
  <2>4. crashes' \in 0 .. MaxCrashes
    BY <1>4, BoundAssumption DEF Crash
  <2> QED BY <1>4, <2>1, <2>3, <2>4 DEF Crash
<1> QED BY <1>1, <1>2, <1>3, <1>4 DEF StartUp

LEMMA NextType == Inv /\ [Next]_vars => Inv'
<1> SUFFICES ASSUME Inv, [Next]_vars PROVE Inv'
  OBVIOUS
<1>1. CASE UNCHANGED vars
  BY <1>1, UploadsKept, CleanupsKept DEF Inv, TypeOK, Programs, vars
<1>2. CASE Next
  BY <1>2, UploadType, BeginUploadType, CreateAppReleaseType, DeployType, OperatorType,
     CleanupType, ProcessType
  DEF Next
<1> QED BY <1>1, <1>2

LEMMA Invariance == Spec => []Inv
BY InitType, NextType, PTL DEF Spec

\* Every row stays within its CHECK constraint and every future within its
\* program, whatever uploads, deployments and clean-ups interleave.
THEOREM TypeCorrect == Spec => []TypeOK
<1>1. Inv => TypeOK
  BY DEF Inv
<1> QED BY <1>1, Invariance, PTL
-----------------------------------------------------------------------------
(* What is referred to stays. *)

\* an active run can be repeated from its snapshot
Refs ==
    /\ ReferencedReleaseIsActive
    /\ \A d \in Run : run[d].status = "active" => run[d].snapshot = "active"

\* a step that leaves the references alone, and the active rows they refer to
LEMMA RowsChange ==
    ASSUME Refs, UNCHANGED <<manifest, run, state>>,
           \A v \in Version : Referenced(v) /\ row[v].status = "active" => row'[v].status = "active"
    PROVE  Refs'
<1>1. \A v \in Version : Referenced(v)' <=> Referenced(v)
  BY DEF Referenced, InManifest, InRuntime, InSnapshot, Exists
<1> QED BY <1>1 DEF Refs, ReferencedReleaseIsActive

\* a step that leaves the rows alone and refers to nothing new
LEMMA ReferencesChange ==
    ASSUME Refs, UNCHANGED row,
           \A v \in Version : Referenced(v)' => Referenced(v) \/ row[v].status = "active",
           \A d \in Run : (run[d].status = "active" => run[d].snapshot = "active")'
    PROVE  Refs'
BY DEF Refs, ReferencedReleaseIsActive

LEMMA RegisterRefs ==
    ASSUME Inv, Refs, NEW q \in Request, Register(q)
    PROVE  Refs'
<1>1. rq[q].version \in Version
  BY DEF Register, Inv, Programs, UploadKnown, InFlight
<1>2. \A v \in Version : row[v].status = "active" => row'[v].status = "active"
  BY <1>1 DEF Register, Inv, TypeOK
<1> QED
  BY <1>2, RowsChange DEF Register, UploadUnchanged, deployVars

LEMMA CreateAppReleaseRefs ==
    ASSUME Inv, Refs, NEW r \in AppRelease, NEW base \in AppRelease \cup {None},
           NEW change \in Version \cup {None, "inherit"}, CreateAppRelease(r, base, change)
    PROVE  Refs'
<1> USE DEF Inv, TypeOK
<1> DEFINE x == [status |-> "ready", base |-> base, unit |-> UnitOf(base, change)]
<1>1. manifest' = [manifest EXCEPT ![r] = x] /\ x.unit = UnitOf(base, change)
  BY DEF CreateAppRelease
<1>2. UnitOf(base, change) \in Version => row[UnitOf(base, change)].status = "active"
  <2>1. CASE change = "inherit"
    <3>1. base \in AppRelease /\ Exists(base) /\ UnitOf(base, change) = manifest[base].unit
      BY <2>1 DEF CreateAppRelease, UnitOf, Exists
    <3>2. UnitOf(base, change) \in Version => Referenced(UnitOf(base, change))
      BY <3>1 DEF Referenced, InManifest
    <3> QED BY <3>2 DEF Refs, ReferencedReleaseIsActive
  <2>2. CASE change # "inherit"
    BY <2>2 DEF CreateAppRelease, UnitOf
  <2> QED BY <2>1, <2>2
<1>3. UNCHANGED <<row, run, state>>
  BY DEF CreateAppRelease, artifactVars
<1> HIDE DEF x
<1>4. manifest'[r] = x /\ \A s \in AppRelease \ {r} : manifest'[s] = manifest[s]
  BY <1>1
<1>5. \A v \in Version : Referenced(v)' => Referenced(v) \/ row[v].status = "active"
  BY <1>1, <1>2, <1>3, <1>4 DEF Referenced, InManifest, InRuntime, InSnapshot, Exists
<1> QED BY <1>3, <1>5, ReferencesChange DEF Refs

LEMMA DeployRefs ==
    ASSUME Inv, Refs, NEW d \in Run,
           \/ \E r \in AppRelease : CreateRun(d, r)
           \/ UnitSucceeds(d) \/ SettleRun(d) \/ DeleteLogs(d) \/ DeleteSnapshot(d)
           \/ DeleteHistory(d)
    PROVE  Refs'
<1> USE DEF Inv, TypeOK, RunUnchanged, artifactVars
<1>0. /\ UNCHANGED <<row, manifest>>
      /\ \A e \in Run : run[e].status = "active" => run[e].snapshot = "active"
  BY DEF Refs, CreateRun, UnitSucceeds, SettleRun, DeleteLogs, DeleteSnapshot, DeleteHistory
<1>1. ASSUME NEW r \in AppRelease, CreateRun(d, r) PROVE Refs'
  <2> DEFINE x == [status |-> "active", release |-> r, unit |-> manifest[r].unit,
                   snapshot |-> "active", logs |-> "kept"]
  <2>1. run' = [run EXCEPT ![d] = x] /\ x.unit = manifest[r].unit /\ x.snapshot = "active"
    BY <1>1 DEF CreateRun
  <2>2. Exists(r) /\ UNCHANGED state
    BY <1>1 DEF CreateRun, Exists
  <2> HIDE DEF x
  <2>3. run'[d] = x /\ \A e \in Run \ {d} : run'[e] = run[e]
    BY <2>1
  <2>4. \A v \in Version : Referenced(v)' => Referenced(v)
    BY <1>0, <2>1, <2>2, <2>3 DEF Referenced, InManifest, InRuntime, InSnapshot, Exists
  <2> QED BY <1>0, <2>1, <2>3, <2>4, ReferencesChange
<1>2. CASE UnitSucceeds(d)
  <2>1. run[d].snapshot = "active" /\ state' = run[d].unit /\ UNCHANGED run
    BY <1>0, <1>2 DEF UnitSucceeds
  <2>2. \A v \in Version : Referenced(v)' => Referenced(v)
    BY <1>0, <2>1 DEF Referenced, InManifest, InRuntime, InSnapshot, Exists
  <2> QED BY <1>0, <2>1, <2>2, ReferencesChange
<1>3. CASE SettleRun(d) \/ DeleteLogs(d)
  <2>1. /\ UNCHANGED state
        /\ \A e \in Run : /\ run'[e].snapshot = run[e].snapshot /\ run'[e].unit = run[e].unit
                          /\ run'[e].status = "active" => run[e].status = "active"
    BY <1>3 DEF SettleRun, DeleteLogs, RunRow
  <2>2. \A v \in Version : Referenced(v)' => Referenced(v)
    BY <1>0, <2>1 DEF Referenced, InManifest, InRuntime, InSnapshot, Exists
  <2> QED BY <1>0, <2>1, <2>2, ReferencesChange
<1>4. CASE DeleteSnapshot(d) \/ DeleteHistory(d)
  <2>1. \E x \in RunRow : run' = [run EXCEPT ![d] = x] /\ x.status # "active" /\ x.unit = None
    <3>1. CASE DeleteSnapshot(d)
      <4> DEFINE x == [run[d] EXCEPT !.snapshot = "deleted", !.unit = None]
      <4>1. x \in RunRow /\ x.status = "settled" /\ x.unit = None
        BY <3>1 DEF DeleteSnapshot, RunRow
      <4>2. run' = [run EXCEPT ![d] = x]
        BY <3>1 DEF DeleteSnapshot
      <4> QED BY <4>1, <4>2
    <3>2. CASE DeleteHistory(d)
      <4> DEFINE x == [NoRun EXCEPT !.status = "deleted"]
      <4>1. x \in RunRow /\ x.status = "deleted" /\ x.unit = None
        BY DEF NoRun, RunRow
      <4>2. run' = [run EXCEPT ![d] = x]
        BY <3>2 DEF DeleteHistory
      <4> QED BY <4>1, <4>2
    <3> QED BY <1>4, <3>1, <3>2
  <2>2. PICK x \in RunRow : run' = [run EXCEPT ![d] = x] /\ x.status # "active" /\ x.unit = None
    BY <2>1
  <2>3. run'[d] = x /\ \A e \in Run \ {d} : run'[e] = run[e]
    BY <2>2
  <2>4. UNCHANGED state
    BY <1>4 DEF DeleteSnapshot, DeleteHistory
  <2>5. \A v \in Version : Referenced(v)' => Referenced(v)
    BY <1>0, <2>2, <2>3, <2>4, NoneAssumption
    DEF Referenced, InManifest, InRuntime, InSnapshot, Exists
  <2> QED BY <1>0, <2>2, <2>3, <2>5, ReferencesChange
<1> QED BY <1>1, <1>2, <1>3, <1>4

LEMMA OperatorRefs ==
    ASSUME Inv, Refs, NEW r \in AppRelease, Archive(r) \/ DeleteAppRelease(r)
    PROVE  Refs'
<1> USE DEF Inv, TypeOK
<1>1. UNCHANGED <<row, run, state>>
  BY DEF Archive, DeleteAppRelease, artifactVars
<1>2. \A s \in AppRelease : Exists(s)' => Exists(s) /\ manifest'[s].unit = manifest[s].unit
  BY DEF Archive, DeleteAppRelease, Exists, Manifest, NoManifest
<1>3. \A v \in Version : Referenced(v)' => Referenced(v)
  BY <1>1, <1>2 DEF Referenced, InManifest, InRuntime, InSnapshot
<1> QED BY <1>1, <1>3, ReferencesChange DEF Refs

LEMMA BeginCleanupRefs ==
    ASSUME Inv, Refs, NEW g \in Cleaner, NEW v \in Version, BeginCleanup(g, v),
           UNCHANGED deployVars
    PROVE  Refs'
<1>1. ~Referenced(v) /\ \A w \in Version \ {v} : row'[w] = row[w]
  BY DEF BeginCleanup, Cleanable, Inv, TypeOK
<1> QED BY <1>1, RowsChange DEF deployVars

LEMMA EndCleanupRefs ==
    ASSUME Inv, Refs, NEW g \in Cleaner, EndCleanup(g)
    PROVE  Refs'
<1>1. cleaner[g].version \in Version
  BY DEF EndCleanup, Inv, Programs, CleanupKnown
<1>2. \A w \in Version : row[w].status = "active" => row'[w].status = "active"
  BY <1>1 DEF EndCleanup, Inv, TypeOK, UnitRelease
<1> QED BY <1>2, RowsChange DEF EndCleanup, CleanUnchanged, deployVars

LEMMA NextRefs == Inv /\ Refs /\ [Next]_vars => Refs'
<1> SUFFICES ASSUME Inv, Refs, [Next]_vars PROVE Refs'
  OBVIOUS
<1>1. UNCHANGED <<row, manifest, run, state>> => Refs'
  BY RowsChange
<1>2. CASE UNCHANGED vars
  BY <1>1, <1>2 DEF vars
<1>3. ASSUME NEW q \in Request, NEW k \in Key, NEW v \in Version, NEW c \in Content,
             BeginUpload(q, k, v, c)
      PROVE  Refs'
  BY <1>1, <1>3 DEF BeginUpload, UploadUnchanged, artifactVars, deployVars
<1>4. ASSUME NEW q \in Request, UploadStep(q) \/ DropUpload(q) PROVE Refs'
  <2>1. CASE Register(q)
    BY <2>1, RegisterRefs
  <2>2. CASE ~Register(q)
    BY <1>1, <1>4, <2>2
    DEF UploadStep, Promote, RegisterFails, Remove, Store, DropUpload, UploadUnchanged,
        artifactVars, deployVars
  <2> QED BY <2>1, <2>2
<1>5. ASSUME NEW g \in Cleaner, CleanupStep(g) \/ DropCleanup(g) PROVE Refs'
  <2>1. CASE EndCleanup(g)
    BY <2>1, EndCleanupRefs
  <2>2. CASE ~EndCleanup(g)
    BY <1>1, <1>5, <2>2
    DEF CleanupStep, Look, RemovePackage, RemoveDir, DropCleanup, CleanUnchanged,
        artifactVars, deployVars
  <2> QED BY <2>1, <2>2
<1>6. ASSUME NEW g \in Cleaner, NEW v \in Version, RequestCleanup(g, v) PROVE Refs'
  BY <1>6, BeginCleanupRefs DEF RequestCleanup, CleanUnchanged
<1>7. CASE StartUp \/ Crash
  <2>1. ASSUME NEW v \in Version, BootCleanup(v) PROVE Refs'
    <3>1. CASE Cleanable(v)
      BY <2>1, <3>1, BootAssumption, BeginCleanupRefs DEF BootCleanup, CleanUnchanged
    <3>2. CASE ~Cleanable(v)
      BY <1>1, <2>1, <3>2 DEF BootCleanup, CleanUnchanged, deployVars
    <3> QED BY <3>1, <3>2
  <2>2. CASE Start \/ Serve \/ Crash
    BY <1>1, <2>2 DEF Start, Serve, Crash, CleanUnchanged, artifactVars, deployVars
  <2> QED BY <1>7, <2>1, <2>2 DEF StartUp
<1> QED
  BY <1>2, <1>3, <1>4, <1>5, <1>6, <1>7, CreateAppReleaseRefs, DeployRefs, OperatorRefs DEF Next

LEMMA InitRefs == Init => Refs
BY NoneAssumption
DEF Init, Refs, ReferencedReleaseIsActive, Referenced, InManifest, InRuntime, InSnapshot, Exists,
    NoManifest, NoRun

\* What an application release, the environment or a deployment refers to is
\* never marked for deletion, in any order of creating, deploying, archiving,
\* deleting, cleaning up and restarting.
THEOREM ReferencedStays == Spec => []ReferencedReleaseIsActive
<1>1. Refs => ReferencedReleaseIsActive
  BY DEF Refs
<1> QED BY <1>1, InitRefs, NextRefs, Invariance, PTL DEF Spec
-----------------------------------------------------------------------------
(* What is usable has its package, and what is on record is true. *)

\* a request that may put its package on record, or may take it away again
Holds(q) == rq[q].pc \in {"register", "remove"}

Package ==
    /\ \A v \in Version : row[v].status = "active" =>
          row[v].checksum \in Content /\ disk[v] = row[v].checksum
    /\ \A q \in Request : Holds(q) => row[rq[q].version].status # "active"
    /\ \A q \in Request : Holds(q) /\ row[rq[q].version].status = "none" =>
          /\ disk[rq[q].version] # "absent"
          /\ rq[q].pc = "register" => disk[rq[q].version] = rq[q].content
          /\ \A p \in Request : Holds(p) /\ rq[p].version = rq[q].version => p = q
    /\ \A g \in Cleaner : cleaner[g].pc # "idle" =>
          row[cleaner[g].version].status \notin {"none", "active"}

\* what is on record is true, and what is about to be put on record will be
Replay ==
    /\ \A k \in Key : record[k] # NoRecord =>
          /\ record[k].version \in Version
          /\ row[record[k].version].status # "none"
          /\ row[record[k].version].checksum = record[k].content
    /\ \A q \in Request : rq[q].pc = "store" =>
          /\ row[rq[q].version].status # "none"
          /\ row[rq[q].version].checksum = rq[q].content

\* what a step of the future of request q does to the other futures
LEMMA UploadFrame ==
    ASSUME Inv, NEW q \in Request,
           \/ \E pc \in InFlight : rq' = [rq EXCEPT ![q].pc = pc]
           \/ rq' = [rq EXCEPT ![q] = Answered]
    PROVE  /\ \A p \in Request \ {q} : rq'[p] = rq[p]
           /\ rq'[q].pc # "done" => rq'[q].version = rq[q].version /\ rq'[q].content = rq[q].content
           /\ \A pc \in InFlight : rq' = [rq EXCEPT ![q].pc = pc] => rq'[q].pc = pc
           /\ rq' = [rq EXCEPT ![q] = Answered] => rq'[q].pc = "done"
BY DEF Inv, TypeOK, Answered, Upload

LEMMA PromotePackage ==
    ASSUME Inv, Package, Replay, NEW q \in Request, Promote(q)
    PROVE  Package' /\ Replay'
<1> DEFINE v == rq[q].version
<1> USE DEF InFlight
<1>0. /\ v \in Version /\ rq[q].content \in Content /\ ~Holds(q)
      /\ disk \in [Version -> Content \cup {"absent", "empty"}]
      /\ UNCHANGED <<row, record, cleaner>>
  BY DEF Inv, TypeOK, Programs, UploadKnown, Promote, Holds, UploadUnchanged, cleanVars
<1>1. CASE disk[v] = "absent"
  <2>1. /\ rq' = [rq EXCEPT ![q].pc = "register"]
        /\ disk' = [disk EXCEPT ![v] = rq[q].content]
    BY <1>0, <1>1, DiskAssumption DEF Promote
  <2>2. /\ \A p \in Request \ {q} : rq'[p] = rq[p]
        /\ rq'[q].pc = "register" /\ rq'[q].version = v /\ rq'[q].content = rq[q].content
    BY <2>1, UploadFrame
  <2>3. /\ disk'[v] = rq[q].content /\ rq[q].content # "absent"
        /\ \A w \in Version \ {v} : disk'[w] = disk[w]
    BY <1>0, <2>1, DiskAssumption
  <2>4. /\ row[v].status # "active"
        /\ row[v].status = "none" => \A p \in Request : Holds(p) => rq[p].version # v
    BY <1>0, <1>1, DiskAssumption DEF Package
  <2>5. \A p \in Request : Holds(p)' <=> p = q \/ Holds(p)
    BY <2>2 DEF Holds
  <2> HIDE DEF v
  <2>6. \A p \in Request : Holds(p) => rq[p].version \in Version
    BY DEF Holds, Inv, Programs, UploadKnown
  <2>7. Package'
    BY <1>0, <2>2, <2>3, <2>4, <2>5, <2>6 DEF Package
  <2>8. Replay'
    BY <1>0, <2>2 DEF Replay
  <2> QED BY <2>7, <2>8
<1>2. CASE disk[v] # "absent"
  <2>1. rq' = [rq EXCEPT ![q] = Answered] /\ disk' = disk
    BY <1>2 DEF Promote
  <2>2. /\ \A p \in Request \ {q} : rq'[p] = rq[p]
        /\ rq'[q].pc = "done"
    BY <2>1, UploadFrame
  <2> QED BY <1>0, <2>1, <2>2 DEF Package, Replay, Holds
<1> QED BY <1>1, <1>2

LEMMA RegisterPackage ==
    ASSUME Inv, Package, Replay, NEW q \in Request, Register(q)
    PROVE  Package' /\ Replay'
<1> DEFINE v == rq[q].version
           c == rq[q].content
<1> USE DEF InFlight
<1>0. /\ v \in Version /\ c \in Content /\ Holds(q) /\ rq[q].pc = "register"
      /\ UNCHANGED <<disk, record, cleaner>>
  BY DEF Inv, TypeOK, Programs, UploadKnown, Register, Holds, UploadUnchanged, cleanVars
<1>1. CASE row[v].status = "none"
  <2>1. /\ rq' = [rq EXCEPT ![q].pc = "store"]
        /\ row' = [row EXCEPT ![v] = [status |-> "active", checksum |-> c]]
    BY <1>0, <1>1 DEF Register
  <2>2. /\ \A p \in Request \ {q} : rq'[p] = rq[p]
        /\ rq'[q].pc = "store" /\ rq'[q].version = v /\ rq'[q].content = c
    BY <2>1, UploadFrame
  <2>3. /\ row'[v].status = "active" /\ row'[v].checksum = c
        /\ \A w \in Version \ {v} : row'[w] = row[w]
    BY <1>0, <2>1 DEF Inv, TypeOK
  <2>4. /\ disk[v] = c
        /\ \A p \in Request \ {q} : Holds(p) => rq[p].version # v
        /\ \A g \in Cleaner : cleaner[g].pc # "idle" => cleaner[g].version # v
    BY <1>0, <1>1 DEF Package
  <2>5. \A p \in Request : Holds(p)' <=> p # q /\ Holds(p)
    BY <2>2 DEF Holds
  <2>6. /\ \A p \in Request : Holds(p) => rq[p].version \in Version
        /\ \A g \in Cleaner : cleaner[g].pc # "idle" => cleaner[g].version \in Version
        /\ \A p \in Request : rq[p].pc = "store" => rq[p].version \in Version
    BY DEF Holds, Inv, Programs, UploadKnown, CleanupKnown
  <2> HIDE DEF v, c
  <2>7. Package'
    BY <1>0, <2>2, <2>3, <2>4, <2>5, <2>6 DEF Package
  <2>8. Replay'
    BY <1>0, <1>1, <2>2, <2>3, <2>6 DEF Replay
  <2> QED BY <2>7, <2>8
<1>2. CASE row[v].status # "none"
  <2>1. /\ row' = row
        /\ rq' = [rq EXCEPT ![q].pc = IF row[v].checksum = c THEN "store" ELSE "remove"]
    BY <1>0, <1>2 DEF Register, Accepted
  <2>2. /\ \A p \in Request \ {q} : rq'[p] = rq[p]
        /\ rq'[q].pc = (IF row[v].checksum = c THEN "store" ELSE "remove")
        /\ rq'[q].version = v /\ rq'[q].content = c
    BY <2>1, UploadFrame
  <2>3. /\ \A p \in Request : Holds(p)' => Holds(p)
        /\ \A p \in Request : rq'[p].version = rq[p].version
    BY <1>0, <2>2 DEF Holds
  <2> HIDE DEF c
  <2>4. Package'
    BY <1>0, <1>2, <2>1, <2>2, <2>3 DEF Package
  <2>5. Replay'
    BY <1>0, <1>2, <2>1, <2>2 DEF Replay
  <2> QED BY <2>4, <2>5
<1> QED BY <1>1, <1>2

LEMMA UploadPackage ==
    ASSUME Inv, Package, Replay, NEW q \in Request, UploadStep(q) \/ DropUpload(q)
    PROVE  Package' /\ Replay'
<1> USE DEF InFlight, UploadUnchanged, cleanVars, artifactVars
<1>1. CASE RegisterFails(q)
  <2>1. /\ rq' = [rq EXCEPT ![q].pc = "remove"] /\ rq[q].pc = "register"
        /\ UNCHANGED <<row, disk, record, cleaner>>
    BY <1>1 DEF RegisterFails
  <2>2. /\ \A p \in Request \ {q} : rq'[p] = rq[p]
        /\ rq'[q].pc = "remove" /\ rq'[q].version = rq[q].version
    BY <2>1, UploadFrame
  <2>3. \A p \in Request : (Holds(p)' <=> Holds(p)) /\ rq'[p].version = rq[p].version
    BY <2>1, <2>2 DEF Holds
  <2>4. Package'
    BY <2>1, <2>2, <2>3 DEF Package
  <2> QED BY <2>1, <2>2, <2>4 DEF Replay
<1>2. CASE Remove(q)
  <2> DEFINE v == rq[q].version
  <2>1. /\ rq' = [rq EXCEPT ![q] = Answered] /\ rq[q].pc = "remove" /\ Holds(q)
        /\ disk' \in {disk, [disk EXCEPT ![v] = "absent"]}
        /\ UNCHANGED <<row, record, cleaner>>
    BY <1>2 DEF Remove, Holds
  <2>2. /\ \A p \in Request \ {q} : rq'[p] = rq[p]
        /\ rq'[q].pc = "done"
    BY <2>1, UploadFrame
  <2>3. \A w \in Version \ {v} : disk'[w] = disk[w]
    BY <2>1 DEF Inv, TypeOK
  <2>4. /\ row[v].status # "active"
        /\ row[v].status = "none" => \A p \in Request \ {q} : Holds(p) => rq[p].version # v
    BY <2>1 DEF Package
  <2>5. \A p \in Request : Holds(p)' <=> p # q /\ Holds(p)
    BY <2>2 DEF Holds
  <2>6. \A p \in Request : Holds(p) => rq[p].version \in Version
    BY DEF Holds, Inv, Programs, UploadKnown
  <2> HIDE DEF v
  <2>7. Package'
    BY <2>1, <2>2, <2>3, <2>4, <2>5, <2>6 DEF Package
  <2> QED BY <2>1, <2>2, <2>7 DEF Replay
<1>3. CASE Store(q)
  <2>1. /\ rq' = [rq EXCEPT ![q] = Answered] /\ rq[q].pc = "store" /\ ~Holds(q)
        /\ UNCHANGED <<row, disk, cleaner>>
    BY <1>3 DEF Store, Holds
  <2>2. /\ \A p \in Request \ {q} : rq'[p] = rq[p]
        /\ rq'[q].pc = "done"
    BY <2>1, UploadFrame
  <2>3. Package'
    BY <2>1, <2>2 DEF Package, Holds
  <2>4. \/ record' = record
        \/ record' = [record EXCEPT ![rq[q].key] = [version |-> rq[q].version,
                                                   content |-> rq[q].content]]
    BY <1>3 DEF Store
  <2>5. rq[q].version \in Version /\ rq[q].key \in Key
    BY <2>1 DEF Inv, Programs, UploadKnown
  <2>6. \A k \in Key : \/ record'[k] = record[k]
                        \/ /\ record'[k].version = rq[q].version
                           /\ record'[k].content = rq[q].content
    BY <2>4, <2>5 DEF Inv, TypeOK
  <2> QED BY <2>1, <2>2, <2>3, <2>5, <2>6 DEF Replay
<1>4. CASE DropUpload(q)
  <2>1. /\ rq' = [rq EXCEPT ![q] = Answered]
        /\ UNCHANGED <<row, disk, record, cleaner>>
    BY <1>4 DEF DropUpload
  <2>2. /\ \A p \in Request \ {q} : rq'[p] = rq[p]
        /\ rq'[q].pc = "done"
    BY <2>1, UploadFrame
  <2> QED BY <2>1, <2>2 DEF Package, Replay, Holds
<1> QED BY <1>1, <1>2, <1>3, <1>4, PromotePackage, RegisterPackage DEF UploadStep

\* a step that leaves all of it alone
LEMMA PackageKept ==
    ASSUME Package, Replay, UNCHANGED <<row, disk, record, rq, cleaner>>
    PROVE  Package' /\ Replay'
BY DEF Package, Replay, Holds

\* A clean-up touches rows that are not usable, and not to be registered anew.
LEMMA RowsFall ==
    ASSUME Inv, Package, Replay, UNCHANGED <<disk, record, rq>>,
           \A v \in Version :
              /\ row'[v].checksum = row[v].checksum
              /\ row'[v].status = "active" => row[v].status = "active"
              /\ row'[v].status = "none" <=> row[v].status = "none",
           \A g \in Cleaner : cleaner'[g].pc # "idle" =>
              /\ cleaner'[g].version \in Version
              /\ row'[cleaner'[g].version].status \notin {"none", "active"}
    PROVE  Package' /\ Replay'
<1>1. \A q \in Request : rq[q].pc \in InFlight => rq[q].version \in Version
  BY DEF Inv, Programs, UploadKnown
<1>2. \A q \in Request : Holds(q)' <=> Holds(q)
  BY DEF Holds
<1> QED BY <1>1, <1>2 DEF Package, Replay, Holds, InFlight

LEMMA BeginCleanupPackage ==
    ASSUME Inv, Package, Replay, NEW g \in Cleaner, NEW v \in Version, BeginCleanup(g, v),
           UNCHANGED <<disk, record, rq>>
    PROVE  Package' /\ Replay'
<1>1. /\ row[v].status \notin {"none"} /\ row'[v].status = "deleting"
      /\ row'[v].checksum = row[v].checksum
      /\ \A w \in Version \ {v} : row'[w] = row[w]
  BY DEF BeginCleanup, Cleanable, Inv, TypeOK, UnitRelease
<1>2. cleaner' = [cleaner EXCEPT ![g] = [pc |-> "look", version |-> v, targets |-> {}]]
  BY DEF BeginCleanup
<1>3. cleaner'[g].version = v /\ \A h \in Cleaner \ {g} : cleaner'[h] = cleaner[h]
  BY <1>2 DEF Inv, TypeOK
<1>4. \A h \in Cleaner : cleaner[h].pc # "idle" =>
         cleaner[h].version \in Version /\ row[cleaner[h].version].status \notin {"none", "active"}
  BY DEF Inv, Programs, CleanupKnown, Package
<1> QED BY <1>1, <1>3, <1>4, RowsFall

\* what a step of the clean-up g does to the others
LEMMA CleanupFrame ==
    ASSUME Inv, NEW g \in Cleaner, cleaner[g].pc # "idle",
           \/ \E pc \in {"remove", "finish", "fail"}, targets \in SUBSET {"package", "dir"} :
                  Continue(g, pc, targets)
           \/ cleaner' = [cleaner EXCEPT ![g] = NoCleanup]
    PROVE  \A h \in Cleaner : cleaner'[h].pc # "idle" =>
              cleaner[h].pc # "idle" /\ cleaner'[h].version = cleaner[h].version
<1>1. cleaner \in [Cleaner -> Cleanup]
  BY DEF Inv, TypeOK
<1>2. \A h \in Cleaner \ {g} : cleaner'[h] = cleaner[h]
  BY <1>1 DEF Continue
<1>3. cleaner'[g].version = cleaner[g].version \/ cleaner'[g].pc = "idle"
  BY <1>1 DEF Continue, NoCleanup
<1> QED BY <1>2, <1>3

LEMMA CleanupPackage ==
    ASSUME Inv, Package, Replay, NEW g \in Cleaner, CleanupStep(g) \/ DropCleanup(g)
    PROVE  Package' /\ Replay'
<1> USE DEF CleanUnchanged, artifactVars, uploadVars
<1> DEFINE v == cleaner[g].version
<1>0. /\ cleaner[g].pc # "idle" /\ v \in Version /\ UNCHANGED <<record, rq>>
      /\ row[v].status \notin {"none", "active"}
  BY DEF CleanupStep, Look, RemovePackage, RemoveDir, EndCleanup, DropCleanup, Inv, Programs,
         CleanupKnown, Package
<1>1. \A h \in Cleaner : cleaner'[h].pc # "idle" =>
         cleaner[h].pc # "idle" /\ cleaner'[h].version = cleaner[h].version
  BY <1>0, CleanupFrame
  DEF CleanupStep, Look, RemovePackage, RemoveDir, EndCleanup, DropCleanup, Fail
<1>2. \A h \in Cleaner : cleaner[h].pc # "idle" =>
         cleaner[h].version \in Version /\ row[cleaner[h].version].status \notin {"none", "active"}
  BY DEF Inv, Programs, CleanupKnown, Package
<1>3. CASE EndCleanup(g)
  <2>1. /\ row'[v].checksum = row[v].checksum
        /\ row'[v].status \notin {"none", "active"}
        /\ \A w \in Version \ {v} : row'[w] = row[w]
        /\ UNCHANGED disk
    <3> DEFINE x == [row[v] EXCEPT !.status = IF row[v].status = "deleting"
                                             THEN IF cleaner[g].pc = "finish" THEN "deleted"
                                                  ELSE "delete_failed"
                                             ELSE row[v].status]
    <3>1. row[v] \in UnitRelease /\ row \in [Version -> UnitRelease]
      BY <1>0 DEF Inv, TypeOK
    <3>2. x.checksum = row[v].checksum /\ x.status \notin {"none", "active"} /\ x \in UnitRelease
      BY <1>0, <3>1 DEF UnitRelease
    <3>3. row' = [row EXCEPT ![v] = x] /\ UNCHANGED disk
      BY <1>3 DEF EndCleanup
    <3> HIDE DEF x, v
    <3> QED BY <1>0, <3>1, <3>2, <3>3, RowType
  <2> HIDE DEF v
  <2> QED BY <1>0, <1>1, <1>2, <2>1, RowsFall
<1>4. CASE Look(g) \/ DropCleanup(g)
  BY <1>0, <1>1, <1>2, <1>4, RowsFall DEF Look, DropCleanup
<1>5. CASE RemovePackage(g) \/ RemoveDir(g)
  <2>1. UNCHANGED row /\ \A w \in Version \ {v} : disk'[w] = disk[w]
    BY <1>0, <1>5 DEF RemovePackage, RemoveDir, Inv, TypeOK
  <2>2. \A q \in Request : Holds(q) => rq[q].version \in Version
    BY DEF Holds, Inv, Programs, UploadKnown, InFlight
  <2>3. \A q \in Request : Holds(q)' <=> Holds(q)
    BY <1>0 DEF Holds
  <2> HIDE DEF v
  <2>4. Package'
    BY <1>0, <1>1, <1>2, <2>1, <2>2, <2>3 DEF Package
  <2> QED BY <1>0, <2>1, <2>4 DEF Replay
<1> QED BY <1>3, <1>4, <1>5 DEF CleanupStep

LEMMA NextPackage == Inv /\ Package /\ Replay /\ [Next]_vars => Package' /\ Replay'
<1> SUFFICES ASSUME Inv, Package, Replay, [Next]_vars PROVE Package' /\ Replay'
  OBVIOUS
<1> USE DEF artifactVars, uploadVars, cleanVars
<1>1. CASE UNCHANGED vars
  BY <1>1, PackageKept DEF vars
<1>2. ASSUME NEW q \in Request, NEW k \in Key, NEW v \in Version, NEW c \in Content,
             BeginUpload(q, k, v, c)
      PROVE  Package' /\ Replay'
  <2>1. /\ UNCHANGED <<row, disk, record, cleaner>>
        /\ \A p \in Request : rq'[p] = rq[p] \/ rq'[p].pc \in {"promote", "done"}
    BY <1>2 DEF BeginUpload, UploadUnchanged, Answered, Inv, TypeOK
  <2>2. \A p \in Request : Holds(p)' => Holds(p) /\ rq'[p] = rq[p]
    BY <2>1 DEF Holds
  <2>3. Package'
    BY <2>1, <2>2 DEF Package, Holds
  <2> QED BY <2>1, <2>3 DEF Replay
<1>3. ASSUME NEW r \in AppRelease, Archive(r) \/ DeleteAppRelease(r) PROVE Package' /\ Replay'
  BY <1>3, PackageKept DEF Archive, DeleteAppRelease
<1>4. ASSUME NEW r \in AppRelease, NEW base \in AppRelease \cup {None},
             NEW change \in Version \cup {None, "inherit"}, CreateAppRelease(r, base, change)
      PROVE  Package' /\ Replay'
  BY <1>4, PackageKept DEF CreateAppRelease
<1>5. ASSUME NEW d \in Run,
             \/ \E r \in AppRelease : CreateRun(d, r)
             \/ UnitSucceeds(d) \/ SettleRun(d) \/ DeleteLogs(d) \/ DeleteSnapshot(d)
             \/ DeleteHistory(d)
      PROVE  Package' /\ Replay'
  BY <1>5, PackageKept
  DEF CreateRun, UnitSucceeds, SettleRun, DeleteLogs, DeleteSnapshot, DeleteHistory, RunUnchanged
<1>6. ASSUME NEW g \in Cleaner, NEW v \in Version, RequestCleanup(g, v)
      PROVE  Package' /\ Replay'
  BY <1>6, BeginCleanupPackage DEF RequestCleanup, CleanUnchanged
<1>7. CASE StartUp
  <2>1. ASSUME NEW v \in Version, BootCleanup(v) PROVE Package' /\ Replay'
    <3>1. CASE Cleanable(v)
      BY <2>1, <3>1, BootAssumption, BeginCleanupPackage DEF BootCleanup, CleanUnchanged
    <3>2. CASE ~Cleanable(v)
      BY <2>1, <3>2, PackageKept DEF BootCleanup, CleanUnchanged
    <3> QED BY <3>1, <3>2
  <2>2. CASE Start \/ Serve
    BY <2>2, PackageKept DEF Start, Serve, CleanUnchanged
  <2> QED BY <1>7, <2>1, <2>2 DEF StartUp
<1>8. CASE Crash
  <2>1. /\ UNCHANGED <<row, disk, record>>
        /\ \A q \in Request : rq'[q].pc \in {"idle", "done"}
        /\ \A g \in Cleaner : cleaner'[g].pc = "idle"
    BY <1>8 DEF Crash, Answered, NoCleanup
  <2>2. Package'
    BY <2>1 DEF Package, Holds
  <2> QED BY <2>1, <2>2 DEF Replay
<1> QED
  BY <1>1, <1>2, <1>3, <1>4, <1>5, <1>6, <1>7, <1>8, UploadPackage, CleanupPackage DEF Next

LEMMA InitPackage == Init => Package /\ Replay
BY UploadedAssumption
DEF Init, Package, Replay, Holds, NoUpload, NoCleanup, NoRelease

\* A unit release that may be used has the package that was registered, whatever
\* uploads, failed uploads and clean-ups of a version do to its directory.
THEOREM PackageIsThere == Spec => []ActiveReleaseHasPackage
<1>1. Package => ActiveReleaseHasPackage
  BY DEF Package, ActiveReleaseHasPackage
<1> QED BY <1>1, InitPackage, NextPackage, Invariance, PTL DEF Spec

\* The recorded answer to a request is true, however two uses of a key, or two
\* uploads of a version, interleave.
THEOREM ReplayTrue == Spec => []ReplayIsTrue
<1>1. Replay => ReplayIsTrue
  BY DEF Replay, ReplayIsTrue
<1> QED BY <1>1, InitPackage, NextPackage, Invariance, PTL DEF Spec
=============================================================================
