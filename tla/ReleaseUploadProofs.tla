------------------------- MODULE ReleaseUploadProofs -------------------------
(***************************************************************************)
(* Proofs about ReleaseUpload, for every value of its constants.           *)
(*                                                                         *)
(* Inv adds to the types that a request or a clean-up under way works on a *)
(* session that was created (Known); what a step writes to a row is put in *)
(* one relation (Evolves).  On these stand four invariants, each with what *)
(* its theorem needs: who reserves a version, when a clean-up is due       *)
(* (CleanupWaits), which objects and directories releases have             *)
(* (ObjectsKept, DirectoriesKept), and who holds a claim (Claims).         *)
(***************************************************************************)
EXTENDS ReleaseUpload, FiniteSetTheorems, TLAPS

Busy == {"expire", "claim", "verify", "store", "register", "clear", "cancel"}

\* a future and the worker know their session, and a session its version
SessionKnown(u) == row[u].status # "none" => row[u].version \in Version
CallKnown(q) ==
    rq[q].pc \in Busy =>
        /\ rq[q].upload \in Upload /\ row[rq[q].upload].status # "none"
        /\ rq[q].pc = "expire" => Due(row[rq[q].upload])
WorkerKnown ==
    worker.pc # "idle" => worker.upload \in Upload /\ row[worker.upload].status # "none"

Known ==
    /\ \A u \in Upload : SessionKnown(u)
    /\ \A q \in Request : CallKnown(q)
    /\ WorkerKnown

Inv == TypeOK /\ Known
-----------------------------------------------------------------------------
(* What is written to a row. *)

\* writing one row of a table
LEMMA RowType ==
    ASSUME NEW S, NEW V, NEW r \in S, NEW f \in [S -> V], NEW x \in V
    PROVE  /\ [f EXCEPT ![r] = x] \in [S -> V]
           /\ [f EXCEPT ![r] = x][r] = x
           /\ \A q \in S \ {r} : [f EXCEPT ![r] = x][q] = f[q]
OBVIOUS

LEMMA ExpiredRow ==
    ASSUME NEW s \in Session, now \in Time
    PROVE  /\ Expired(s) \in Session
           /\ Expired(s).status = "expired" /\ Expired(s).active = 0 /\ Expired(s).claim = "null"
           /\ Expired(s).version = s.version /\ Expired(s).expires = s.expires
           /\ Expired(s).cleanup = s.cleanup
           /\ Expired(s).cleanAt = IF s.cleanAt = NoTime THEN now ELSE s.cleanAt
BY DEF Expired, Session

LEMMA CanceledRow ==
    ASSUME NEW s \in Session, now \in Time
    PROVE  /\ Canceled(s) \in Session
           /\ Canceled(s).status = "canceled" /\ Canceled(s).active = 0 /\ Canceled(s).claim = "null"
           /\ Canceled(s).version = s.version /\ Canceled(s).expires = s.expires
           /\ Canceled(s).cleanup = s.cleanup
           /\ Canceled(s).cleanAt = IF s.cleanAt # NoTime THEN s.cleanAt
                                    ELSE IF s.expires > now THEN s.expires ELSE now
BY DEF Canceled, Session

LEMMA CompletedRow ==
    ASSUME NEW s \in Session
    PROVE  LET t == [s EXCEPT !.status = "completed", !.active = 0, !.claim = "null"] IN
           /\ t \in Session
           /\ t.status = "completed" /\ t.active = 0 /\ t.claim = "null"
           /\ t.version = s.version /\ t.expires = s.expires
           /\ t.cleanup = s.cleanup /\ t.cleanAt = s.cleanAt
BY DEF Session

LEMMA UnclaimedRow ==
    ASSUME NEW s \in Session
    PROVE  /\ Unclaimed(s) \in Session
           /\ Unclaimed(s).status = s.status /\ Unclaimed(s).active = s.active
           /\ Unclaimed(s).version = s.version /\ Unclaimed(s).expires = s.expires
           /\ Unclaimed(s).cleanup = s.cleanup /\ Unclaimed(s).cleanAt = s.cleanAt
           /\ Unclaimed(s).claim = IF s.status = "pending" /\ s.active = 1 THEN "null" ELSE s.claim
BY DEF Unclaimed, Session

LEMMA ClaimedRow ==
    ASSUME NEW s \in Session, NEW claim \in {"null", "set"}
    PROVE  LET t == [s EXCEPT !.claim = claim] IN
           /\ t \in Session
           /\ t.status = s.status /\ t.active = s.active /\ t.claim = claim
           /\ t.version = s.version /\ t.expires = s.expires
           /\ t.cleanup = s.cleanup /\ t.cleanAt = s.cleanAt
BY DEF Session

LEMMA CleanedRow ==
    ASSUME NEW s \in Session, NEW cleanup \in {"null", "started", "completed"}
    PROVE  LET t == [s EXCEPT !.cleanup = cleanup] IN
           /\ t \in Session
           /\ t.status = s.status /\ t.active = s.active /\ t.claim = s.claim
           /\ t.version = s.version /\ t.expires = s.expires
           /\ t.cleanup = cleanup /\ t.cleanAt = s.cleanAt
BY DEF Session

LEMMA RecoveredRow ==
    ASSUME NEW s \in Session
    PROVE  /\ Recovered(s) \in Session
           /\ Recovered(s).status = s.status /\ Recovered(s).active = s.active
           /\ Recovered(s).version = s.version /\ Recovered(s).expires = s.expires
           /\ Recovered(s).cleanAt = s.cleanAt
           /\ Recovered(s).claim = Unclaimed(s).claim
<1> DEFINE t == Unclaimed(s)
           x == IF s.cleanup = "started" THEN "null" ELSE s.cleanup
<1>1. t \in Session
  BY UnclaimedRow
<1>2. x \in {"null", "started", "completed"}
  BY DEF Session
<1>3. Recovered(s) = [t EXCEPT !.cleanup = x]
  BY DEF Recovered
<1> HIDE DEF t, x
<1>4. /\ Recovered(s) \in Session
      /\ Recovered(s).status = t.status /\ Recovered(s).active = t.active
      /\ Recovered(s).claim = t.claim
      /\ Recovered(s).version = t.version /\ Recovered(s).expires = t.expires
      /\ Recovered(s).cleanAt = t.cleanAt
  BY <1>1, <1>2, <1>3 DEF Session
<1> QED BY <1>4, UnclaimedRow DEF t
-----------------------------------------------------------------------------
(* How the rows of sessions evolve. *)

\* A session keeps its version and its address, ends at most once, is reserved
\* and given a time for its clean-up no sooner than its address expires.
Evolves(s, t) ==
    /\ t.version = s.version /\ t.expires = s.expires
    /\ t.status = s.status \/ (s.status = "pending" /\ t.status \in Dead \cup {"completed"})
    /\ t.active = 1 => s.active = 1
    /\ t.cleanAt = s.cleanAt \/ t.cleanAt >= t.expires

Created(s, t) ==
    /\ s.status = "none"
    /\ t.status = "pending" /\ t.version \in Version /\ t.active = 1
    /\ t.claim = "null" /\ t.cleanAt = NoTime

\* a step that writes one row
LEMMA OneRow ==
    ASSUME Inv, NEW u \in Upload, NEW x \in Session, Evolves(row[u], x),
           row' = [row EXCEPT ![u] = x]
    PROVE  /\ row' \in [Upload -> Session]
           /\ \A w \in Upload : Evolves(row[w], row'[w])
<1>1. row \in [Upload -> Session]
  BY DEF Inv, TypeOK
<1> QED BY <1>1, RowType DEF Evolves

LEMMA ExpiredEvolves ==
    ASSUME NEW s \in Session, now \in Time, s.status = "pending", Due(s)
    PROVE  Expired(s) \in Session /\ Evolves(s, Expired(s))
<1>1. s.expires <= now /\ s.expires \in Int /\ now \in Int
  BY ClockAssumption DEF Due, Session, Time
<1> QED BY <1>1, ExpiredRow DEF Evolves, Dead

LEMMA ReservationExpires ==
    ASSUME Inv, NEW v \in Version
    PROVE  /\ ExpireReservation(v) \in [Upload -> Session]
           /\ \A u \in Upload : Evolves(row[u], ExpireReservation(v)[u])
<1>1. now \in Time /\ row \in [Upload -> Session]
  BY DEF Inv, TypeOK
<1>2. \A u \in Upload : Expirable(row[u]) =>
          Expired(row[u]) \in Session /\ Evolves(row[u], Expired(row[u]))
  BY <1>1, ExpiredEvolves DEF Expirable
<1> QED BY <1>1, <1>2 DEF ExpireReservation, Evolves

LEMMA CreateRows ==
    ASSUME Inv, NEW u \in Upload, NEW v \in Version, CreateUpload(u, v)
    PROVE  /\ row' \in [Upload -> Session]
           /\ Created(row[u], row'[u]) /\ row'[u].version = v
           /\ \A w \in Upload \ {u} : /\ row'[w] = ExpireReservation(v)[w]
                                      /\ Evolves(row[w], row'[w])
<1> DEFINE x == [NoSession EXCEPT !.status = "pending", !.version = v, !.active = 1,
                                  !.expires = now + Ttl]
<1>1. now + Ttl \in Time
  BY ClockAssumption DEF CreateUpload, Inv, TypeOK, Time
<1>2. /\ x \in Session /\ x.status = "pending" /\ x.active = 1 /\ x.claim = "null"
      /\ x.version = v /\ x.cleanAt = NoTime
  BY <1>1 DEF NoSession, Session
<1> DEFINE f == ExpireReservation(v)
<1>3. row' = [f EXCEPT ![u] = x] /\ row[u].status = "none"
  BY DEF CreateUpload
<1>4. f \in [Upload -> Session] /\ \A w \in Upload : Evolves(row[w], f[w])
  BY ReservationExpires
<1> HIDE DEF x, f
<1>5. row' \in [Upload -> Session] /\ row'[u] = x /\ \A w \in Upload \ {u} : row'[w] = f[w]
  BY <1>2, <1>3, <1>4, RowType
<1> QED BY <1>2, <1>3, <1>4, <1>5 DEF Created, f

LEMMA CompleteRows ==
    ASSUME Inv, NEW q \in Request,
           CompleteExpires(q) \/ ClaimVerification(q) \/ Register(q) \/ ClearVerification(q)
              \/ CancelUpload(q)
    PROVE  /\ row' \in [Upload -> Session]
           /\ \A w \in Upload : Evolves(row[w], row'[w])
<1> DEFINE u == rq[q].upload
<1>1. /\ now \in Time /\ row \in [Upload -> Session] /\ u \in Upload /\ row[u] \in Session
      /\ rq[q].pc = "expire" => Due(row[u])
  BY DEF Inv, TypeOK, Known, CallKnown, Busy, CompleteExpires, ClaimVerification, Register,
         ClearVerification, CancelUpload
<1>2. Evolves(row[u], row[u])
  BY DEF Evolves
<1>3. CASE CompleteExpires(q)
  <2> DEFINE x == IF row[u].status = "pending" THEN Expired(row[u]) ELSE row[u]
  <2>1. x \in Session /\ Evolves(row[u], x)
    BY <1>1, <1>2, <1>3, ExpiredEvolves DEF CompleteExpires
  <2>2. row' = [row EXCEPT ![u] = x]
    BY <1>3 DEF CompleteExpires
  <2> HIDE DEF x, u
  <2> QED BY <1>1, <2>1, <2>2, OneRow
<1>4. CASE ClaimVerification(q)
  <2> DEFINE x == [row[u] EXCEPT !.claim = "set"]
  <2>1. x \in Session /\ Evolves(row[u], x)
    BY <1>1, ClaimedRow DEF Evolves
  <2>2. row' = row \/ row' = [row EXCEPT ![u] = x]
    BY <1>4 DEF ClaimVerification
  <2> HIDE DEF x, u
  <2> QED BY <1>1, <2>1, <2>2, OneRow DEF Evolves
<1>5. CASE Register(q)
  <2> DEFINE x == [row[u] EXCEPT !.status = "completed", !.active = 0, !.claim = "null"]
  <2>1. x \in Session /\ Evolves(row[u], x)
    BY <1>1, <1>5, CompletedRow DEF Evolves, Register, HoldsClaim
  <2>2. row' = [row EXCEPT ![u] = x]
    BY <1>5 DEF Register
  <2> HIDE DEF x, u
  <2> QED BY <1>1, <2>1, <2>2, OneRow
<1>6. CASE ClearVerification(q)
  <2>1. Unclaimed(row[u]) \in Session /\ Evolves(row[u], Unclaimed(row[u]))
    BY <1>1, UnclaimedRow DEF Evolves
  <2>2. row' = [row EXCEPT ![u] = Unclaimed(row[u])]
    BY <1>6 DEF ClearVerification
  <2> HIDE DEF u
  <2> QED BY <1>1, <2>1, <2>2, OneRow
<1>7. CASE CancelUpload(q)
  <2> DEFINE x == IF row[u].status = "pending" THEN Canceled(row[u]) ELSE row[u]
  <2>1. /\ row[u].status = "pending" => Evolves(row[u], Canceled(row[u]))
        /\ Canceled(row[u]) \in Session
    <3>1. row[u].expires \in Int /\ now \in Int
      BY <1>1, ClockAssumption DEF Session, Time
    <3> QED BY <1>1, <3>1, CanceledRow DEF Evolves, Dead
  <2>2. x \in Session /\ Evolves(row[u], x)
    BY <1>1, <1>2, <2>1
  <2>3. row' = [row EXCEPT ![u] = x]
    BY <1>7 DEF CancelUpload
  <2> HIDE DEF x, u
  <2> QED BY <1>1, <2>2, <2>3, OneRow
<1> QED BY <1>3, <1>4, <1>5, <1>6, <1>7

LEMMA CleanRows ==
    ASSUME Inv,
           \/ \E u \in Upload : ScheduleExpire(u) \/ StartCleanup(u)
           \/ FinishCleanup \/ CleanupFails \/ Recover
           \/ \E l \in LocalUpload : LocalCheck(l) \/ LocalRegister(l)
    PROVE  /\ row' \in [Upload -> Session]
           /\ \A w \in Upload : Evolves(row[w], row'[w])
<1>0. now \in Time /\ row \in [Upload -> Session]
  BY DEF Inv, TypeOK
<1>1. ASSUME NEW u \in Upload, ScheduleExpire(u)
      PROVE  row' \in [Upload -> Session] /\ \A w \in Upload : Evolves(row[w], row'[w])
  <2>1. Expired(row[u]) \in Session /\ Evolves(row[u], Expired(row[u]))
    BY <1>0, <1>1, ExpiredEvolves DEF ScheduleExpire, Expirable
  <2>2. row' = [row EXCEPT ![u] = Expired(row[u])]
    BY <1>1 DEF ScheduleExpire
  <2> QED BY <2>1, <2>2, OneRow
<1>2. ASSUME NEW u \in Upload, NEW cleanup \in {"null", "started", "completed"},
             row' = [row EXCEPT ![u].cleanup = cleanup]
      PROVE  row' \in [Upload -> Session] /\ \A w \in Upload : Evolves(row[w], row'[w])
  <2> DEFINE x == [row[u] EXCEPT !.cleanup = cleanup]
  <2>1. x \in Session /\ Evolves(row[u], x)
    BY <1>0, CleanedRow DEF Evolves
  <2>2. row' = [row EXCEPT ![u] = x]
    BY <1>2
  <2> HIDE DEF x
  <2> QED BY <2>1, <2>2, OneRow
<1>3. UNCHANGED row => row' \in [Upload -> Session] /\ \A w \in Upload : Evolves(row[w], row'[w])
  BY <1>0 DEF Evolves
<1>4. ASSUME NEW u \in Upload, StartCleanup(u)
      PROVE  row' \in [Upload -> Session] /\ \A w \in Upload : Evolves(row[w], row'[w])
  BY <1>2, <1>3, <1>4 DEF StartCleanup
<1>5. CASE FinishCleanup \/ CleanupFails
  BY <1>2, <1>5 DEF FinishCleanup, CleanupFails, Inv, Known, WorkerKnown
<1>6. CASE Recover
  <2>1. \A u \in Upload : Recovered(row[u]) \in Session /\ Evolves(row[u], Recovered(row[u]))
    BY <1>0, RecoveredRow DEF Evolves
  <2> QED BY <1>6, <2>1 DEF Recover
<1>7. ASSUME NEW l \in LocalUpload, LocalCheck(l) \/ LocalRegister(l)
      PROVE  row' \in [Upload -> Session] /\ \A w \in Upload : Evolves(row[w], row'[w])
  <2>1. local[l].version \in Version /\ row' = ExpireReservation(local[l].version)
    BY <1>7 DEF LocalCheck, LocalRegister, Inv, TypeOK, LocalCall
  <2> QED BY <2>1, ReservationExpires
<1> QED BY <1>1, <1>4, <1>5, <1>6, <1>7

LEMMA OldRowsEvolve ==
    ASSUME Inv, [Next]_vars, ~\E u \in Upload, v \in Version : CreateUpload(u, v)
    PROVE  row' \in [Upload -> Session] /\ \A w \in Upload : Evolves(row[w], row'[w])
<1>1. UNCHANGED row => row' \in [Upload -> Session] /\ \A w \in Upload : Evolves(row[w], row'[w])
  BY DEF Inv, TypeOK, Evolves
<1> USE DEF dbVars, storeVars, cleanVars, limitVars
<1>2. CASE UNCHANGED vars
  BY <1>1, <1>2 DEF vars
<1>3. ASSUME NEW q \in Request, RequestStep(q) \/ DropRequest(q)
      PROVE  row' \in [Upload -> Session] /\ \A w \in Upload : Evolves(row[w], row'[w])
  BY <1>1, <1>3, CompleteRows
  DEF RequestStep, Verify, StoreVersion, RegisterConflict, RegisterFails, DropRequest
<1>4. ASSUME NEW l \in LocalUpload, LocalCheck(l) \/ LocalStep(l)
      PROVE  row' \in [Upload -> Session] /\ \A w \in Upload : Evolves(row[w], row'[w])
  BY <1>1, <1>4, CleanRows DEF LocalStep, LocalRefused, LocalFails, LocalRemove
<1>5. ASSUME NEW u \in Upload, Put(u) \/ ScheduleExpire(u) \/ ScheduleCleanup(u)
      PROVE  row' \in [Upload -> Session] /\ \A w \in Upload : Evolves(row[w], row'[w])
  BY <1>1, <1>5, CleanRows DEF Put, ScheduleCleanup
<1>6. CASE WorkerStep \/ CleanupFails \/ Recover \/ Crash \/ Tick
  BY <1>1, <1>6, CleanRows DEF WorkerStep, ListVersions, DeleteVersion, Crash, Tick
<1>7. ASSUME NEW v \in Version, CreateApplicationRelease(v)
      PROVE  row' \in [Upload -> Session] /\ \A w \in Upload : Evolves(row[w], row'[w])
  BY <1>1, <1>7 DEF CreateApplicationRelease
<1>8. ASSUME NEW q \in Request, NEW u \in Upload, BeginComplete(q, u)
      PROVE  row' \in [Upload -> Session] /\ \A w \in Upload : Evolves(row[w], row'[w])
  BY <1>1, <1>8 DEF BeginComplete
<1> QED BY <1>2, <1>3, <1>4, <1>5, <1>6, <1>7, <1>8 DEF Next

LEMMA RowsEvolve ==
    ASSUME Inv, [Next]_vars
    PROVE  /\ row' \in [Upload -> Session]
           /\ \A w \in Upload : Evolves(row[w], row'[w]) \/ Created(row[w], row'[w])
BY CreateRows, OldRowsEvolve

-----------------------------------------------------------------------------
(* Time and the futures of complete_release_package_upload. *)

LEMMA TimeGoesOn ==
    ASSUME Inv, [Next]_vars
    PROVE  now' \in Time /\ now \in Int /\ now' \in Int /\ now <= now'
<1> USE ClockAssumption DEF Time
<1>1. now \in Time
  BY DEF Inv, TypeOK
<1>2. now' = now \/ (now < MaxTime /\ now' = now + 1)
  BY DEF Next, vars, CreateUpload, CreateApplicationRelease, Put, ScheduleExpire, ScheduleCleanup,
         BeginComplete, RequestStep, CompleteExpires, ClaimVerification, Verify, StoreVersion,
         Register, RegisterConflict, RegisterFails, ClearVerification, CancelUpload, DropRequest,
         LocalCheck, LocalStep, LocalRegister, LocalRefused, LocalFails, LocalRemove, WorkerStep,
         StartCleanup, ListVersions, DeleteVersion, FinishCleanup, CleanupFails, Crash, Recover,
         Tick, CompleteUnchanged, RegisterUnchanged, LocalUnchanged, CleanUnchanged
<1> QED BY <1>1, <1>2

\* what stays true of a session that exists
LEMMA SessionStays ==
    ASSUME Inv, [Next]_vars, NEW u \in Upload, row[u].status # "none"
    PROVE  /\ row'[u].status # "none" /\ Evolves(row[u], row'[u])
           /\ Due(row[u]) => Due(row[u])'
<1>1. Evolves(row[u], row'[u])
  BY RowsEvolve DEF Created
<1>2. row[u].expires \in Int
  BY ClockAssumption DEF Inv, TypeOK, Session, Time
<1> QED BY <1>1, <1>2, TimeGoesOn DEF Evolves, Dead, Due

\* A future ends, goes on with its session, or takes up a pending one.
Moves(c, d) ==
    \/ d.pc \notin Busy
    \/ c.pc \in Busy /\ d.pc \in Busy \ {"expire"} /\ d.upload = c.upload
    \/ /\ d.upload \in Upload /\ row[d.upload].status = "pending"
       /\ d.pc = "expire" => Due(row[d.upload])

\* a step of one future
LEMMA OneCall ==
    ASSUME Inv, NEW q \in Request, NEW d \in CompleteCall, Moves(rq[q], d),
           rq' = [rq EXCEPT ![q] = d]
    PROVE  /\ rq' \in [Request -> CompleteCall]
           /\ \A p \in Request : rq'[p] = rq[p] \/ Moves(rq[p], rq'[p])
<1>1. rq \in [Request -> CompleteCall]
  BY DEF Inv, TypeOK
<1> QED BY <1>1, RowType

\* a step of one future that changes its control only
LEMMA PcMoves ==
    ASSUME Inv, NEW q \in Request, rq[q].pc \in Busy,
           NEW pc \in Busy \ {"expire"}, rq' = [rq EXCEPT ![q].pc = pc]
    PROVE  /\ rq' \in [Request -> CompleteCall]
           /\ \A p \in Request : rq'[p] = rq[p] \/ Moves(rq[p], rq'[p])
<1> DEFINE c == rq[q]
           d == [c EXCEPT !.pc = pc]
<1>0. /\ c \in CompleteCall
      /\ pc \in {"idle", "expire", "claim", "verify", "store", "register", "clear",
                "cancel", "done"}
  BY DEF Inv, TypeOK, Busy
<1>2. rq' = [rq EXCEPT ![q] = d]
  OBVIOUS
<1> HIDE DEF c
<1>1. d \in CompleteCall /\ d.pc = pc /\ d.upload = c.upload
  BY <1>0 DEF CompleteCall
<1> HIDE DEF d
<1> QED BY <1>1, <1>2, OneCall DEF Moves, c

LEMMA ReturnedCall == Returned \in CompleteCall /\ Returned.pc = "done" /\ "done" \notin Busy
BY DEF Returned, CompleteCall, Busy

LEMMA CallsMove ==
    ASSUME Inv, [Next]_vars
    PROVE  /\ rq' \in [Request -> CompleteCall]
           /\ \A p \in Request : rq'[p] = rq[p] \/ Moves(rq[p], rq'[p])
<1> DEFINE Goal == /\ rq' \in [Request -> CompleteCall]
                   /\ \A p \in Request : rq'[p] = rq[p] \/ Moves(rq[p], rq'[p])
<1>0. rq \in [Request -> CompleteCall] /\ live \in [Upload -> SUBSET (1 .. MaxPuts)]
  BY DEF Inv, TypeOK
<1>1. UNCHANGED rq => Goal
  BY <1>0
<1>2. ASSUME NEW q \in Request, rq' = [rq EXCEPT ![q] = Returned]
      PROVE  Goal
  BY <1>2, OneCall, ReturnedCall DEF Moves
<1>3. ASSUME NEW q \in Request, NEW u \in Upload, BeginComplete(q, u)
      PROVE  Goal
  <2> DEFINE pc == IF Due(row[u]) THEN "expire" ELSE "claim"
             d == [IdleCall EXCEPT !.pc = pc, !.upload = u]
  <2>1. d \in CompleteCall /\ d.pc = pc /\ d.upload = u
    BY DEF IdleCall, CompleteCall
  <2>2. rq' = [rq EXCEPT ![q] = d] /\ row[u].status = "pending"
    BY <1>3 DEF BeginComplete
  <2> HIDE DEF d
  <2> QED BY <2>1, <2>2, OneCall DEF Moves
<1>4. ASSUME NEW q \in Request, Verify(q)
      PROVE  Goal
  <2>1. rq[q].pc \in Busy /\ rq[q] \in CompleteCall /\ rq[q].upload \in Upload
    BY <1>0, <1>4 DEF Verify, Busy, Inv, Known, CallKnown
  <2>2. ASSUME NEW k \in live[rq[q].upload],
               rq' = [rq EXCEPT ![q] = [@ EXCEPT !.pc = "store", !.object = k]]
        PROVE  Goal
    <3> DEFINE d == [rq[q] EXCEPT !.pc = "store", !.object = k]
    <3>0. k \in Nat
      BY <1>0, <2>1, ClockAssumption
    <3>1. d \in CompleteCall /\ d.pc = "store" /\ d.upload = rq[q].upload
      BY <2>1, <3>0 DEF CompleteCall
    <3>2. rq' = [rq EXCEPT ![q] = d]
      BY <2>2
    <3> HIDE DEF d
    <3> QED BY <2>1, <3>1, <3>2, OneCall DEF Moves, Busy
  <2>3. CASE rq' = [rq EXCEPT ![q].pc = "clear"]
    BY <2>1, <2>3, PcMoves DEF Busy
  <2> QED BY <1>4, <2>2, <2>3 DEF Verify
<1>5. ASSUME NEW q \in Request, RequestStep(q) \/ DropRequest(q)
      PROVE  Goal
  <2>1. CASE ClaimVerification(q)
    BY <1>2, <2>1, PcMoves DEF ClaimVerification, Busy
  <2>2. CASE StoreVersion(q)
    BY <2>2, PcMoves DEF StoreVersion, Busy
  <2>3. CASE RegisterConflict(q) \/ RegisterFails(q)
    BY <2>3, PcMoves DEF RegisterConflict, RegisterFails, Busy
  <2>4. CASE CompleteExpires(q) \/ Register(q) \/ ClearVerification(q) \/ CancelUpload(q)
                \/ DropRequest(q)
    BY <1>2, <2>4 DEF CompleteExpires, Register, ClearVerification, CancelUpload, DropRequest
  <2> QED BY <1>4, <1>5, <2>1, <2>2, <2>3, <2>4 DEF RequestStep
<1>6. CASE Crash
  BY <1>0, <1>6, ReturnedCall DEF Crash, Moves
<1>7. CASE UNCHANGED rq
  BY <1>1, <1>7
<1> QED BY <1>3, <1>5, <1>6, <1>7
  DEF Next, vars, CreateUpload, CreateApplicationRelease, Put, ScheduleExpire, ScheduleCleanup,
      LocalCheck, LocalStep, LocalRegister, LocalRefused, LocalFails, LocalRemove, WorkerStep,
      StartCleanup, ListVersions, DeleteVersion, FinishCleanup, CleanupFails, Recover, Tick,
      LocalUnchanged, CleanUnchanged

LEMMA CallsKnown ==
    ASSUME Inv, [Next]_vars
    PROVE  /\ rq' \in [Request -> CompleteCall]
           /\ \A q \in Request : CallKnown(q)'
<1>1. ASSUME NEW q \in Request, rq'[q].pc \in Busy
      PROVE  /\ rq'[q].upload \in Upload /\ row[rq'[q].upload].status # "none"
             /\ rq'[q].pc = "expire" => Due(row[rq'[q].upload])
  BY <1>1, CallsMove DEF Moves, Inv, Known, CallKnown
<1> QED BY <1>1, CallsMove, SessionStays DEF CallKnown

-----------------------------------------------------------------------------
(* The worker and the other variables. *)

\* The worker goes on with its session, is done, or claims a clean-up.
LEMMA WorkerMoves ==
    ASSUME Inv, [Next]_vars
    PROVE  /\ worker' \in Worker
           /\ worker'.pc # "idle" =>
                 \/ worker.pc # "idle" /\ worker'.upload = worker.upload
                 \/ worker'.upload \in Upload /\ Cleanable(row[worker'.upload])
<1> DEFINE Goal == /\ worker' \in Worker
                   /\ worker'.pc # "idle" =>
                         \/ worker.pc # "idle" /\ worker'.upload = worker.upload
                         \/ worker'.upload \in Upload /\ Cleanable(row[worker'.upload])
<1>0. worker \in Worker /\ live \in [Upload -> SUBSET (1 .. MaxPuts)]
  BY DEF Inv, TypeOK
<1>1. CASE UNCHANGED worker
  BY <1>0, <1>1
<1>2. CASE worker' = IdleWorker
  BY <1>2 DEF IdleWorker, Worker
<1>3. ASSUME NEW u \in Upload, StartCleanup(u)
      PROVE  Goal
  <2>1. CASE Cleanable(row[u]) /\ worker' = [IdleWorker EXCEPT !.pc = "list", !.upload = u]
    BY <2>1 DEF IdleWorker, Worker
  <2> QED BY <1>1, <1>3, <2>1 DEF StartCleanup
<1>4. CASE ListVersions
  <2>1. worker.upload \in Upload
    BY <1>4 DEF ListVersions, Inv, Known, WorkerKnown
  <2> QED BY <1>0, <1>4, <2>1 DEF ListVersions, Worker
<1>5. CASE DeleteVersion
  <2>1. PICK k \in worker.todo : worker' = [worker EXCEPT !.todo = @ \ {k}]
    BY <1>5 DEF DeleteVersion
  <2> QED BY <1>0, <1>5, <2>1 DEF DeleteVersion, Worker
<1> QED BY <1>1, <1>2, <1>3, <1>4, <1>5
  DEF Next, vars, cleanVars, CreateUpload, CreateApplicationRelease, Put, ScheduleExpire,
      ScheduleCleanup, BeginComplete, RequestStep, CompleteExpires, ClaimVerification, Verify,
      StoreVersion, Register, RegisterConflict, RegisterFails, ClearVerification, CancelUpload,
      DropRequest, LocalCheck, LocalStep, LocalRegister, LocalRefused, LocalFails, LocalRemove,
      WorkerStep, FinishCleanup, CleanupFails, Crash, Recover, Tick, CompleteUnchanged,
      RegisterUnchanged, LocalUnchanged

LEMMA WorkerTyped ==
    ASSUME Inv, [Next]_vars
    PROVE  worker' \in Worker /\ WorkerKnown'
<1>1. worker'.pc # "idle" => worker'.upload \in Upload /\ row[worker'.upload].status # "none"
  BY WorkerMoves DEF Cleanable, Dead, Inv, Known, WorkerKnown
<1> QED BY <1>1, WorkerMoves, SessionStays DEF WorkerKnown

LEMMA StoreTyped ==
    ASSUME Inv, [Next]_vars
    PROVE  /\ puts' \in [Upload -> 0 .. MaxPuts]
           /\ live' \in [Upload -> SUBSET (1 .. MaxPuts)]
<1>0. /\ puts \in [Upload -> 0 .. MaxPuts] /\ live \in [Upload -> SUBSET (1 .. MaxPuts)]
  BY DEF Inv, TypeOK
<1>1. ASSUME NEW u \in Upload, Put(u)
      PROVE  /\ puts' \in [Upload -> 0 .. MaxPuts]
             /\ live' \in [Upload -> SUBSET (1 .. MaxPuts)]
  BY <1>0, <1>1, ClockAssumption DEF Put
<1>2. CASE DeleteVersion
  BY <1>0, <1>2 DEF DeleteVersion, CleanUnchanged
<1>3. CASE UNCHANGED <<puts, live>>
  BY <1>0, <1>3
<1> QED BY <1>1, <1>2, <1>3
  DEF Next, vars, storeVars, CreateUpload, CreateApplicationRelease, ScheduleExpire,
      ScheduleCleanup, BeginComplete, RequestStep, CompleteExpires, ClaimVerification, Verify,
      StoreVersion, Register, RegisterConflict, RegisterFails, ClearVerification, CancelUpload,
      DropRequest, LocalCheck, LocalStep, LocalRegister, LocalRefused, LocalFails, LocalRemove,
      WorkerStep, StartCleanup, ListVersions, FinishCleanup, CleanupFails, Crash, Recover, Tick,
      CompleteUnchanged, RegisterUnchanged, LocalUnchanged, CleanUnchanged

LEMMA LocalTyped ==
    ASSUME Inv, [Next]_vars
    PROVE  local' \in [LocalUpload -> LocalCall]
<1>0. local \in [LocalUpload -> LocalCall]
  BY DEF Inv, TypeOK
<1>1. ASSUME NEW l \in LocalUpload, NEW pc \in {"idle", "register", "remove", "done"},
             local' = [local EXCEPT ![l].pc = pc]
      PROVE  local' \in [LocalUpload -> LocalCall]
  BY <1>0, <1>1 DEF LocalCall
<1>2. ASSUME NEW l \in LocalUpload, LocalCheck(l) \/ LocalStep(l)
      PROVE  local' \in [LocalUpload -> LocalCall]
  BY <1>1, <1>2 DEF LocalCheck, LocalStep, LocalRegister, LocalRefused, LocalFails, LocalRemove
<1>3. CASE Crash
  BY <1>0, <1>3 DEF Crash, LocalCall
<1>4. CASE UNCHANGED local
  BY <1>0, <1>4
<1> QED BY <1>2, <1>3, <1>4
  DEF Next, vars, CreateUpload, CreateApplicationRelease, Put, ScheduleExpire, ScheduleCleanup,
      BeginComplete, RequestStep, CompleteExpires, ClaimVerification, Verify, StoreVersion,
      Register, RegisterConflict, RegisterFails, ClearVerification, CancelUpload, DropRequest,
      WorkerStep, StartCleanup, ListVersions, DeleteVersion, FinishCleanup, CleanupFails,
      Recover, Tick, CompleteUnchanged, RegisterUnchanged, CleanUnchanged

LEMMA ReleaseTyped ==
    ASSUME Inv, [Next]_vars
    PROVE  release' \in [Version -> Release]
<1>0. release \in [Version -> Release]
  BY DEF Inv, TypeOK
<1>1. ASSUME NEW q \in Request, Register(q)
      PROVE  release' \in [Version -> Release]
  <2> DEFINE x == [store |-> "oss", by |-> rq[q].upload, object |-> rq[q].object]
  <2>1. rq[q].upload \in Upload /\ rq[q].object \in Nat
    BY <1>1 DEF Register, Busy, Inv, TypeOK, Known, CallKnown, CompleteCall
  <2>2. x \in Release /\ \E v : release' = [release EXCEPT ![v] = x]
    BY <1>1, <2>1 DEF Register, Release
  <2> HIDE DEF x
  <2> QED BY <1>0, <2>2
<1>2. ASSUME NEW l \in LocalUpload, LocalRegister(l)
      PROVE  release' \in [Version -> Release]
  BY <1>0, <1>2 DEF LocalRegister, Release
<1>3. ASSUME NEW v \in Version, CreateApplicationRelease(v)
      PROVE  release' \in [Version -> Release]
  BY <1>0, <1>3 DEF CreateApplicationRelease, Release
<1>4. CASE UNCHANGED release
  BY <1>0, <1>4
<1> QED BY <1>1, <1>2, <1>3, <1>4
  DEF Next, vars, dbVars, CreateUpload, Put, ScheduleExpire, ScheduleCleanup, BeginComplete,
      RequestStep, CompleteExpires, ClaimVerification, Verify, StoreVersion, RegisterConflict,
      RegisterFails, ClearVerification, CancelUpload, DropRequest, LocalCheck, LocalStep,
      LocalRefused, LocalFails, LocalRemove, WorkerStep, StartCleanup, ListVersions,
      DeleteVersion, FinishCleanup, CleanupFails, Crash, Recover, Tick, CompleteUnchanged,
      RegisterUnchanged, LocalUnchanged, CleanUnchanged

LEMMA DirTyped ==
    ASSUME Inv, [Next]_vars
    PROVE  dir' \in [Version -> SUBSET (LocalUpload \cup {"metadata"})]
<1>0. dir \in [Version -> SUBSET (LocalUpload \cup {"metadata"})]
  BY DEF Inv, TypeOK
<1>1. ASSUME NEW v, NEW d \in SUBSET (LocalUpload \cup {"metadata"}), dir' = [dir EXCEPT ![v] = d]
      PROVE  dir' \in [Version -> SUBSET (LocalUpload \cup {"metadata"})]
  BY <1>0, <1>1
<1>2. ASSUME NEW v, dir' = [dir EXCEPT ![v] = @ \cup {"metadata"}]
      PROVE  dir' \in [Version -> SUBSET (LocalUpload \cup {"metadata"})]
  BY <1>0, <1>2
<1>3. CASE UNCHANGED dir
  BY <1>0, <1>3
<1>4. ASSUME NEW q \in Request, RequestStep(q)
      PROVE  dir' \in [Version -> SUBSET (LocalUpload \cup {"metadata"})]
  <2>1. CASE Register(q) \/ RegisterConflict(q) \/ RegisterFails(q)
    <3> DEFINE v == row[rq[q].upload].version
    <3>1. dir' = dir \/ dir' = [dir EXCEPT ![v] = @ \cup {"metadata"}]
      BY <2>1 DEF Register, RegisterConflict, RegisterFails
    <3> HIDE DEF v
    <3> QED BY <1>2, <1>3, <3>1
  <2>2. CASE UNCHANGED dir
    BY <1>3, <2>2
  <2> QED BY <1>4, <2>1, <2>2
    DEF RequestStep, CompleteExpires, ClaimVerification, Verify, StoreVersion,
        ClearVerification, CancelUpload, CompleteUnchanged
<1>5. ASSUME NEW l \in LocalUpload, LocalStep(l) \/ LocalCheck(l)
      PROVE  dir' \in [Version -> SUBSET (LocalUpload \cup {"metadata"})]
  <2> DEFINE v == local[l].version
  <2>1. \/ dir' = dir \/ dir' = [dir EXCEPT ![v] = {}] \/ dir' = [dir EXCEPT ![v] = {l}]
        \/ dir' = [dir EXCEPT ![v] = {l, "metadata"}]
    BY <1>5
    DEF LocalStep, LocalCheck, LocalRegister, LocalRefused, LocalFails, LocalRemove,
        LocalUnchanged
  <2> HIDE DEF v
  <2>2. CASE dir' = dir
    BY <1>0, <2>2
  <2>3. CASE dir' = [dir EXCEPT ![v] = {}]
    BY <1>0, <2>3
  <2>4. CASE dir' = [dir EXCEPT ![v] = {l}]
    BY <1>0, <2>4
  <2>5. CASE dir' = [dir EXCEPT ![v] = {l, "metadata"}]
    BY <1>0, <2>5
  <2> QED BY <2>1, <2>2, <2>3, <2>4, <2>5
<1>6. CASE Crash
  <2>1. CASE dir' = dir
    BY <1>3, <2>1
  <2>2. ASSUME NEW l \in LocalUpload, dir' = [dir EXCEPT ![local[l].version] = {l, "metadata"}]
        PROVE  dir' \in [Version -> SUBSET (LocalUpload \cup {"metadata"})]
    BY <1>0, <2>2
  <2> QED BY <1>6, <2>1, <2>2 DEF Crash
<1> QED BY <1>3, <1>4, <1>5, <1>6
  DEF Next, vars, CreateUpload, CreateApplicationRelease, Put, ScheduleExpire, ScheduleCleanup,
      BeginComplete, DropRequest, WorkerStep, StartCleanup, ListVersions, DeleteVersion,
      FinishCleanup, CleanupFails, Recover, Tick, CompleteUnchanged, CleanUnchanged

LEMMA RestTyped ==
    ASSUME Inv, [Next]_vars
    PROVE  /\ phase' \in {"starting", "serving"} /\ bucket' \in {"versioned", "plain"}
           /\ queued' \subseteq Upload
           /\ crashes' \in 0 .. MaxCrashes /\ drops' \in 0 .. MaxDrops
<1> USE DEF vars, dbVars, storeVars, cleanVars, limitVars, CompleteUnchanged, RegisterUnchanged,
            LocalUnchanged, CleanUnchanged
<1>0. /\ phase \in {"starting", "serving"} /\ bucket \in {"versioned", "plain"}
      /\ queued \subseteq Upload
      /\ crashes \in 0 .. MaxCrashes /\ drops \in 0 .. MaxDrops
  BY DEF Inv, TypeOK
<1>1. bucket' \in {"versioned", "plain"}
  BY <1>0
  DEF Next, CreateUpload, CreateApplicationRelease, Put, ScheduleExpire, ScheduleCleanup,
      BeginComplete, RequestStep, CompleteExpires, ClaimVerification, Verify, StoreVersion,
      Register, RegisterConflict, RegisterFails, ClearVerification, CancelUpload, DropRequest,
      LocalCheck, LocalStep, LocalRegister, LocalRefused, LocalFails, LocalRemove, WorkerStep,
      StartCleanup, ListVersions, DeleteVersion, FinishCleanup, CleanupFails, Crash, Recover, Tick
<1>2. phase' \in {"starting", "serving"}
  BY <1>0
  DEF Next, CreateUpload, CreateApplicationRelease, Put, ScheduleExpire, ScheduleCleanup,
      BeginComplete, RequestStep, CompleteExpires, ClaimVerification, Verify, StoreVersion,
      Register, RegisterConflict, RegisterFails, ClearVerification, CancelUpload, DropRequest,
      LocalCheck, LocalStep, LocalRegister, LocalRefused, LocalFails, LocalRemove, WorkerStep,
      StartCleanup, ListVersions, DeleteVersion, FinishCleanup, CleanupFails, Crash, Recover, Tick
<1>3. \/ UNCHANGED <<crashes, drops>>
      \/ drops < MaxDrops /\ drops' = drops + 1 /\ crashes' = crashes
      \/ crashes < MaxCrashes /\ crashes' = crashes + 1 /\ drops' = drops
  <2>1. ASSUME NEW q \in Request, DropRequest(q)
        PROVE  drops < MaxDrops /\ drops' = drops + 1 /\ crashes' = crashes
    BY <2>1 DEF DropRequest
  <2>2. ASSUME NEW l \in LocalUpload, LocalFails(l)
        PROVE  \/ UNCHANGED <<crashes, drops>>
               \/ drops < MaxDrops /\ drops' = drops + 1 /\ crashes' = crashes
    BY <2>2 DEF LocalFails
  <2>3. CASE Crash
    BY <2>3 DEF Crash
  <2>4. CASE UNCHANGED <<crashes, drops>>
    BY <2>4
  <2> QED BY <2>1, <2>2, <2>3, <2>4
    DEF Next, CreateUpload, CreateApplicationRelease, Put, ScheduleExpire, ScheduleCleanup,
        BeginComplete, RequestStep, CompleteExpires, ClaimVerification, Verify, StoreVersion,
        Register, RegisterConflict, RegisterFails, ClearVerification, CancelUpload,
        LocalCheck, LocalStep, LocalRegister, LocalRefused, LocalRemove, WorkerStep,
        StartCleanup, ListVersions, DeleteVersion, FinishCleanup, CleanupFails, Recover, Tick
<1>4. crashes' \in 0 .. MaxCrashes /\ drops' \in 0 .. MaxDrops
  BY <1>0, <1>3, BoundAssumption
<1>5. ASSUME NEW q \in Request, CompleteExpires(q) \/ CancelUpload(q)
      PROVE  queued' \subseteq Upload
  <2>1. rq[q].upload \in Upload
    BY <1>5 DEF CompleteExpires, CancelUpload, Busy, Inv, Known, CallKnown
  <2> QED BY <1>0, <1>5, <2>1 DEF CompleteExpires, CancelUpload
<1>6. queued' \subseteq Upload
  BY <1>0, <1>5
  DEF Next, CreateUpload, CreateApplicationRelease, Put, ScheduleExpire, ScheduleCleanup,
      BeginComplete, RequestStep, ClaimVerification, Verify, StoreVersion,
      Register, RegisterConflict, RegisterFails, ClearVerification, DropRequest,
      LocalCheck, LocalStep, LocalRegister, LocalRefused, LocalFails, LocalRemove, WorkerStep,
      StartCleanup, ListVersions, DeleteVersion, FinishCleanup, CleanupFails, Crash, Recover, Tick
<1> QED BY <1>1, <1>2, <1>4, <1>6

LEMMA InitInv == Init => Inv
<1> SUFFICES ASSUME Init PROVE Inv
  OBVIOUS
<1>1. TypeOK
  BY ClockAssumption, BoundAssumption
  DEF Init, TypeOK, Time, NoTime, Session, NoSession, Release, NoRelease, CompleteCall, IdleCall,
      LocalCall, Worker, IdleWorker
<1>2. Known
  BY DEF Init, Known, SessionKnown, CallKnown, WorkerKnown, NoSession, IdleCall, IdleWorker, Busy
<1> QED BY <1>1, <1>2 DEF Inv

LEMMA NextInv ==
    ASSUME Inv, [Next]_vars
    PROVE  Inv'
<1>1. TypeOK'
  BY TimeGoesOn, RowsEvolve, ReleaseTyped, DirTyped, CallsKnown, LocalTyped, StoreTyped,
     WorkerTyped, RestTyped
  DEF TypeOK
<1>2. ASSUME NEW u \in Upload
      PROVE  SessionKnown(u)'
  BY RowsEvolve DEF Evolves, Created, Dead, Inv, Known, SessionKnown
<1> QED BY <1>1, <1>2, CallsKnown, WorkerTyped DEF Inv, Known

\* Every row and every future has its type, and a request or a clean-up under way
\* works on a session that was created.
THEOREM TypeCorrect == Spec => []TypeOK
<1>1. Init => Inv
  BY InitInv
<1>2. Inv /\ [Next]_vars => Inv'
  BY NextInv
<1>3. Inv => TypeOK
  BY DEF Inv
<1> QED BY <1>1, <1>2, <1>3, PTL DEF Spec

LEMMA Invariance == Spec => []Inv
<1>1. Init => Inv
  BY InitInv
<1>2. Inv /\ [Next]_vars => Inv'
  BY NextInv
<1> QED BY <1>1, <1>2, PTL DEF Spec

-----------------------------------------------------------------------------
(* A version is reserved once. *)

\* what an expiry inside a transaction about an available version leaves
LEMMA NoneReserved ==
    ASSUME Inv, NEW v \in Version, Available(v), NEW u \in Upload,
           ExpireReservation(v)[u].active = 1
    PROVE  ExpireReservation(v)[u].version # v
<1>1. row[u] \in Session /\ now \in Time
  BY DEF Inv, TypeOK
<1>2. ExpireReservation(v)[u] = IF row[u].version = v /\ Expirable(row[u]) THEN Expired(row[u])
                                ELSE row[u]
  BY DEF ExpireReservation
<1> QED BY <1>1, <1>2, ExpiredRow DEF Available

LEMMA NewReservation ==
    ASSUME Inv, ReservationIsExclusive, NEW u \in Upload, NEW v \in Version, CreateUpload(u, v)
    PROVE  ReservationIsExclusive'
<1>1. release' = release /\ Available(v) /\ release[v].store = "none"
  BY DEF CreateUpload, Available, Released, dbVars
<1>2. row'[u].version = v /\ \A w \in Upload \ {u} : row'[w].active = 1 => row'[w].version # v
  BY <1>1, CreateRows, NoneReserved
<1>3. \A w \in Upload \ {u} : row'[w].active = 1 => row[w].active = 1 /\ row'[w].version = row[w].version
  BY CreateRows DEF Evolves
<1> QED BY <1>1, <1>2, <1>3 DEF ReservationIsExclusive

LEMMA OldReservations ==
    ASSUME Inv, ReservationIsExclusive, \A w \in Upload : Evolves(row[w], row'[w]),
           \A u \in Upload : row'[u].active = 1 =>
               \/ release'[row[u].version] = release[row[u].version]
               \/ release'[row[u].version].store = "manifest"
    PROVE  ReservationIsExclusive'
<1>1. \A w \in Upload : /\ row'[w].version = row[w].version
                        /\ row'[w].active = 1 => row[w].active = 1
  BY DEF Evolves
<1> QED BY <1>1 DEF ReservationIsExclusive

\* A version is reserved by one session at most and not reserved once a package
\* of it is released: creation and the direct upload expire what is due in the
\* transaction that takes the version, and the completion of a session closes the
\* reservation in the transaction that makes the release.
THEOREM ReservationsExclude == Spec => []ReservationIsExclusive
<1>1. Init => ReservationIsExclusive
  BY DEF Init, ReservationIsExclusive, NoSession
<1>2. ASSUME Inv, ReservationIsExclusive, [Next]_vars
      PROVE  ReservationIsExclusive'
  <2>1. CASE \E u \in Upload, v \in Version : CreateUpload(u, v)
    BY <1>2, <2>1, NewReservation
  <2> SUFFICES ASSUME ~\E u \in Upload, v \in Version : CreateUpload(u, v)
               PROVE  ReservationIsExclusive'
    BY <2>1
  <2>2. \A w \in Upload : Evolves(row[w], row'[w])
    BY <1>2, OldRowsEvolve
  <2>3. ASSUME NEW q \in Request, Register(q)
        PROVE  ReservationIsExclusive'
    <3> DEFINE u == rq[q].upload
               v == row[u].version
    <3>1. u \in Upload /\ row \in [Upload -> Session] /\ release \in [Version -> Release]
      BY <1>2, <2>3 DEF Register, Busy, Inv, TypeOK, Known, CallKnown
    <3>2. row[u].active = 1 /\ row'[u].active = 0
      BY <2>3, <3>1 DEF Register, HoldsClaim
    <3>3. \A w \in Upload : row'[w].active = 1 => row[w].version # v
      BY <1>2, <2>2, <3>2, <3>1 DEF Evolves, ReservationIsExclusive
    <3>4. \A w \in Upload : row'[w].active = 1 => release'[row[w].version] = release[row[w].version]
      BY <2>3, <3>3 DEF Register
    <3> QED BY <1>2, <2>2, <3>4, OldReservations
  <2>4. ASSUME NEW l \in LocalUpload, LocalRegister(l)
        PROVE  ReservationIsExclusive'
    <3> DEFINE v == local[l].version
    <3>1. v \in Version /\ Available(v) /\ row' = ExpireReservation(v)
      BY <1>2, <2>4 DEF LocalRegister, Inv, TypeOK, LocalCall
    <3>2. \A w \in Upload : row'[w].active = 1 => row[w].version # v
      BY <1>2, <2>2, <3>1, NoneReserved DEF Evolves
    <3>3. \A w \in Upload : row'[w].active = 1 => release'[row[w].version] = release[row[w].version]
      BY <2>4, <3>2 DEF LocalRegister
    <3> QED BY <1>2, <2>2, <3>3, OldReservations
  <2>5. ASSUME NEW v \in Version, CreateApplicationRelease(v)
        PROVE  ReservationIsExclusive'
    <3>1. \A w \in Upload : \/ release'[row[w].version] = release[row[w].version]
                            \/ release'[row[w].version].store = "manifest"
      BY <1>2, <2>5 DEF CreateApplicationRelease, Inv, TypeOK
    <3> QED BY <1>2, <2>2, <3>1, OldReservations
  <2>6. CASE UNCHANGED release
    BY <1>2, <2>2, <2>6, OldReservations
  <2> QED BY <1>2, <2>3, <2>4, <2>5, <2>6
    DEF Next, vars, dbVars, Put, ScheduleExpire, ScheduleCleanup, BeginComplete,
        RequestStep, CompleteExpires, ClaimVerification, Verify, StoreVersion, RegisterConflict,
        RegisterFails, ClearVerification, CancelUpload, DropRequest, LocalCheck, LocalStep,
        LocalRefused, LocalFails, LocalRemove, WorkerStep, StartCleanup, ListVersions,
        DeleteVersion, FinishCleanup, CleanupFails, Crash, Recover, Tick, CompleteUnchanged,
        RegisterUnchanged, LocalUnchanged, CleanUnchanged
<1> QED BY <1>1, <1>2, Invariance, PTL DEF Spec

-----------------------------------------------------------------------------
(* Objects in the store. *)

\* A clean-up is due no sooner than the address of its session ends, and the
\* worker has only dead sessions whose address ended.
CleanupWaits ==
    /\ \A u \in Upload : row[u].cleanAt # NoTime => row[u].expires <= row[u].cleanAt
    /\ worker.pc # "idle" => /\ row[worker.upload].status \in Dead
                             /\ Due(row[worker.upload])

LEMMA CleanupStep ==
    ASSUME Inv, CleanupWaits, [Next]_vars
    PROVE  CleanupWaits'
<1>1. ASSUME NEW u \in Upload
      PROVE  (row[u].cleanAt # NoTime => row[u].expires <= row[u].cleanAt)'
  BY RowsEvolve DEF Evolves, Created, CleanupWaits
<1>2. ASSUME NEW u \in Upload, Cleanable(row[u])
      PROVE  row[u].status \in Dead /\ Due(row[u])
  <2>1. row[u].expires \in Int /\ row[u].cleanAt \in Int /\ now \in Int
    BY ClockAssumption DEF Inv, TypeOK, Session, Time, NoTime
  <2> QED BY <1>2, <2>1 DEF CleanupWaits, Cleanable, Due
<1>3. ASSUME NEW u \in Upload, row[u].status \in Dead, Due(row[u])
      PROVE  row'[u].status \in Dead /\ Due(row[u])'
  BY <1>3, SessionStays DEF Evolves, Dead
<1>4. ASSUME worker'.pc # "idle"
      PROVE  /\ worker'.upload \in Upload
             /\ row[worker'.upload].status \in Dead /\ Due(row[worker'.upload])
  BY <1>2, <1>4, WorkerMoves DEF CleanupWaits, Inv, Known, WorkerKnown
<1> QED BY <1>1, <1>3, <1>4 DEF CleanupWaits

LEMMA ObjectsStay ==
    ASSUME Inv, [Next]_vars, NEW u \in Upload
    PROVE  live[u] \subseteq live'[u] \/ (worker.pc # "idle" /\ worker.upload = u)
<1>0. live \in [Upload -> SUBSET (1 .. MaxPuts)]
  BY DEF Inv, TypeOK
<1>1. ASSUME NEW w \in Upload, Put(w)
      PROVE  live[u] \subseteq live'[u]
  BY <1>0, <1>1 DEF Put
<1>2. CASE DeleteVersion
  BY <1>0, <1>2 DEF DeleteVersion
<1>3. CASE UNCHANGED live
  BY <1>3
<1> QED BY <1>1, <1>2, <1>3
  DEF Next, vars, storeVars, CreateUpload, CreateApplicationRelease, ScheduleExpire,
      ScheduleCleanup, BeginComplete, RequestStep, CompleteExpires, ClaimVerification, Verify,
      StoreVersion, Register, RegisterConflict, RegisterFails, ClearVerification, CancelUpload,
      DropRequest, LocalCheck, LocalStep, LocalRegister, LocalRefused, LocalFails, LocalRemove,
      WorkerStep, StartCleanup, ListVersions, FinishCleanup, CleanupFails, Crash, Recover, Tick,
      CompleteUnchanged, RegisterUnchanged, LocalUnchanged, CleanUnchanged

LEMMA CleanupInvariant == Spec => []CleanupWaits
<1>1. Init => CleanupWaits
  BY DEF Init, CleanupWaits, NoSession, IdleWorker
<1> QED BY <1>1, CleanupStep, Invariance, PTL DEF Spec

\* Only what a dead session left is deleted, and only once its address is no
\* longer valid: the scheduler and the worker compare the time the expiry or the
\* cancellation set, and the recovery resumes no clean-up before that time.
THEOREM DeletesOnlyDead == Spec => OnlyDeadObjectsAreDeleted
<1> DEFINE Deletes == \A u \in Upload : live'[u] \subseteq live[u] /\ live'[u] # live[u] =>
                          row[u].status \in Dead /\ row[u].expires <= now
<1>1. ASSUME Inv, CleanupWaits, [Next]_vars
      PROVE  Deletes
  BY <1>1, ObjectsStay DEF CleanupWaits, Due
<1>2. Inv /\ CleanupWaits /\ [Next]_vars => [Deletes]_vars
  BY <1>1
<1> HIDE DEF Deletes
<1>3. Spec => [][Deletes]_vars
  BY <1>2, Invariance, CleanupInvariant, PTL DEF Spec
<1> QED BY <1>3 DEF Deletes, OnlyDeadObjectsAreDeleted

-----------------------------------------------------------------------------
(* The packages of releases. *)

\* An object that is released, or is about to be for a session that is not
\* dead, is in the store.
ObjectsKept ==
    /\ \A v \in Version : release[v].store = "oss" =>
           /\ release[v].by \in Upload /\ row[release[v].by].status = "completed"
           /\ release[v].object \in live[release[v].by]
    /\ \A q \in Request :
           rq[q].pc \in {"store", "register"} /\ row[rq[q].upload].status \notin Dead =>
               rq[q].object \in live[rq[q].upload]

\* A released directory holds its package, one that a failed upload is about to
\* remove is that upload's own, and no directory holds two packages.
DirectoriesKept ==
    /\ \A v \in Version : release[v].store = "local" =>
           /\ release[v].by \in LocalUpload /\ release[v].by \in dir[v]
           /\ local[release[v].by].pc = "done"
    /\ \A l \in LocalUpload : local[l].pc = "remove" => l \in dir[local[l].version]
    /\ \A v \in Version : \A l, m \in LocalUpload : l \in dir[v] /\ m \in dir[v] => l = m

\* what a step does to the release of a version
LEMMA ReleaseMoves ==
    ASSUME Inv, [Next]_vars, NEW v \in Version
    PROVE  \/ release'[v] = release[v]
           \/ release'[v].store = "manifest"
           \/ \E q \in Request :
                 /\ Register(q) /\ release'[v].store = "oss"
                 /\ release'[v] = [store |-> "oss", by |-> rq[q].upload, object |-> rq[q].object]
           \/ \E l \in LocalUpload : LocalRegister(l) /\ local[l].version = v
<1>0. release \in [Version -> Release]
  BY DEF Inv, TypeOK
<1>1. ASSUME NEW q \in Request, Register(q)
      PROVE  \/ release'[v] = release[v]
             \/ /\ release'[v].store = "oss"
                /\ release'[v] = [store |-> "oss", by |-> rq[q].upload, object |-> rq[q].object]
  BY <1>0, <1>1 DEF Register
<1>2. ASSUME NEW l \in LocalUpload, LocalRegister(l)
      PROVE  release'[v] = release[v] \/ local[l].version = v
  BY <1>0, <1>2 DEF LocalRegister
<1>3. ASSUME NEW w \in Version, CreateApplicationRelease(w)
      PROVE  release'[v] = release[v] \/ release'[v].store = "manifest"
  BY <1>0, <1>3 DEF CreateApplicationRelease
<1> QED BY <1>1, <1>2, <1>3
  DEF Next, vars, dbVars, CreateUpload, Put, ScheduleExpire, ScheduleCleanup, BeginComplete,
      RequestStep, CompleteExpires, ClaimVerification, Verify, StoreVersion, RegisterConflict,
      RegisterFails, ClearVerification, CancelUpload, DropRequest, LocalCheck, LocalStep,
      LocalRefused, LocalFails, LocalRemove, WorkerStep, StartCleanup, ListVersions,
      DeleteVersion, FinishCleanup, CleanupFails, Crash, Recover, Tick, CompleteUnchanged,
      RegisterUnchanged, LocalUnchanged, CleanUnchanged

\* a request that has verified an object, and one that has just found it
LEMMA VerifiedCalls ==
    ASSUME Inv, [Next]_vars, NEW q \in Request, rq'[q].pc \in {"store", "register"}
    PROVE  /\ rq[q].pc \in Busy /\ rq'[q].upload = rq[q].upload
           /\ \/ rq[q].pc \in {"store", "register"} /\ rq'[q].object = rq[q].object
              \/ rq'[q].object \in live[rq[q].upload]
<1> DEFINE Goal == /\ rq[q].pc \in Busy /\ rq'[q].upload = rq[q].upload
                   /\ \/ rq[q].pc \in {"store", "register"} /\ rq'[q].object = rq[q].object
                      \/ rq'[q].object \in live[rq[q].upload]
<1>0. rq \in [Request -> CompleteCall]
  BY DEF Inv, TypeOK
<1>1. rq'[q] = rq[q] => Goal
  BY DEF Busy
<1>2. ASSUME NEW p \in Request, NEW d, rq' = [rq EXCEPT ![p] = d],
             d.pc \notin {"store", "register"}
      PROVE  Goal
  BY <1>0, <1>1, <1>2
<1>3. ASSUME NEW p \in Request, NEW pc, rq' = [rq EXCEPT ![p].pc = pc],
             rq[p].pc \in {"store", "register"} \/ pc \notin {"store", "register"}
      PROVE  Goal
  <2>1. CASE p = q
    <3>1. rq'[q] = [rq[q] EXCEPT !.pc = pc]
      BY <1>0, <1>3, <2>1
    <3>2. rq'[q].pc = pc /\ rq'[q].upload = rq[q].upload /\ rq'[q].object = rq[q].object
      BY <1>0, <3>1 DEF CompleteCall
    <3> QED BY <1>3, <2>1, <3>2 DEF Busy
  <2>2. CASE p # q
    BY <1>0, <1>1, <1>3, <2>2
  <2> QED BY <2>1, <2>2
<1>4. ASSUME NEW p \in Request, NEW u \in Upload, BeginComplete(p, u)
      PROVE  Goal
  <2> DEFINE d == [IdleCall EXCEPT !.pc = IF Due(row[u]) THEN "expire" ELSE "claim", !.upload = u]
  <2>1. d.pc \notin {"store", "register"} /\ rq' = [rq EXCEPT ![p] = d]
    BY <1>4 DEF BeginComplete, IdleCall
  <2> HIDE DEF d
  <2> QED BY <1>2, <2>1
<1>5. ASSUME NEW p \in Request, Verify(p)
      PROVE  Goal
  <2>1. ASSUME NEW k \in live[rq[p].upload],
               rq' = [rq EXCEPT ![p] = [@ EXCEPT !.pc = "store", !.object = k]]
        PROVE  Goal
    <3>1. CASE p = q
      <4>1. rq'[q] = [rq[q] EXCEPT !.pc = "store", !.object = k]
        BY <1>0, <2>1, <3>1
      <4>2. rq'[q].upload = rq[q].upload /\ rq'[q].object = k
        BY <1>0, <4>1 DEF CompleteCall
      <4> QED BY <1>5, <2>1, <3>1, <4>2 DEF Busy, Verify
    <3>2. CASE p # q
      BY <1>0, <1>1, <2>1, <3>2
    <3> QED BY <3>1, <3>2
  <2>2. CASE rq' = [rq EXCEPT ![p].pc = "clear"]
    BY <1>3, <2>2
  <2> QED BY <1>5, <2>1, <2>2 DEF Verify
<1>6. ASSUME NEW p \in Request, rq' = [rq EXCEPT ![p] = Returned]
      PROVE  Goal
  BY <1>2, <1>6, ReturnedCall
<1>7. ASSUME NEW p \in Request, RequestStep(p) \/ DropRequest(p)
      PROVE  Goal
  <2>1. CASE ClaimVerification(p)
    <3>1. CASE rq' = [rq EXCEPT ![p].pc = IF Cardinality(Verifying) < Slots THEN "verify"
                                          ELSE "clear"]
      BY <1>3, <3>1
    <3> QED BY <1>6, <2>1, <3>1 DEF ClaimVerification
  <2>2. CASE StoreVersion(p)
    <3>1. PICK agrees \in BOOLEAN :
             rq' = [rq EXCEPT ![p].pc = IF HoldsClaim(row[rq[p].upload]) /\ agrees
                                        THEN "register" ELSE "clear"]
      BY <2>2 DEF StoreVersion
    <3>2. rq[p].pc = "store"
      BY <2>2 DEF StoreVersion
    <3> QED BY <1>3, <3>1, <3>2
  <2>3. CASE RegisterConflict(p) \/ RegisterFails(p)
    BY <1>3, <2>3 DEF RegisterConflict, RegisterFails
  <2>4. CASE CompleteExpires(p) \/ Register(p) \/ ClearVerification(p) \/ CancelUpload(p)
                \/ DropRequest(p)
    BY <1>6, <2>4 DEF CompleteExpires, Register, ClearVerification, CancelUpload, DropRequest
  <2> QED BY <1>5, <1>7, <2>1, <2>2, <2>3, <2>4 DEF RequestStep
<1>8. CASE Crash
  BY <1>0, <1>1, <1>8, ReturnedCall DEF Crash
<1>9. CASE UNCHANGED rq
  BY <1>1, <1>9
<1> QED BY <1>4, <1>7, <1>8, <1>9
  DEF Next, vars, CreateUpload, CreateApplicationRelease, Put, ScheduleExpire, ScheduleCleanup,
      LocalCheck, LocalStep, LocalRegister, LocalRefused, LocalFails, LocalRemove, WorkerStep,
      StartCleanup, ListVersions, DeleteVersion, FinishCleanup, CleanupFails, Recover, Tick,
      LocalUnchanged, CleanUnchanged

LEMMA ObjectsStep ==
    ASSUME Inv, CleanupWaits, ObjectsKept, [Next]_vars
    PROVE  ObjectsKept'
<1>1. ASSUME NEW u \in Upload, row[u].status \notin Dead
      PROVE  live[u] \subseteq live'[u]
  BY <1>1, ObjectsStay DEF CleanupWaits
<1>2. ASSUME NEW v \in Version, release'[v].store = "oss"
      PROVE  /\ release'[v].by \in Upload /\ row'[release'[v].by].status = "completed"
             /\ release'[v].object \in live'[release'[v].by]
  <2>1. CASE release'[v] = release[v]
    <3> DEFINE u == release[v].by
    <3>1. u \in Upload /\ row[u].status = "completed" /\ release[v].object \in live[u]
      BY <1>2, <2>1 DEF ObjectsKept
    <3>2. row'[u].status = "completed"
      BY <3>1, SessionStays DEF Evolves
    <3> QED BY <1>1, <2>1, <3>1, <3>2 DEF Dead
  <2>2. ASSUME NEW q \in Request, Register(q),
               release'[v] = [store |-> "oss", by |-> rq[q].upload, object |-> rq[q].object]
        PROVE  /\ release'[v].by \in Upload /\ row'[release'[v].by].status = "completed"
               /\ release'[v].object \in live'[release'[v].by]
    <3> DEFINE u == rq[q].upload
    <3>1. u \in Upload /\ row[u] \in Session /\ row \in [Upload -> Session]
      BY <2>2 DEF Register, Busy, Inv, TypeOK, Known, CallKnown
    <3>2. row[u].status = "pending" /\ rq[q].pc = "register" /\ live' = live
      BY <2>2 DEF Register, HoldsClaim, RegisterUnchanged, storeVars
    <3>3. row'[u].status = "completed"
      BY <2>2, <3>1 DEF Register, Session
    <3>4. rq[q].object \in live[u]
      BY <3>2 DEF ObjectsKept, Dead
    <3> QED BY <2>2, <3>1, <3>2, <3>3, <3>4
  <2>3. ASSUME NEW l \in LocalUpload, LocalRegister(l), local[l].version = v
        PROVE  FALSE
    BY <1>2, <2>3 DEF LocalRegister, Inv, TypeOK
  <2> QED BY <1>2, <2>1, <2>2, <2>3, ReleaseMoves
<1>3. ASSUME NEW q \in Request, rq'[q].pc \in {"store", "register"},
             row'[rq'[q].upload].status \notin Dead
      PROVE  rq'[q].object \in live'[rq'[q].upload]
  <2> DEFINE u == rq[q].upload
  <2>1. u \in Upload /\ row[u].status # "none" /\ rq'[q].upload = u
    BY <1>3, VerifiedCalls DEF Inv, Known, CallKnown
  <2>2. row[u].status \notin Dead
    BY <1>3, <2>1, SessionStays DEF Evolves, Dead
  <2>3. rq'[q].object \in live[u]
    BY <1>3, <2>1, <2>2, VerifiedCalls DEF ObjectsKept
  <2> QED BY <1>1, <2>1, <2>2, <2>3
<1> QED BY <1>2, <1>3 DEF ObjectsKept

\* what a step does to a directory
LEMMA DirMoves ==
    ASSUME Inv, [Next]_vars, NEW v \in Version
    PROVE  \/ dir'[v] = dir[v] /\ \A l \in LocalUpload : local'[l].pc = "remove" =>
                                      local[l].pc = "remove" \/ local[l].version # v
           \/ /\ dir'[v] = dir[v] \cup {"metadata"}
              /\ local' = local
           \/ /\ Available(v) /\ dir[v] = {}
              /\ \E l \in LocalUpload : /\ local[l].version = v /\ local[l].pc = "register"
                                        /\ dir'[v] \in {{l}, {l, "metadata"}}
           \/ \E l \in LocalUpload : /\ local[l].version = v /\ local[l].pc = "remove"
                                     /\ local'[l].pc = "done" /\ dir'[v] = {}
                                     /\ \A m \in LocalUpload \ {l} : local'[m] = local[m]
<1>0. /\ dir \in [Version -> SUBSET (LocalUpload \cup {"metadata"})]
      /\ local \in [LocalUpload -> LocalCall]
  BY DEF Inv, TypeOK
<1> DEFINE Same == dir'[v] = dir[v] /\ \A l \in LocalUpload : local'[l].pc = "remove" =>
                                           local[l].pc = "remove" \/ local[l].version # v
           Listed == dir'[v] = dir[v] \cup {"metadata"} /\ local' = local
           Promoted == /\ Available(v) /\ dir[v] = {}
                       /\ \E l \in LocalUpload : /\ local[l].version = v /\ local[l].pc = "register"
                                                 /\ dir'[v] \in {{l}, {l, "metadata"}}
           Removed == \E l \in LocalUpload : /\ local[l].version = v /\ local[l].pc = "remove"
                                             /\ local'[l].pc = "done" /\ dir'[v] = {}
                                             /\ \A m \in LocalUpload \ {l} : local'[m] = local[m]
<1>1. ASSUME NEW q \in Request, Register(q) \/ RegisterConflict(q) \/ RegisterFails(q)
      PROVE  Same \/ Listed
  <2> DEFINE w == row[rq[q].upload].version
  <2>1. local' = local /\ (dir' = dir \/ dir' = [dir EXCEPT ![w] = @ \cup {"metadata"}])
    BY <1>1 DEF Register, RegisterConflict, RegisterFails, RegisterUnchanged
  <2> HIDE DEF w
  <2> QED BY <1>0, <2>1
<1>2. ASSUME NEW l \in LocalUpload, NEW d \in {{l}, {l, "metadata"}},
             local[l].pc = "register", Available(local[l].version), dir[local[l].version] = {},
             dir' = [dir EXCEPT ![local[l].version] = d],
             local' = [local EXCEPT ![l].pc = "remove"] \/ local' = [local EXCEPT ![l].pc = "done"]
      PROVE  Same \/ Promoted
  BY <1>0, <1>2
<1>3. ASSUME NEW l \in LocalUpload, LocalRegister(l) \/ LocalFails(l)
      PROVE  Same \/ Promoted
  BY <1>2, <1>3 DEF LocalRegister, LocalFails
<1>4. ASSUME NEW l \in LocalUpload, LocalRemove(l)
      PROVE  Same \/ Removed
  BY <1>0, <1>4 DEF LocalRemove, LocalCall
<1>5. ASSUME NEW l \in LocalUpload, LocalCheck(l) \/ LocalRefused(l)
      PROVE  Same
  <2>1. PICK pc \in {"register", "done"} : local' = [local EXCEPT ![l].pc = pc]
    BY <1>5 DEF LocalCheck, LocalRefused
  <2>2. dir' = dir
    BY <1>5 DEF LocalCheck, LocalRefused
  <2> QED BY <1>0, <2>1, <2>2
<1>6. CASE Crash
  <2>1. \A l \in LocalUpload : local'[l].pc # "remove"
    BY <1>0, <1>6 DEF Crash, LocalCall
  <2>2. CASE dir' = dir
    BY <2>1, <2>2
  <2>3. ASSUME NEW l \in LocalUpload,
               local[l].pc = "register", Available(local[l].version), dir[local[l].version] = {},
               dir' = [dir EXCEPT ![local[l].version] = {l, "metadata"}]
        PROVE  Same \/ Promoted
    BY <1>0, <2>1, <2>3
  <2>4. Same \/ Promoted
    BY <1>6, <2>2, <2>3 DEF Crash
  <2> QED BY <2>4
<1>7. CASE UNCHANGED <<dir, local>>
  BY <1>7
<1> QED BY <1>1, <1>3, <1>4, <1>5, <1>6, <1>7
  DEF Next, vars, CreateUpload, CreateApplicationRelease, Put, ScheduleExpire, ScheduleCleanup,
      BeginComplete, RequestStep, CompleteExpires, ClaimVerification, Verify, StoreVersion,
      ClearVerification, CancelUpload, DropRequest, LocalStep, WorkerStep, StartCleanup,
      ListVersions, DeleteVersion, FinishCleanup, CleanupFails, Recover, Tick,
      CompleteUnchanged, CleanUnchanged

\* A direct upload keeps its version and does not come back.
LEMMA LocalMoves ==
    ASSUME Inv, [Next]_vars, NEW l \in LocalUpload
    PROVE  /\ local'[l].version = local[l].version
           /\ local[l].pc = "done" => local'[l].pc = "done"
           /\ local'[l].pc = "remove" => local[l].pc = "remove" \/ LocalFails(l)
<1> DEFINE Goal == /\ local'[l].version = local[l].version
                   /\ local[l].pc = "done" => local'[l].pc = "done"
                   /\ local'[l].pc = "remove" => local[l].pc = "remove" \/ LocalFails(l)
<1>0. local \in [LocalUpload -> LocalCall]
  BY DEF Inv, TypeOK
<1>1. ASSUME NEW m \in LocalUpload, NEW pc, local' = [local EXCEPT ![m].pc = pc],
             local[m].pc # "done", pc # "remove" \/ LocalFails(m)
      PROVE  Goal
  <2>1. CASE m = l
    BY <1>0, <1>1, <2>1 DEF LocalCall
  <2>2. CASE m # l
    BY <1>0, <1>1, <2>2
  <2> QED BY <2>1, <2>2
<1>2. ASSUME NEW m \in LocalUpload, LocalCheck(m)
      PROVE  Goal
  <2>1. PICK pc \in {"register", "done"} : local' = [local EXCEPT ![m].pc = pc]
    BY <1>2 DEF LocalCheck
  <2>2. local[m].pc = "idle"
    BY <1>2 DEF LocalCheck
  <2> QED BY <1>1, <2>1, <2>2
<1>3. ASSUME NEW m \in LocalUpload, LocalStep(m)
      PROVE  Goal
  <2>1. CASE LocalRegister(m) \/ LocalRefused(m) \/ LocalRemove(m)
    BY <1>1, <2>1 DEF LocalRegister, LocalRefused, LocalRemove
  <2>2. CASE LocalFails(m)
    <3>1. PICK pc \in {"remove", "done"} : local' = [local EXCEPT ![m].pc = pc]
      BY <2>2 DEF LocalFails
    <3>2. local[m].pc = "register"
      BY <2>2 DEF LocalFails
    <3> QED BY <1>1, <2>2, <3>1, <3>2
  <2> QED BY <1>3, <2>1, <2>2 DEF LocalStep
<1>4. CASE Crash
  BY <1>0, <1>4 DEF Crash, LocalCall
<1>5. CASE UNCHANGED local
  BY <1>5
<1> QED BY <1>2, <1>3, <1>4, <1>5
  DEF Next, vars, CreateUpload, CreateApplicationRelease, Put, ScheduleExpire, ScheduleCleanup,
      BeginComplete, RequestStep, CompleteExpires, ClaimVerification, Verify, StoreVersion,
      Register, RegisterConflict, RegisterFails, ClearVerification, CancelUpload, DropRequest,
      WorkerStep, StartCleanup, ListVersions, DeleteVersion, FinishCleanup, CleanupFails,
      Recover, Tick, CompleteUnchanged, RegisterUnchanged, CleanUnchanged

LEMMA DirectoriesStep ==
    ASSUME Inv, DirectoriesKept, [Next]_vars
    PROVE  DirectoriesKept'
<1>0. /\ dir \in [Version -> SUBSET (LocalUpload \cup {"metadata"})]
      /\ local \in [LocalUpload -> LocalCall]
  BY DEF Inv, TypeOK
<1>1. ASSUME NEW v \in Version, release'[v].store = "local"
      PROVE  /\ release'[v].by \in LocalUpload /\ release'[v].by \in dir'[v]
             /\ local'[release'[v].by].pc = "done"
  <2>1. CASE release'[v] = release[v]
    <3> DEFINE b == release[v].by
    <3>1. b \in LocalUpload /\ b \in dir[v] /\ local[b].pc = "done" /\ ~Available(v)
      BY <1>1, <2>1 DEF DirectoriesKept, Available, Released
    <3>2. local'[b].pc = "done"
      BY <3>1, LocalMoves
    <3>3. \A l \in LocalUpload : l \in dir[v] => l = b
      BY <3>1 DEF DirectoriesKept
    <3>4. \A l \in LocalUpload : local[l].version = v => local[l].pc # "remove"
      BY <3>1, <3>3 DEF DirectoriesKept
    <3>5. b \in dir'[v]
      BY <3>1, <3>4, DirMoves
    <3> QED BY <2>1, <3>1, <3>2, <3>5
  <2>2. \/ release'[v] = release[v]
        \/ \E l \in LocalUpload : LocalRegister(l) /\ local[l].version = v
    BY <1>1, ReleaseMoves
  <2>3. ASSUME NEW l \in LocalUpload, LocalRegister(l), local[l].version = v
        PROVE  /\ release'[v].by \in LocalUpload /\ release'[v].by \in dir'[v]
               /\ local'[release'[v].by].pc = "done"
    <3>1. release \in [Version -> Release]
      BY DEF Inv, TypeOK
    <3>2. release'[v].by = l /\ l \in dir'[v]
      BY <1>0, <2>3, <3>1 DEF LocalRegister
    <3>3. local'[l].pc = "done"
      BY <1>0, <2>3 DEF LocalRegister, LocalCall
    <3> QED BY <3>2, <3>3
  <2> QED BY <2>1, <2>2, <2>3
<1>2. ASSUME NEW l \in LocalUpload, local'[l].pc = "remove"
      PROVE  l \in dir'[local'[l].version]
  <2> DEFINE v == local[l].version
  <2>1. v \in Version /\ local'[l].version = v
    BY <1>0, LocalMoves DEF LocalCall
  <2>2. CASE LocalFails(l)
    BY <1>0, <2>1, <2>2 DEF LocalFails
  <2>3. CASE local[l].pc = "remove"
    <3>1. l \in dir[v]
      BY <2>3 DEF DirectoriesKept
    <3>2. ASSUME NEW m \in LocalUpload, local[m].version = v, local[m].pc = "remove"
          PROVE  m = l
      BY <2>1, <3>1, <3>2 DEF DirectoriesKept
    <3> QED BY <1>2, <2>1, <3>1, <3>2, DirMoves
  <2> QED BY <1>2, <2>2, <2>3, LocalMoves
<1>3. ASSUME NEW v \in Version, NEW l \in LocalUpload, NEW m \in LocalUpload,
             l \in dir'[v], m \in dir'[v]
      PROVE  l = m
  BY <1>3, DirMoves, NamesAssumption DEF DirectoriesKept
<1> QED BY <1>1, <1>2, <1>3 DEF DirectoriesKept

\* The package of a release is where the release says: no expiry, cancellation,
\* clean-up or clean-up of a failed direct upload takes it away, in whatever order
\* they meet the registration.
THEOREM PackagesStay == Spec => []ReleasedPackageExists
<1>1. Init => ObjectsKept /\ DirectoriesKept
  BY DEF Init, ObjectsKept, DirectoriesKept, NoRelease, IdleCall
<1>2. Inv /\ CleanupWaits /\ ObjectsKept /\ [Next]_vars => ObjectsKept'
  BY ObjectsStep
<1>3. Inv /\ DirectoriesKept /\ [Next]_vars => DirectoriesKept'
  BY DirectoriesStep
<1>4. ObjectsKept /\ DirectoriesKept => ReleasedPackageExists
  BY DEF ObjectsKept, DirectoriesKept, ReleasedPackageExists
<1> QED BY <1>1, <1>2, <1>3, <1>4, Invariance, CleanupInvariant, PTL DEF Spec

-----------------------------------------------------------------------------
(* A claim and who holds it. *)

Holding == {"verify", "store", "register", "clear", "cancel"}
Holds(q, u) == rq[q].pc \in Holding /\ rq[q].upload = u

\* Only a reserved session is claimed; it has one holder when it is, none when
\* it is not, and no holder is gone but with a dropped request or the process.
Claims ==
    /\ \A u \in Upload : row[u].claim = "set" =>
           /\ row[u].status = "pending" /\ row[u].active = 1
           /\ drops = 0 /\ phase = "serving" => \E q \in Request : Holds(q, u)
    /\ \A u \in Upload : row[u].status = "pending" /\ row[u].active = 1 =>
           \A p, q \in Request : Holds(p, u) /\ Holds(q, u) => row[u].claim = "set" /\ p = q
    /\ phase = "starting" => \A q \in Request : rq[q].pc \notin Busy

\* a session that keeps its claim, or loses it with its reservation
KeepsClaim(s, t) ==
    \/ t.claim = s.claim /\ t.status = s.status /\ t.active = s.active
    \/ t.claim = "null" /\ t.status # "pending"

LEMMA ClaimsKept ==
    ASSUME Inv, Claims, \A u \in Upload : KeepsClaim(row[u], row'[u]), phase' = phase,
           \A q \in Request : rq'[q].pc \in Busy => rq[q].pc \in Busy \/ phase = "serving",
           \A q \in Request, u \in Upload : Holds(q, u)' => Holds(q, u),
           \A q \in Request, u \in Upload :
               Holds(q, u) /\ row'[u].claim = "set" /\ drops' = 0 => drops = 0 /\ Holds(q, u)',
           drops' = 0 => drops = 0
    PROVE  Claims'
<1>1. ASSUME NEW u \in Upload, row'[u].claim = "set"
      PROVE  /\ row'[u].status = "pending" /\ row'[u].active = 1
             /\ drops' = 0 /\ phase' = "serving" => \E q \in Request : Holds(q, u)'
  BY <1>1 DEF Claims, KeepsClaim
<1>2. ASSUME NEW u \in Upload, row'[u].status = "pending", row'[u].active = 1,
             NEW p \in Request, NEW q \in Request, Holds(p, u)', Holds(q, u)'
      PROVE  row'[u].claim = "set" /\ p = q
  BY <1>2 DEF Claims, KeepsClaim
<1>3. phase' = "starting" => \A q \in Request : rq'[q].pc \notin Busy
  BY DEF Claims
<1> QED BY <1>1, <1>2, <1>3 DEF Claims

\* the rows that a step of nobody who holds a claim leaves
LEMMA OtherRows ==
    ASSUME Inv, Claims,
           \/ \E u \in Upload : ScheduleExpire(u) \/ StartCleanup(u)
           \/ FinishCleanup \/ CleanupFails
           \/ \E l \in LocalUpload : LocalCheck(l) \/ LocalRegister(l)
           \/ \E q \in Request : CompleteExpires(q) \/ Register(q) \/ CancelUpload(q)
    PROVE  \A w \in Upload : KeepsClaim(row[w], row'[w])
<1>0. now \in Time /\ row \in [Upload -> Session]
  BY DEF Inv, TypeOK
<1> DEFINE Goal == \A w \in Upload : KeepsClaim(row[w], row'[w])
<1>1. ASSUME NEW u \in Upload, NEW x \in Session, KeepsClaim(row[u], x), row' = [row EXCEPT ![u] = x]
      PROVE  Goal
  BY <1>0, <1>1, RowType DEF KeepsClaim
<1>2. ASSUME NEW u \in Upload
      PROVE  /\ Expired(row[u]) \in Session /\ KeepsClaim(row[u], Expired(row[u]))
             /\ Canceled(row[u]) \in Session /\ KeepsClaim(row[u], Canceled(row[u]))
  BY <1>0, ExpiredRow, CanceledRow DEF KeepsClaim
<1>3. ASSUME NEW u \in Upload, ScheduleExpire(u)
      PROVE  Goal
  BY <1>1, <1>2, <1>3 DEF ScheduleExpire
<1>4. ASSUME NEW u \in Upload, NEW cleanup \in {"null", "started", "completed"},
             row' = [row EXCEPT ![u].cleanup = cleanup]
      PROVE  Goal
  <2> DEFINE x == [row[u] EXCEPT !.cleanup = cleanup]
  <2>1. x \in Session /\ KeepsClaim(row[u], x)
    BY <1>0, CleanedRow DEF KeepsClaim
  <2>2. row' = [row EXCEPT ![u] = x]
    BY <1>4
  <2> HIDE DEF x
  <2> QED BY <1>1, <2>1, <2>2
<1>5. UNCHANGED row => Goal
  BY DEF KeepsClaim
<1>6. ASSUME NEW u \in Upload, StartCleanup(u)
      PROVE  Goal
  BY <1>4, <1>5, <1>6 DEF StartCleanup
<1>7. CASE FinishCleanup \/ CleanupFails
  BY <1>4, <1>7 DEF FinishCleanup, CleanupFails, Inv, Known, WorkerKnown
<1>8. ASSUME NEW l \in LocalUpload, LocalCheck(l) \/ LocalRegister(l)
      PROVE  Goal
  <2>1. row' = ExpireReservation(local[l].version)
    BY <1>8 DEF LocalCheck, LocalRegister
  <2> QED BY <1>2, <2>1 DEF ExpireReservation, KeepsClaim
<1>9. ASSUME NEW q \in Request, CompleteExpires(q) \/ Register(q) \/ CancelUpload(q)
      PROVE  Goal
  <2> DEFINE u == rq[q].upload
             x == [row[u] EXCEPT !.status = "completed", !.active = 0, !.claim = "null"]
  <2>1. u \in Upload
    BY <1>9 DEF CompleteExpires, Register, CancelUpload, Busy, Inv, Known, CallKnown
  <2>2. x \in Session /\ KeepsClaim(row[u], x)
    BY <1>0, <2>1, CompletedRow DEF KeepsClaim
  <2>3. \/ row' = [row EXCEPT ![u] = Expired(row[u])] \/ row' = [row EXCEPT ![u] = Canceled(row[u])]
        \/ row' = [row EXCEPT ![u] = x] \/ row' = [row EXCEPT ![u] = row[u]]
    BY <1>9 DEF CompleteExpires, Register, CancelUpload
  <2>4. KeepsClaim(row[u], row[u]) /\ row[u] \in Session
    BY <1>0, <2>1 DEF KeepsClaim
  <2> HIDE DEF x, u
  <2> QED BY <1>1, <1>2, <2>1, <2>2, <2>3, <2>4
<1> QED BY <1>3, <1>6, <1>7, <1>8, <1>9

LEMMA CallsUntouched ==
    ASSUME Inv, Claims, \A u \in Upload : KeepsClaim(row[u], row'[u]), UNCHANGED <<rq, phase>>,
           drops' = drops \/ drops' = drops + 1
    PROVE  Claims'
<1>1. drops' = 0 => drops = 0
  BY DEF Inv, TypeOK
<1>2. \A q \in Request, u \in Upload : Holds(q, u)' <=> Holds(q, u)
  BY DEF Holds
<1> QED BY <1>1, <1>2, ClaimsKept

LEMMA CallEnds ==
    ASSUME Inv, Claims, \A u \in Upload : KeepsClaim(row[u], row'[u]), phase' = phase,
           NEW q \in Request, rq' = [rq EXCEPT ![q] = Returned],
           \/ drops' = drops /\ (rq[q].pc \in Holding => row'[rq[q].upload].claim = "null")
           \/ drops' = drops + 1
    PROVE  Claims'
<1>0. rq \in [Request -> CompleteCall] /\ drops \in Nat
  BY BoundAssumption DEF Inv, TypeOK
<1>1. rq'[q] = Returned /\ \A p \in Request \ {q} : rq'[p] = rq[p]
  BY <1>0
<1>2. \A p \in Request : rq'[p].pc \in Busy => rq[p].pc \in Busy
  BY <1>1, ReturnedCall
<1>3. \A p \in Request, u \in Upload : Holds(p, u)' => Holds(p, u) /\ p # q
  BY <1>1 DEF Holds, Returned, Holding
<1>4. \A p \in Request \ {q}, u \in Upload : Holds(p, u) => Holds(p, u)'
  BY <1>1 DEF Holds
<1>5. \A u \in Upload : Holds(q, u) /\ row'[u].claim = "set" => drops' = drops + 1
  BY DEF Holds
<1>6. drops' = 0 => drops = 0 /\ drops' # drops + 1
  BY <1>0
<1> QED BY <1>2, <1>3, <1>4, <1>5, <1>6, ClaimsKept

LEMMA HolderGoesOn ==
    ASSUME Inv, Claims, UNCHANGED <<row, phase, drops>>,
           NEW q \in Request, rq[q].pc \in Holding, NEW d \in CompleteCall, d.pc \in Holding,
           d.upload = rq[q].upload, rq' = [rq EXCEPT ![q] = d]
    PROVE  Claims'
<1>0. rq \in [Request -> CompleteCall]
  BY DEF Inv, TypeOK
<1>1. rq'[q] = d /\ \A p \in Request \ {q} : rq'[p] = rq[p]
  BY <1>0
<1>2. \A p \in Request, u \in Upload : Holds(p, u)' <=> Holds(p, u)
  BY <1>1 DEF Holds
<1>3. \A p \in Request : rq'[p].pc \in Busy => rq[p].pc \in Busy
  BY <1>1 DEF Holding, Busy
<1> QED BY <1>2, <1>3, ClaimsKept DEF KeepsClaim

LEMMA HolderPc ==
    ASSUME Inv, Claims, UNCHANGED <<row, phase, drops>>,
           NEW q \in Request, rq[q].pc \in Holding, NEW pc \in Holding,
           rq' = [rq EXCEPT ![q].pc = pc]
    PROVE  Claims'
<1> DEFINE c == rq[q]
           d == [c EXCEPT !.pc = pc]
<1>0. /\ c \in CompleteCall
      /\ pc \in {"idle", "expire", "claim", "verify", "store", "register", "clear",
                "cancel", "done"}
  BY DEF Inv, TypeOK, Holding
<1>2. rq' = [rq EXCEPT ![q] = d]
  OBVIOUS
<1> HIDE DEF c
<1>1. d \in CompleteCall /\ d.pc = pc /\ d.upload = c.upload
  BY <1>0 DEF CompleteCall
<1> HIDE DEF d
<1> QED BY <1>1, <1>2, HolderGoesOn DEF c

LEMMA ClaimTaken ==
    ASSUME Inv, Claims, NEW q \in Request, ClaimVerification(q)
    PROVE  Claims'
<1>u. PICK u \in Upload : rq[q].upload = u
  BY DEF ClaimVerification, Busy, Inv, Known, CallKnown
<1>0. /\ rq \in [Request -> CompleteCall] /\ row \in [Upload -> Session]
      /\ rq[q].pc = "claim" /\ row[u] \in Session
  BY DEF ClaimVerification, Inv, TypeOK
<1>1. CASE Claimable(row[u])
  <2> DEFINE x == [row[u] EXCEPT !.claim = "set"]
             pc == IF Cardinality(Verifying) < Slots THEN "verify" ELSE "clear"
             d == [rq[q] EXCEPT !.pc = pc]
  <2>1. row' = [row EXCEPT ![u] = x] /\ rq' = [rq EXCEPT ![q] = d] /\ UNCHANGED <<phase, drops>>
    BY <1>u, <1>1 DEF ClaimVerification, CompleteUnchanged, limitVars
  <2>2. x.claim = "set" /\ x.status = "pending" /\ x.active = 1
    BY <1>0, <1>1 DEF Session, Claimable
  <2>3. d.pc \in Holding /\ d.upload = u
    BY <1>u, <1>0 DEF CompleteCall, Holding
  <2>4. phase # "starting" /\ \A p \in Request : ~Holds(p, u)
    BY <1>0, <1>1 DEF Claims, Claimable, Busy
  <2> HIDE DEF x, d
  <2>5. rq'[q] = d /\ row'[u] = x /\ (\A p \in Request \ {q} : rq'[p] = rq[p])
        /\ (\A w \in Upload \ {u} : row'[w] = row[w])
    BY <1>0, <2>1
  <2>6. \A p \in Request : Holds(p, u)' <=> p = q
    BY <2>3, <2>4, <2>5 DEF Holds
  <2>7. rq[q].pc \notin Holding
    BY <1>0 DEF Holding
  <2>8. \A p \in Request, w \in Upload \ {u} : Holds(p, w)' <=> Holds(p, w)
    BY <2>3, <2>5, <2>7 DEF Holds
  <2> QED BY <2>1, <2>2, <2>4, <2>5, <2>6, <2>8 DEF Claims
<1>2. CASE ~Claimable(row[u])
  BY <1>u, <1>0, <1>2, CallEnds
  DEF ClaimVerification, CompleteUnchanged, limitVars, KeepsClaim, Holding
<1> QED BY <1>1, <1>2

LEMMA ClaimGivenBack ==
    ASSUME Inv, Claims, NEW q \in Request, ClearVerification(q)
    PROVE  Claims'
<1> DEFINE u == rq[q].upload
           x == Unclaimed(row[u])
<1>0. /\ rq \in [Request -> CompleteCall] /\ row \in [Upload -> Session]
      /\ u \in Upload /\ rq[q].pc = "clear" /\ row[u] \in Session
  BY DEF ClearVerification, Busy, Inv, TypeOK, Known, CallKnown
<1>1. /\ row' = [row EXCEPT ![u] = x] /\ rq' = [rq EXCEPT ![q] = Returned]
      /\ UNCHANGED <<phase, drops>>
  BY DEF ClearVerification, CompleteUnchanged, limitVars
<1>2. Holds(q, u) /\ phase # "starting"
  BY <1>0 DEF Holds, Holding, Claims, Busy
<1>3. x.status = row[u].status /\ x.active = row[u].active /\ x.claim = "null"
  BY <1>0, UnclaimedRow DEF Claims, Session
<1> HIDE DEF x, u
<1>4. rq'[q] = Returned /\ row'[u] = x /\ (\A p \in Request \ {q} : rq'[p] = rq[p])
      /\ (\A w \in Upload \ {u} : row'[w] = row[w])
  BY <1>0, <1>1
<1>5. rq[q].upload = u
  BY DEF u
<1>6. \A p \in Request, w \in Upload : Holds(p, w)' <=> Holds(p, w) /\ p # q
  BY <1>4 DEF Holds, Returned, Holding
<1>7. \A w \in Upload \ {u} : ~Holds(q, w)
  BY <1>5 DEF Holds
<1> QED BY <1>0, <1>1, <1>2, <1>3, <1>4, <1>6, <1>7 DEF Claims

LEMMA ClaimsRestart ==
    ASSUME Inv, Claims, Crash \/ Recover
    PROVE  Claims'
<1>0. rq \in [Request -> CompleteCall] /\ row \in [Upload -> Session]
  BY DEF Inv, TypeOK
<1>1. CASE Crash
  <2>1. \A q \in Request : rq'[q].pc \notin Busy
    BY <1>1, ReturnedCall DEF Crash, Busy
  <2>2. \A q \in Request, u \in Upload : ~Holds(q, u)'
    BY <2>1 DEF Holds, Holding, Busy
  <2> QED BY <1>1, <2>1, <2>2 DEF Crash, dbVars, Claims
<1>2. CASE Recover
  <2>1. \A q \in Request, u \in Upload : ~Holds(q, u)'
    BY <1>2 DEF Recover, Claims, Holds, Holding, Busy
  <2>2. \A u \in Upload : row'[u].claim # "set"
    BY <1>0, <1>2, RecoveredRow, UnclaimedRow DEF Recover, Claims
  <2> QED BY <1>2, <2>1, <2>2 DEF Recover, Claims
<1> QED BY <1>1, <1>2

LEMMA ClaimsCreate ==
    ASSUME Inv, Claims, NEW u \in Upload, NEW v \in Version, CreateUpload(u, v)
    PROVE  Claims'
<1>0. now \in Time /\ row \in [Upload -> Session]
  BY DEF Inv, TypeOK
<1>1. UNCHANGED <<rq, phase, drops>> /\ phase = "serving"
  BY DEF CreateUpload, limitVars
<1>2. \A q \in Request, w \in Upload : Holds(q, w)' <=> Holds(q, w)
  BY <1>1 DEF Holds
<1>3. row'[u].claim = "null" /\ \A q \in Request : ~Holds(q, u)
  BY CreateRows DEF Created, Holds, Holding, Busy, Inv, Known, CallKnown
<1>4. \A w \in Upload \ {u} : KeepsClaim(row[w], row'[w])
  BY <1>0, CreateRows, ExpiredRow DEF ExpireReservation, KeepsClaim
<1>5. ASSUME NEW w \in Upload, row'[w].claim = "set"
      PROVE  /\ row'[w].status = "pending" /\ row'[w].active = 1
             /\ drops' = 0 => \E q \in Request : Holds(q, w)'
  BY <1>1, <1>2, <1>3, <1>4, <1>5 DEF Claims, KeepsClaim
<1>6. ASSUME NEW w \in Upload, row'[w].status = "pending", row'[w].active = 1,
             NEW p \in Request, NEW q \in Request, Holds(p, w)', Holds(q, w)'
      PROVE  row'[w].claim = "set" /\ p = q
  BY <1>2, <1>3, <1>4, <1>6 DEF Claims, KeepsClaim
<1> QED BY <1>1, <1>5, <1>6 DEF Claims

LEMMA ClaimsStep ==
    ASSUME Inv, Claims, [Next]_vars
    PROVE  Claims'
<1>0. /\ rq \in [Request -> CompleteCall] /\ live \in [Upload -> SUBSET (1 .. MaxPuts)]
      /\ \A u \in Upload : KeepsClaim(row[u], row[u])
  BY DEF Inv, TypeOK, KeepsClaim
<1>1. ASSUME UNCHANGED <<row, rq, phase, drops>>
      PROVE  Claims'
  BY <1>0, <1>1, CallsUntouched
<1>2. ASSUME NEW u \in Upload, NEW v \in Version, CreateUpload(u, v)
      PROVE  Claims'
  BY <1>2, ClaimsCreate
<1>3. CASE \/ \E u \in Upload : ScheduleExpire(u) \/ StartCleanup(u)
           \/ FinishCleanup \/ CleanupFails
           \/ \E l \in LocalUpload : LocalCheck(l) \/ LocalRegister(l)
  <2>1. UNCHANGED <<rq, phase>> /\ drops' = drops
    BY <1>3
    DEF ScheduleExpire, StartCleanup, FinishCleanup, CleanupFails, LocalCheck, LocalRegister,
        CleanUnchanged, LocalUnchanged, limitVars
  <2> QED BY <1>3, <2>1, OtherRows, CallsUntouched
<1>4. ASSUME NEW l \in LocalUpload, LocalFails(l)
      PROVE  Claims'
  <2>1. UNCHANGED <<row, rq, phase>> /\ (drops' = drops \/ drops' = drops + 1)
    BY <1>4 DEF LocalFails, dbVars
  <2> QED BY <1>0, <2>1, CallsUntouched
<1>5. ASSUME NEW q \in Request, NEW u \in Upload, BeginComplete(q, u)
      PROVE  Claims'
  <2> DEFINE d == [IdleCall EXCEPT !.pc = IF Due(row[u]) THEN "expire" ELSE "claim", !.upload = u]
  <2>1. d.pc \notin Holding /\ rq' = [rq EXCEPT ![q] = d] /\ rq[q].pc = "idle"
        /\ phase = "serving" /\ UNCHANGED <<row, phase, drops>>
    BY <1>5 DEF BeginComplete, IdleCall, Holding, CompleteUnchanged, dbVars, limitVars
  <2> HIDE DEF d
  <2>2. rq'[q] = d /\ \A p \in Request \ {q} : rq'[p] = rq[p]
    BY <1>0, <2>1
  <2>3. \A p \in Request, w \in Upload : Holds(p, w)' <=> Holds(p, w)
    BY <2>1, <2>2 DEF Holds, Holding
  <2> QED BY <1>0, <2>1, <2>3, ClaimsKept
<1>6. ASSUME NEW q \in Request, Verify(q)
      PROVE  Claims'
  <2>1. rq[q].pc \in Holding /\ rq[q].upload \in Upload /\ rq[q] \in CompleteCall
        /\ UNCHANGED <<row, phase, drops>>
    BY <1>0, <1>6
    DEF Verify, Holding, Busy, Inv, Known, CallKnown, CompleteUnchanged, dbVars, limitVars
  <2>2. ASSUME NEW k \in live[rq[q].upload],
               rq' = [rq EXCEPT ![q] = [@ EXCEPT !.pc = "store", !.object = k]]
        PROVE  Claims'
    <3> DEFINE d == [rq[q] EXCEPT !.pc = "store", !.object = k]
    <3>0. k \in Nat
      BY <1>0, <2>1, ClockAssumption
    <3>1. d \in CompleteCall /\ d.pc = "store" /\ d.upload = rq[q].upload
      BY <2>1, <3>0 DEF CompleteCall
    <3>2. rq' = [rq EXCEPT ![q] = d]
      BY <2>2
    <3> HIDE DEF d
    <3> QED BY <2>1, <3>1, <3>2, HolderGoesOn DEF Holding
  <2>3. CASE rq' = [rq EXCEPT ![q].pc = "clear"]
    BY <2>1, <2>3, HolderPc DEF Holding
  <2> QED BY <1>6, <2>2, <2>3 DEF Verify
<1>7. ASSUME NEW q \in Request, StoreVersion(q) \/ RegisterConflict(q) \/ RegisterFails(q)
      PROVE  Claims'
  <2>1. PICK pc \in Holding : rq' = [rq EXCEPT ![q].pc = pc]
    BY <1>7 DEF StoreVersion, RegisterConflict, RegisterFails, Holding
  <2>2. rq[q].pc \in Holding /\ UNCHANGED <<row, phase, drops>>
    BY <1>7
    DEF StoreVersion, RegisterConflict, RegisterFails, Holding, CompleteUnchanged,
        RegisterUnchanged, dbVars, limitVars
  <2> QED BY <2>1, <2>2, HolderPc
<1>8. ASSUME NEW q \in Request, CompleteExpires(q) \/ Register(q) \/ CancelUpload(q)
      PROVE  Claims'
  <2>1. \A w \in Upload : KeepsClaim(row[w], row'[w])
    BY <1>8, OtherRows
  <2>2. UNCHANGED <<phase, drops>> /\ rq' = [rq EXCEPT ![q] = Returned]
    BY <1>8
    DEF CompleteExpires, Register, CancelUpload, CompleteUnchanged, RegisterUnchanged, limitVars
  <2>3. rq[q].pc \in Holding => row'[rq[q].upload].claim = "null"
    <3> DEFINE u == rq[q].upload
    <3>1. u \in Upload /\ row[u] \in Session /\ row \in [Upload -> Session] /\ now \in Time
      BY <1>8
      DEF CompleteExpires, Register, CancelUpload, Busy, Inv, TypeOK, Known, CallKnown
    <3>2. CASE CompleteExpires(q)
      BY <3>2 DEF CompleteExpires, Holding
    <3>3. CASE Register(q)
      BY <3>1, <3>3 DEF Register, Session
    <3>4. CASE CancelUpload(q)
      <4>1. row'[u] = IF row[u].status = "pending" THEN Canceled(row[u]) ELSE row[u]
        BY <3>1, <3>4 DEF CancelUpload
      <4>2. row[u].status # "pending" => row[u].claim = "null"
        BY <3>1 DEF Claims, Session
      <4> QED BY <3>1, <4>1, <4>2, CanceledRow
    <3> QED BY <1>8, <3>2, <3>3, <3>4
  <2> QED BY <2>1, <2>2, <2>3, CallEnds
<1>9. ASSUME NEW q \in Request, DropRequest(q)
      PROVE  Claims'
  BY <1>0, <1>9, CallEnds DEF DropRequest, dbVars
<1>10. CASE UNCHANGED vars
  BY <1>1, <1>10 DEF vars
<1>11. ASSUME NEW q \in Request, ClaimVerification(q) \/ ClearVerification(q)
       PROVE  Claims'
  BY <1>11, ClaimTaken, ClaimGivenBack
<1>12. CASE Crash \/ Recover
  BY <1>12, ClaimsRestart
<1> QED BY <1>1, <1>2, <1>3, <1>4, <1>5, <1>6, <1>7, <1>8, <1>9, <1>10, <1>11, <1>12
  DEF Next, RequestStep, LocalStep, WorkerStep, CreateApplicationRelease, Put, ScheduleCleanup,
      LocalRefused, LocalRemove, ListVersions, DeleteVersion, Tick, LocalUnchanged,
      CleanUnchanged, dbVars, cleanVars, limitVars

\* A session is verified by one request at a time, and a claim nobody holds is
\* there only because a request was dropped or the process restarts: each way a
\* completion ends gives the claim back or closes the session.
THEOREM OneHolder == Spec => []ClaimHasOneHolder
<1>1. Init => Claims
  BY DEF Init, Claims, NoSession, IdleCall, Holds, Holding, Busy
<1>2. Claims => ClaimHasOneHolder
  <2> SUFFICES ASSUME Claims, NEW u \in Upload, row[u].claim = "set"
               PROVE  /\ drops = 0 /\ phase = "serving" => Holders(u) # {}
                      /\ Cardinality(Holders(u)) <= 1
    BY DEF ClaimHasOneHolder
  <2>1. \A q \in Request : q \in Holders(u) <=> Holds(q, u)
    BY DEF Holders, Holds, Holding
  <2>2. drops = 0 /\ phase = "serving" => Holders(u) # {}
    BY <2>1 DEF Claims
  <2>3. \A p, q \in Holders(u) : p = q
    BY <2>1 DEF Claims, Holders
  <2>4. CASE Holders(u) = {}
    <3>1. IsFiniteSet({}) /\ Cardinality({}) = 0
      BY FS_EmptySet
    <3> QED BY <2>2, <2>4, <3>1
  <2>5. ASSUME NEW p \in Holders(u)
        PROVE  Cardinality(Holders(u)) <= 1
    <3>1. Holders(u) = {p}
      BY <2>3
    <3>2. Cardinality({p}) = 1
      BY FS_Singleton
    <3> QED BY <3>1, <3>2
  <2> QED BY <2>2, <2>4, <2>5
<1> QED BY <1>1, <1>2, ClaimsStep, Invariance, PTL DEF Spec
=============================================================================
