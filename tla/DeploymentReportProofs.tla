----------------------- MODULE DeploymentReportProofs ------------------------
(*****************************************************************************)
(* What a run leaves on its environment: the row that names its current      *)
(* release and its last deployment, and the runtime state of its units.      *)
(*                                                                           *)
(* Ids are given in order and an active run is the last of its environment   *)
(* (Newest), so that no run tells the environment anything after a later one *)
(* has been claimed (LatestShown), and only one executor writes an           *)
(* environment's runtime state at a time (StateGoes).  Hence a plan stays as *)
(* fresh as it was made (Fresh), what a run has carried out stays as it was  *)
(* left (Reached), and the two together cover every unit of a run that       *)
(* succeeded (Deployed).                                                     *)
(*****************************************************************************)
EXTENDS DeploymentResultProofs
-----------------------------------------------------------------------------
(* How the runs of one environment follow one another.                       *)

\* Ids are given in order, and an active run is the last of its environment.
Newest ==
    \A q, r \in Run : q < r =>
        /\ run[r].status # "none" => run[q].status # "none"
        /\ run[q].status \in Active /\ run[r].env = run[q].env => run[r].status = "none"

\* what a step may do to the status and the plan of a run that exists
LEMMA RunGoes ==
    ASSUME Inv, NEW r \in Run, Agrees(r), Move(r), ~Created(r)
    PROVE  /\ PlanKept(r)
           /\ run'[r].status # run[r].status =>
                 /\ run[r].status \in Active
                 /\ run'[r].status \in Settled \cup {"running", "reconciling"}
           /\ run'[r].status = "success" /\ run[r].status # "success" =>
                 run[r].status = "running" /\ result'[r] = result[r]
           /\ \A u \in Unit : result'[r][u] \in {"pending", "skipped"} =>
                 result'[r][u] = result[r][u]
<1>1. CASE Kept(r)
  BY <1>1 DEF Kept, PlanKept
<1>2. CASE Asked(r) \/ Begun(r)
  BY <1>2 DEF Asked, Begun, Active
<1>3. CASE Withdrawn(r) \/ Restarted(r)
  BY <1>3 DEF Withdrawn, Restarted, AfterRestart, Close, Active, Settled
<1>4. CASE Confirmed(r)
  BY <1>4, RemainderType DEF Confirmed, Active, Settled
<1>5. CASE Finished(r)
  BY <1>5, RowTyped DEF Finished, Active
<1>6. CASE Failed(r)
  BY <1>6, RemainderType DEF Failed, Close, Active, Settled
<1>7. CASE Launched(r) \/ Joined(r) \/ Dropped(r)
  BY <1>7 DEF Launched, Joined, Dropped, Cell, Outcomes, PlanKept
<1> QED BY <1>1, <1>2, <1>3, <1>4, <1>5, <1>6, <1>7
        DEF Move, Same, Leaves, Turned, Returned, Drained, Counted, Ended

LEMMA NewestStep == Inv /\ Agreed /\ Newest /\ [Next]_vars => Newest'
<1> SUFFICES ASSUME Inv, Agreed, Newest, [Next]_vars, NEW q \in Run, NEW r \in Run, q < r
             PROVE  /\ run'[r].status # "none" => run'[q].status # "none"
                    /\ run'[q].status \in Active /\ run'[r].env = run'[q].env
                          => run'[r].status = "none"
  BY DEF Newest
<1>1. Move(q) /\ Move(r) /\ Agrees(q) /\ Agrees(r)
  BY Moves DEF Agreed
<1>2. /\ run[r].status # "none" => run[q].status # "none"
      /\ run[q].status \in Active /\ run[r].env = run[q].env => run[r].status = "none"
  BY DEF Newest
<1>3. CASE Created(r)
  <2>1. ~Created(q) /\ run[q].status # "none"
    BY <1>3 DEF Created
  <2> QED BY <1>1, <1>3, <2>1, RunGoes DEF Created, PlanKept, Active, Settled
<1>4. CASE ~Created(r) /\ Created(q)
  <2>1. run[r].status = "none" /\ run'[r].status = "none"
    BY <1>1, <1>2, <1>4, RunGoes DEF Created, Active
  <2> QED BY <1>4, <2>1
<1>5. CASE ~Created(r) /\ ~Created(q)
  <2>1. /\ run'[r].status = "none" <=> run[r].status = "none"
        /\ run'[q].status = "none" <=> run[q].status = "none"
        /\ run'[q].status \in Active => run[q].status \in Active
        /\ run'[q].env = run[q].env /\ run'[r].env = run[r].env
    BY <1>1, <1>5, RunGoes DEF Active, Settled, PlanKept
  <2> QED BY <1>2, <2>1
<1> QED BY <1>3, <1>4, <1>5

LEMMA NewestInvariance == Spec => []Newest
<1>1. Init => Newest
  BY DEF Init, Newest, Active
<1> QED BY <1>1, NewestStep, Invariance, AgreedInvariance, PTL DEF Spec

LEMMA OneActive ==
    ASSUME Newest, NEW q \in Run, NEW r \in Run, run[q].env = run[r].env,
           run[q].status \in Active, run[r].status \in Active
    PROVE  q = r
<1>1. q < r \/ r < q \/ q = r
  BY ConstantsAssumption DEF Run
<1> QED BY <1>1 DEF Newest, Active
-----------------------------------------------------------------------------
(* What a step writes into the environment rows.                              *)

Shown(status) == IF status = "reconciling" THEN "running" ELSE status

Told(r) ==
    LET e == run[r].env
    IN  /\ env'[e].last = Shown(run'[r].status)
        /\ env'[e].release = IF run'[r].status = "success" THEN run[r].release ELSE env[e].release
Untold(e) == env'[e].last = env[e].last /\ env'[e].release = env[e].release

Turning(r) == run[r].status \in Active /\ run'[r].status # run[r].status

\* a run that changes its status writes its environment's row, nobody else does
Reporting ==
    /\ \A r \in Run : Turning(r) => Told(r)
    /\ \A e \in Env : (\A r \in Run : run[r].env = e => ~Turning(r)) => Untold(e)

\* one run tells
LEMMA OneTells ==
    ASSUME NEW r \in Run, Turning(r), Told(r),
           \A q \in Run \ {r} : run'[q] = run[q],
           \A e \in Env \ {run[r].env} : env'[e] = env[e]
    PROVE  Reporting
BY DEF Reporting, Turning, Untold

LEMMA NobodyTells ==
    ASSUME \A r \in Run : run[r].status \in Active => run'[r].status = run[r].status,
           env' = env
    PROVE  Reporting
BY DEF Reporting, Turning, Untold

LEMMA EnvTyped == ASSUME Inv PROVE env \in [Env -> EnvRow]
BY DEF Inv, TypeOK

LEMMA ReportTells ==
    ASSUME Inv, NEW r \in Run, run[r].status \in Active, NEW status, NEW runtime,
           status # run[r].status, status # "success", status # "reconciling",
           run'[r].status = status, \A q \in Run \ {r} : run'[q] = run[q],
           env' = Report(run[r].env, runtime, status)
    PROVE  Reporting
<1>1. run[r].env \in Env
  BY DEF Inv, Control, Active
<1> DEFINE e == run[r].env
<1>2. /\ env'[e].last = status /\ env'[e].release = env[e].release
      /\ \A d \in Env \ {e} : env'[d] = env[d]
  BY <1>1, EnvTyped DEF Report, EnvRow
<1>3. Told(r)
  BY <1>2 DEF Told, Shown
<1> QED BY <1>2, <1>3, OneTells DEF Turning

LEMMA CancelQueuedReports ==
    ASSUME Inv, NEW r \in Run, CancelQueued(r)
    PROVE  Reporting
<1>1. /\ env' = Report(run[r].env, env[run[r].env].runtime, "canceled")
      /\ run[r].status = "queued" /\ run'[r].status = "canceled"
      /\ \A q \in Run \ {r} : run'[q] = run[q]
  BY CancelQueuedMoves DEF CancelQueued, Withdrawn, Alone, Same, Kept
<1> QED BY <1>1, ReportTells DEF Active

LEMMA ConfirmReports ==
    ASSUME Inv, NEW r \in Run, Confirm(r)
    PROVE  Reporting
<1> DEFINE final == Remainder(result[r])
<1>1. /\ env' = Report(run[r].env, "unknown", final)
      /\ run[r].status = "reconciling" /\ run'[r].status = final
      /\ \A q \in Run \ {r} : run'[q] = run[q]
  BY ConfirmMoves DEF Confirm, Confirmed, Alone, Same, Kept
<1>2. final \in {"partial_failed", "canceled", "all_failed"}
  BY RemainderType
<1> HIDE DEF final
<1> QED BY <1>1, <1>2, ReportTells DEF Active

LEMMA ClaimReports ==
    ASSUME Inv, NEW r \in Run, Claim(r)
    PROVE  Reporting
<1>1. CASE run[r].status = "queued" /\ task[r] = "queued"
  <2>1. /\ env' = Report(run[r].env, env[run[r].env].runtime, "running")
        /\ run' = [run EXCEPT ![r].status = "running"] /\ action' = action
    BY <1>1 DEF Claim
  <2>2. run'[r].status = "running" /\ \A q \in Run \ {r} : run'[q] = run[q]
    BY <2>1, StatusGoes
  <2> QED BY <1>1, <2>1, <2>2, ReportTells DEF Active
<1>2. CASE ~(run[r].status = "queued" /\ task[r] = "queued")
  BY <1>2, NobodyTells DEF Claim
<1> QED BY <1>1, <1>2

LEMMA FinalizeReports ==
    ASSUME Inv, NEW r \in Run, Finalize(r)
    PROVE  Reporting
<1> DEFINE e == run[r].env
           verdict == exec[r].verdict
           release == IF verdict = "success" THEN run[r].release ELSE env[e].release
           runtime == IF verdict = "success"
                      THEN IF \A u \in Unit : Manifest[run[r].release][u] = "disabled"
                           THEN "stopped" ELSE "running"
                      ELSE IF verdict = "partial_failed" THEN "partial_unhealthy"
                      ELSE "unknown"
<1>1. /\ exec[r].pc = "commit"
      /\ env' = [env EXCEPT ![e] = [release |-> release, runtime |-> runtime, last |-> verdict]]
  BY DEF Finalize
<1>2. /\ run[r].status = "running" /\ run'[r].status = verdict
      /\ \A q \in Run \ {r} : run'[q] = run[q]
  BY FinalizeMoves DEF Finished, Alone, Same, Kept
<1>3. e \in Env /\ verdict \in Settled
  BY <1>1, <1>2 DEF Inv, Control
<1> HIDE DEF runtime
<1>4. /\ env'[e].release = release /\ env'[e].last = verdict
      /\ \A d \in Env \ {e} : env'[d] = env[d]
  BY <1>1, <1>3, EnvTyped
<1>5. Told(r)
  BY <1>2, <1>3, <1>4 DEF Told, Shown, Settled
<1> QED BY <1>2, <1>3, <1>4, <1>5, OneTells DEF Turning, Settled, Active

LEMMA FailRunReports ==
    ASSUME Inv, NEW r \in Run, FailRun(r)
    PROVE  Reporting
<1>1. CASE Failable(r)
  <2> DEFINE final == Remainder(Close(r))
             runtime == IF final = "partial_failed" THEN "partial_unhealthy" ELSE "unknown"
  <2>1. /\ env' = Report(run[r].env, runtime, final)
        /\ run' = [run EXCEPT ![r].status = final] /\ action' = action
        /\ run[r].status \in {"queued", "running"}
    BY <1>1 DEF FailRun, Failable
  <2>2. final \in {"partial_failed", "canceled", "all_failed"}
    BY RemainderType
  <2> HIDE DEF final, runtime
  <2>3. run'[r].status = final /\ \A q \in Run \ {r} : run'[q] = run[q]
    BY <2>1, StatusGoes
  <2> QED BY <2>1, <2>2, <2>3, ReportTells DEF Active
<1>2. CASE ~Failable(r)
  BY <1>2, NobodyTells DEF FailRun
<1> QED BY <1>1, <1>2

\* reconcile_interrupted_runs, whose two UPDATEs of app_environments must not undo
\* each other
LEMMA StartupReports == ASSUME Inv, Newest, Startup PROVE Reporting
<1> DEFINE Has(e, status) == \E r \in Run : run[r].status = status /\ run[r].env = e
<1>1. /\ \A r \in Run : run'[r] = [run[r] EXCEPT !.status = AfterRestart(run[r].status)]
      /\ \A e \in Env : env'[e] =
            IF Has(e, "running") THEN [env[e] EXCEPT !.runtime = "unknown", !.last = "running"]
            ELSE IF Has(e, "queued") THEN [env[e] EXCEPT !.last = "canceled"]
            ELSE env[e]
  BY DEF Startup
<1>2. ASSUME NEW r \in Run PROVE run'[r].status = AfterRestart(run[r].status)
  <2>1. run[r] \in RunRow
    BY Typed
  <2> QED BY <1>1, <2>1 DEF RunRow
<1> HIDE DEF Has
<1>3. ASSUME NEW e \in Env
      PROVE  /\ env'[e].release = env[e].release
             /\ Has(e, "running") => env'[e].last = "running"
             /\ ~Has(e, "running") /\ Has(e, "queued") => env'[e].last = "canceled"
             /\ ~Has(e, "running") /\ ~Has(e, "queued") => env'[e] = env[e]
  <2>1. env[e] \in EnvRow
    BY EnvTyped
  <2> QED BY <1>1, <2>1 DEF EnvRow
<1> USE DEF Has
<1>4. ASSUME NEW r \in Run, Turning(r) PROVE Told(r)
  <2>1. run[r].status \in {"queued", "running"} /\ run[r].env \in Env
    BY <1>2, <1>4 DEF Turning, AfterRestart, Active, Inv, Control
  <2>2. CASE run[r].status = "running"
    BY <1>2, <1>3, <2>1, <2>2 DEF Told, Shown, AfterRestart
  <2>3. CASE run[r].status = "queued"
    <3>1. \A q \in Run : run[q].env = run[r].env => run[q].status # "running"
      BY <2>3, OneActive DEF Active
    <3> QED BY <1>2, <1>3, <2>1, <2>3, <3>1 DEF Told, Shown, AfterRestart
  <2> QED BY <2>1, <2>2, <2>3
<1>5. ASSUME NEW e \in Env, \A r \in Run : run[r].env = e => ~Turning(r)
      PROVE  Untold(e)
  <2>1. \A r \in Run : run[r].env = e => run[r].status \notin {"queued", "running"}
    BY <1>2, <1>5 DEF Turning, AfterRestart, Active
  <2> QED BY <1>3, <2>1 DEF Untold
<1> QED BY <1>4, <1>5 DEF Reporting

LEMMA Reports == Inv /\ Newest /\ [Next]_vars => Reporting
<1> SUFFICES ASSUME Inv, Newest, [Next]_vars PROVE Reporting
  OBVIOUS
<1>1. ASSUME NEW r \in Run, NEW e \in Env, NEW rel \in Release, NEW mode \in Modes,
             CreateRun(r, e, rel, mode)
      PROVE  Reporting
  <2>1. run[r].status = "none" /\ env' = env
    BY <1>1 DEF CreateRun
  <2>2. \A q \in Run \ {r} : run'[q] = run[q]
    BY <1>1, CreateRunMoves DEF Alone, Same, Kept
  <2> QED BY <2>1, <2>2, NobodyTells DEF Active
<1>2. ASSUME NEW r \in Run, CancelRunning(r)
      PROVE  Reporting
  <2>1. env' = env
    BY <1>2 DEF CancelRunning
  <2>2. \A q \in Run : run'[q].status = run[q].status
    BY <1>2, CancelRunningMoves DEF Asked, Alone, Same, Kept
  <2> QED BY <2>1, <2>2, NobodyTells
<1>3. ASSUME NEW r \in Run,
             \/ SignalCancel(r) \/ DropCancel(r) \/ Spawn(r) \/ Disconnect(r) \/ InternalError(r)
             \/ FailRunFails(r) \/ Cleanup(r) \/ NextWave(r) \/ EndWave(r) \/ CountResults(r)
             \/ SettlePending(r)
      PROVE  Reporting
  <2>1. run' = run /\ env' = env
    BY <1>3 DEF SignalCancel, DropCancel, Spawn, Disconnect, InternalError, FailRunFails, Cleanup,
                NextWave, EndWave, CountResults, SettlePending, dbVars
  <2> QED BY <2>1, NobodyTells
<1>4. ASSUME NEW r \in Run, NEW u \in Unit,
             \/ StartUnit(r, u) \/ JoinUnit(r, u) \/ RemoteEnds(r, u)
             \/ \E outcome \in Outcomes : UnitReturns(r, u, outcome)
      PROVE  Reporting
  <2>1. run' = run /\ env' = env
    BY <1>4 DEF StartUnit, JoinUnit, RemoteEnds, UnitReturns, dbVars
  <2> QED BY <2>1, NobodyTells
<1>5. CASE Crash \/ UNCHANGED vars
  <2>1. run' = run /\ env' = env
    BY <1>5 DEF Crash, vars, dbVars
  <2> QED BY <2>1, NobodyTells
<1>6. ASSUME NEW r \in Run, Executor(r)
      PROVE  Reporting
  BY <1>3, <1>4, <1>6, ClaimReports, FinalizeReports, FailRunReports DEF Executor
<1> QED BY <1>1, <1>2, <1>3, <1>4, <1>5, <1>6, CancelQueuedReports, ConfirmReports,
           StartupReports DEF Next
-----------------------------------------------------------------------------
(* The environment row shows its latest claimed run.                          *)

\* the runs of r's environment that came after it have not been claimed
Latest(r) ==
    /\ run[r].status \notin {"none", "queued"}
    /\ \A q \in Run : q > r /\ run[q].env = run[r].env => run[q].status \in {"none", "queued"}

LatestShown == \A r \in Run : Latest(r) => env[run[r].env].last = Shown(run[r].status)

LEMMA LatestShownStep ==
    Inv /\ Agreed /\ Newest /\ LatestShown /\ [Next]_vars => LatestShown'
<1> SUFFICES ASSUME Inv, Agreed, Newest, LatestShown, [Next]_vars,
                    NEW r \in Run, Latest(r)'
             PROVE  env'[run'[r].env].last = Shown(run'[r].status)
  BY DEF LatestShown, Shown
<1>1. Reporting /\ \A q \in Run : Move(q) /\ Agrees(q)
  BY Moves, Reports DEF Agreed
<1>2. ~Created(r) /\ run'[r].env = run[r].env
  BY <1>1, RunGoes DEF Latest, Created, PlanKept
<1>3. CASE Turning(r)
  BY <1>1, <1>2, <1>3 DEF Reporting, Told
<1>4. CASE ~Turning(r)
  <2>1. run'[r].status = run[r].status
    BY <1>1, <1>2, <1>4, RunGoes DEF Turning
  <2>2. ASSUME NEW q \in Run, run[q].env = run[r].env, Turning(q)
        PROVE  FALSE
    <3>1. ~Created(q) /\ q # r
      BY <1>4, <2>2 DEF Created, Turning, Active
    <3>2. run'[q].env = run'[r].env /\ run'[q].status \notin {"none", "queued"}
      BY <1>1, <1>2, <2>2, <3>1, RunGoes DEF PlanKept, Turning, Settled
    <3>3. CASE q > r
      BY <3>2, <3>3 DEF Latest
    <3>4. CASE q < r
      BY <2>1, <2>2, <3>4 DEF Latest, Newest, Turning
    <3> QED BY <3>1, <3>3, <3>4, ConstantsAssumption DEF Run
  <2>3. Latest(r)
    <3>1. ASSUME NEW q \in Run, q > r, run[q].env = run[r].env
          PROVE  run[q].status \in {"none", "queued"}
      <4>1. CASE Created(q)
        BY <4>1 DEF Created
      <4>2. CASE ~Created(q)
        <5>1. PlanKept(q) /\ run'[q].status = run[q].status
          BY <1>1, <2>2, <3>1, <4>2, RunGoes DEF Turning
        <5> QED BY <1>2, <3>1, <5>1 DEF Latest, PlanKept
      <4> QED BY <4>1, <4>2
    <3> QED BY <2>1, <3>1 DEF Latest
  <2>4. run[r].env \in Env
    BY <2>3 DEF Latest, Inv, Control
  <2>5. Untold(run[r].env)
    BY <1>1, <2>2, <2>4 DEF Reporting
  <2> QED BY <1>2, <2>1, <2>3, <2>5 DEF LatestShown, Untold
<1> QED BY <1>3, <1>4

LEMMA LatestShownInvariance == Spec => []LatestShown
<1>1. Init => LatestShown
  BY DEF Init, LatestShown, Latest
<1> QED BY <1>1, LatestShownStep, Invariance, AgreedInvariance, NewestInvariance, PTL DEF Spec

\* Every way to claim or end a run (claim_deployment_run, request_cancellation,
\* finalize_deployment_run, fail_run_on_internal_error, reconcile_interrupted_runs,
\* confirm_interrupted_run_stopped) writes last_deployment_status, and none of them
\* overwrites what a later run wrote.
THEOREM LatestRunIsReported == Spec => []EnvironmentReportsLatestRun
<1>1. LatestShown => EnvironmentReportsLatestRun
  BY DEF LatestShown, Latest, Shown, EnvironmentReportsLatestRun
<1> QED BY <1>1, LatestShownInvariance, PTL
-----------------------------------------------------------------------------
(* The runtime state.                                                         *)

\* Only a success joined by the executor of a running run writes it, in that run's
\* environment.
LEMMA StateGoes ==
    ASSUME Inv, Agreed, [Next]_vars, NEW e \in Env, NEW u \in Unit, state'[e][u] # state[e][u]
    PROVE  \E r \in Run : /\ run[r].env = e /\ run[r].status = "running" /\ run'[r] = run[r]
                          /\ result[r][u] = "running"
<1>1. ASSUME NEW r \in Run, NEW v \in Unit, JoinUnit(r, v)
      PROVE  /\ run[r].env = e /\ run[r].status = "running" /\ run'[r] = run[r]
             /\ result[r][u] = "running"
  <2>1. /\ exec[r].pc = "wave" /\ job[r][v] \in Outcomes /\ run' = run
        /\ state' = [state EXCEPT ![run[r].env][v] =
                        IF job[r][v] # "success" THEN @
                        ELSE IF action[r][v] = "stop" THEN "stopped"
                        ELSE Manifest[run[r].release][v]]
    BY <1>1 DEF JoinUnit, Outcomes
  <2>2. state \in [Env -> [Unit -> Version \cup {"absent", "stopped"}]]
    BY DEF Inv, TypeOK
  <2>3. run[r].env = e /\ v = u
    BY <2>1, <2>2
  <2>4. run[r].status = "running" /\ result[r][v] = "running"
    BY <2>1, RowTyped DEF Agreed, Agrees, ExecutorAgrees, WavesAgree, Outcomes, Working
  <2> QED BY <2>1, <2>3, <2>4
<1>2. \/ \E r \in Run, d \in Env, rel \in Release, mode \in Modes : CreateRun(r, d, rel, mode)
      \/ \E r \in Run :
            \/ CancelQueued(r) \/ CancelRunning(r) \/ SignalCancel(r) \/ DropCancel(r)
            \/ Disconnect(r) \/ Confirm(r) \/ InternalError(r) \/ FailRunFails(r)
      => state' = state
  BY DEF CreateRun, CancelQueued, CancelRunning, SignalCancel, DropCancel, Disconnect, Confirm,
         InternalError, FailRunFails, dbVars
<1>3. \/ \E r \in Run :
            \/ Spawn(r) \/ Claim(r) \/ NextWave(r) \/ EndWave(r) \/ SettlePending(r)
            \/ CountResults(r) \/ Finalize(r) \/ FailRun(r) \/ Cleanup(r)
            \/ \E v \in Unit : StartUnit(r, v)
      => state' = state
  BY DEF Spawn, Claim, NextWave, EndWave, SettlePending, CountResults, Finalize, FailRun, Cleanup,
         StartUnit, dbVars
<1>4. \/ \E r \in Run, v \in Unit, outcome \in Outcomes : UnitReturns(r, v, outcome)
      \/ \E r \in Run, v \in Unit : RemoteEnds(r, v)
      \/ Crash \/ Startup \/ UNCHANGED vars
      => state' = state
  BY DEF UnitReturns, RemoteEnds, Crash, Startup, vars, dbVars
<1> QED BY <1>1, <1>2, <1>3, <1>4 DEF Next, Executor

\* while a run is active, the runtime state of a unit that run does not have in
\* flight stays as it is
LEMMA StateStays ==
    ASSUME Inv, Agreed, Newest, [Next]_vars, NEW r \in Run, run[r].status \in Active,
           NEW u \in Unit, result[r][u] # "running" \/ run'[r] # run[r]
    PROVE  state'[run[r].env][u] = state[run[r].env][u]
<1>1. run[r].env \in Env
  BY DEF Inv, Control, Active
<1> QED BY <1>1, StateGoes, OneActive DEF Active

\* a plan made now would say the same of what the run has not touched
Fresh(r) ==
    run[r].status \in Active => \A u \in Unit :
        result[r][u] \in {"pending", "skipped"} =>
            action[r][u] = Classify(run[r].env, run[r].release, run[r].mode, u)

\* what the run has deployed or stopped is in the state it asked for
Reached(r) ==
    \A u \in Unit :
        /\ run[r].status # "none" => action[r][u] \in {"skip", "stop", "deploy"}
        /\ action[r][u] = "stop" => Manifest[run[r].release][u] = "disabled"
        /\ run[r].status = "running" /\ result[r][u] = "success" =>
              state[run[r].env][u] = Aim(r, u)

LEMMA FreshStep ==
    ASSUME Inv, Agreed, Newest, [Next]_vars, NEW r \in Run, Fresh(r)
    PROVE  Fresh(r)'
<1>1. Move(r) /\ Agrees(r)
  BY Moves DEF Agreed
<1>2. CASE Created(r)
  <2>1. \A u \in Unit : state'[run'[r].env][u] = state[run'[r].env][u]
    <3>1. run'[r].env \in Env
      BY <1>2, StepInv DEF Created, Inv, Control
    <3> QED BY <1>2, <3>1, StateGoes DEF Created, Active
  <2>2. \A u \in Unit : action'[r][u] = Classify(run'[r].env, run'[r].release, run'[r].mode, u)
    BY <1>2 DEF Created
  <2> QED BY <2>1, <2>2 DEF Fresh, Classify
<1>3. CASE ~Created(r)
  <2> SUFFICES ASSUME run'[r].status \in Active, NEW u \in Unit,
                      result'[r][u] \in {"pending", "skipped"}
               PROVE  action'[r][u] = Classify(run[r].env, run[r].release, run[r].mode, u)'
    BY DEF Fresh
  <2>1. /\ run[r].status \in Active /\ PlanKept(r)
        /\ result[r][u] = result'[r][u]
    BY <1>1, <1>3, RunGoes DEF Active, Settled
  <2>2. state'[run[r].env][u] = state[run[r].env][u]
    BY <2>1, StateStays
  <2>3. action[r][u] = Classify(run[r].env, run[r].release, run[r].mode, u)
    BY <2>1 DEF Fresh
  <2> QED BY <2>1, <2>2, <2>3 DEF Classify, PlanKept
<1> QED BY <1>2, <1>3

LEMMA ReachedStep ==
    ASSUME Inv, Agreed, Newest, [Next]_vars, NEW r \in Run, Reached(r)
    PROVE  Reached(r)'
<1>1. Move(r) /\ Agrees(r)
  BY Moves DEF Agreed
<1>2. CASE Created(r)
  <2>1. \A u \in Unit :
           /\ action'[r][u] \in {"skip", "stop", "deploy"}
           /\ action'[r][u] = "stop" => Manifest[run'[r].release][u] = "disabled"
    BY <1>2 DEF Created, Classify
  <2>2. run'[r].status = "queued"
    BY <1>2 DEF Created
  <2> QED BY <2>1, <2>2 DEF Reached
<1>3. CASE ~Created(r)
  <2>1. /\ PlanKept(r) /\ (run'[r].status # "none" => run[r].status # "none")
        /\ \A u \in Unit : Aim(r, u)' = Aim(r, u)
    BY <1>1, <1>3, RunGoes DEF PlanKept, Aim, Active
  <2>2. ASSUME NEW u \in Unit, run'[r].status = "running", result'[r][u] = "success"
        PROVE  state'[run[r].env][u] = Aim(r, u)
    <3>1. CASE Joined(r)
      <4>1. PICK v \in Unit :
               /\ Cell(result'[r], result[r], v, IF result[r][v] = "running" THEN job[r][v]
                                                 ELSE result[r][v])
               /\ job[r][v] = "success" => state'[run[r].env][v] = Aim(r, v)
        BY <3>1 DEF Joined
      <4>2. CASE u = v /\ result[r][v] = "running"
        BY <2>2, <4>1, <4>2 DEF Cell
      <4>3. CASE ~(u = v /\ result[r][v] = "running")
        <5>1. result[r][u] = "success" /\ run[r].status = "running"
          BY <2>2, <3>1, <4>1, <4>3 DEF Cell, Joined
        <5> QED BY <5>1, StateStays DEF Reached, Active
      <4> QED BY <4>2, <4>3
    <3>2. CASE ~Joined(r)
      <4>1. result[r][u] = "success" /\ run[r].status = "running"
        <5>1. CASE Kept(r) \/ Asked(r)
          BY <2>2, <5>1 DEF Kept, Asked
        <5>2. CASE Begun(r)
          BY <1>1, <2>2, <5>2 DEF Begun, Agrees, RowsAgree
        <5>3. CASE Launched(r) \/ Dropped(r)
          BY <1>1, <2>2, <5>3 DEF Launched, Dropped, Cell
        <5>4. CASE Settles(r)
          BY <1>1, <2>2, <5>4, RowTyped, RemainderType
          DEF Settles, Withdrawn, Confirmed, Finished, Failed, Restarted, AfterRestart, Settled
        <5> QED BY <1>1, <1>3, <3>2, <5>1, <5>2, <5>3, <5>4
                DEF Move, Settles, Same, Leaves, Turned, Returned, Drained, Counted, Ended
      <4> QED BY <4>1, StateStays DEF Reached, Active
    <3> QED BY <3>1, <3>2
  <2> QED BY <2>1, <2>2 DEF Reached, PlanKept
<1> QED BY <1>2, <1>3

LEMMA StateInvariance == Spec => [](\A r \in Run : Fresh(r) /\ Reached(r))
<1> DEFINE Stated == \A r \in Run : Fresh(r) /\ Reached(r)
<1>1. Init => Stated
  BY DEF Init, Fresh, Reached, Active
<1>2. Inv /\ Agreed /\ Newest /\ Stated /\ [Next]_vars => Stated'
  BY FreshStep, ReachedStep
<1> QED BY <1>1, <1>2, Invariance, AgreedInvariance, NewestInvariance, PTL DEF Spec

\* The plan snapshot create_run stores is not outdated before execute_run carries it
\* out: the environment is locked, and only its own run writes the runtime state.
THEOREM PlansStayFresh == Spec => []PlanStaysFresh
<1>1. (\A r \in Run : Fresh(r) /\ Reached(r)) => PlanStaysFresh
  BY DEF Fresh, PlanStaysFresh
<1> QED BY <1>1, StateInvariance, PTL
-----------------------------------------------------------------------------
(* Success of an environment.                                                 *)

Asks(rel, u, have) == IF Manifest[rel][u] = "disabled" THEN have \in {"absent", "stopped"}
                      ELSE have = Manifest[rel][u]

Deployed(e) == env[e].last = "success" => \A u \in Unit : Asks(env[e].release, u, state[e][u])

LEMMA DeployedStep ==
    ASSUME Inv, Agreed, Newest, LatestShown, [Next]_vars, NEW e \in Env, Deployed(e),
           \A r \in Run : Fresh(r) /\ Reached(r),
           \A r \in Run : OutcomeMatches(r)'
    PROVE  Deployed(e)'
<1> SUFFICES ASSUME env'[e].last = "success", NEW u \in Unit
             PROVE  Asks(env'[e].release, u, state'[e][u])
  BY DEF Deployed, Asks
<1>1. Reporting /\ \A r \in Run : Move(r) /\ Agrees(r)
  BY Moves, Reports DEF Agreed
<1>2. ASSUME NEW r \in Run, run[r].env = e, Turning(r)
      PROVE  Asks(env'[e].release, u, state'[e][u])
  <2>1. run'[r].status = "success" /\ env'[e].release = run[r].release
    BY <1>1, <1>2 DEF Reporting, Told, Shown
  <2>2. ~Created(r) /\ run[r].status = "running" /\ result'[r] = result[r] /\ run'[r] # run[r]
    BY <1>1, <1>2, <2>1, RunGoes DEF Turning, Created, Active
  <2>3. state'[e][u] = state[e][u]
    BY <1>2, <2>2, StateStays DEF Active
  <2>4. result[r][u] \in Good
    BY <2>1, <2>2 DEF OutcomeMatches
  <2>5. CASE result[r][u] = "skipped"
    <3>1. Classify(e, run[r].release, run[r].mode, u) = "skip"
      BY <1>1, <1>2, <2>2, <2>5 DEF Fresh, Agrees, RowsAgree, Active
    <3> QED BY <2>1, <2>3, <3>1 DEF Classify, Asks
  <2>6. CASE result[r][u] = "success"
    <3>1. /\ state[e][u] = Aim(r, u)
          /\ action[r][u] \in {"stop", "deploy"}
          /\ action[r][u] = "stop" => Manifest[run[r].release][u] = "disabled"
      BY <1>1, <1>2, <2>2, <2>6 DEF Reached, Agrees, RowsAgree
    <3>2. action[r][u] = "deploy" => Manifest[run[r].release][u] # "disabled"
      BY ConstantsAssumption DEF Inv, Planned
    <3> QED BY <2>1, <2>3, <3>1, <3>2 DEF Aim, Asks
  <2> QED BY <2>4, <2>5, <2>6 DEF Good
<1>3. CASE \A r \in Run : run[r].env = e => ~Turning(r)
  <2>1. env[e].last = "success" /\ env'[e].release = env[e].release
    BY <1>1, <1>3 DEF Reporting, Untold
  <2>2. state'[e][u] = state[e][u]
    <3>1. ASSUME NEW r \in Run, run[r].env = e, run[r].status = "running"
          PROVE  FALSE
      <4>1. Latest(r)
        BY <3>1 DEF Latest, Newest, Active
      <4> QED BY <2>1, <3>1, <4>1 DEF LatestShown, Shown
    <3> QED BY <3>1, StateGoes
  <2> QED BY <2>1, <2>2 DEF Deployed
<1> QED BY <1>2, <1>3

\* finalize_deployment_run moves current_app_release_id and reports success in one
\* transaction, and only when the runtime state of every unit, the skipped ones
\* included, is what that release asks for; nothing disturbs it until the next run
\* is claimed.
THEOREM CurrentIsDeployed == Spec => []CurrentReleaseIsDeployed
<1> DEFINE AllDeployed == \A e \in Env : Deployed(e)
           Stated == \A r \in Run : Fresh(r) /\ Reached(r)
           Matches == \A r \in Run : OutcomeMatches(r) /\ TaskMatches(r)
<1>1. Init => AllDeployed
  BY DEF Init, Deployed
<1>2. Inv /\ Agreed /\ Newest /\ LatestShown /\ Stated /\ Matches' /\ AllDeployed /\ [Next]_vars
      => AllDeployed'
  BY DeployedStep
<1>3. AllDeployed => CurrentReleaseIsDeployed
  BY DEF Deployed, Asks, CurrentReleaseIsDeployed
<1>4. Spec => []Stated
  BY StateInvariance
<1>5. Spec => []Matches
  BY MatchesInvariance
<1> HIDE DEF AllDeployed, Stated, Matches
<1> QED BY <1>1, <1>2, <1>3, <1>4, <1>5, Invariance, AgreedInvariance, NewestInvariance,
           LatestShownInvariance, PTL DEF Spec
=============================================================================
