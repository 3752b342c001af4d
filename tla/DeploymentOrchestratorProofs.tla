-------------------- MODULE DeploymentOrchestratorProofs --------------------
(***************************************************************************)
(* Proofs about DeploymentOrchestrator, for every value of its constants.   *)
(***************************************************************************)
EXTENDS DeploymentOrchestrator, FiniteSetTheorems, TLAPS

Working == {"loop", "wave", "settle", "count", "commit"}

\* where the executor stands agrees with the row of its run
Control ==
    \A r \in Run :
        /\ run[r].status # "none" => run[r].env \in Env /\ run[r].release \in Release
        /\ exec[r].pc = "off" <=> run[r].status = "none"
        /\ exec[r].pc \notin {"off", "gone"} => up
        /\ exec[r].pc \in Working => run[r].status = "running"
        /\ exec[r].pc = "commit" => exec[r].verdict \in Settled

\* only a wave has units in flight, and only units the plan does not skip
Planned ==
    \A r \in Run, u \in Unit :
        /\ job[r][u] # "none" => exec[r].pc = "wave" /\ action[r][u] \in {"stop", "deploy"}
        /\ result[r][u] \in Open => action[r][u] \in {"stop", "deploy"}
        /\ action[r][u] = "deploy" => Manifest[run[r].release][u] \in Version

Inv == TypeOK /\ Control /\ Planned
-----------------------------------------------------------------------------
(* The executor's record. *)

LEMMA GotoType ==
    ASSUME NEW r \in Run, exec \in [Run -> ExecutorTask],
           NEW pc \in {"loop", "settle", "count", "commit", "error", "cleanup"},
           Goto(r, pc)
    PROVE  exec' \in [Run -> ExecutorTask]
BY DEF Goto, ExecutorTask

LEMMA StatusType ==
    ASSUME run \in [Run -> RunRow], NEW r \in Run, NEW status \in Active \cup Settled
    PROVE  [run EXCEPT ![r].status = status] \in [Run -> RunRow]
BY DEF RunRow

LEMMA ReportType ==
    ASSUME env \in [Env -> EnvRow], NEW e \in Env,
           NEW runtime \in {"unknown", "running", "partial_unhealthy", "stopped"},
           NEW last \in Settled \cup {"waiting", "running"}
    PROVE  Report(e, runtime, last) \in [Env -> EnvRow]
BY DEF Report, EnvRow

\* writing one row of a table
LEMMA RowType ==
    ASSUME NEW S, NEW V, NEW r \in S, NEW f \in [S -> V], NEW x \in V
    PROVE  /\ [f EXCEPT ![r] = x] \in [S -> V]
           /\ [f EXCEPT ![r] = x][r] = x
           /\ \A q \in S \ {r} : [f EXCEPT ![r] = x][q] = f[q]
OBVIOUS

\* writing one cell of a table
LEMMA CellType ==
    ASSUME NEW S, NEW T, NEW V, NEW r \in S, NEW u \in T, NEW f \in [S -> [T -> V]], NEW x \in V
    PROVE  /\ [f EXCEPT ![r][u] = x] \in [S -> [T -> V]]
           /\ \A q \in S, v \in T :
                 [f EXCEPT ![r][u] = x][q][v] = IF q = r /\ v = u THEN x ELSE f[q][v]
OBVIOUS

\* what was held on the targets is left there
LEMMA AbandonType ==
    ASSUME NEW r \in Run, NEW f \in [Run -> [Unit -> {"none", "held", "stray", "interrupted"}]]
    PROVE  [f EXCEPT ![r] = [v \in Unit |-> IF @[v] = "held" THEN "stray" ELSE @[v]]]
              \in [Run -> [Unit -> {"none", "held", "stray", "interrupted"}]]
OBVIOUS

\* closing a run's rows leaves no unit row open
LEMMA CloseType ==
    ASSUME TypeOK, NEW r \in Run
    PROVE  /\ Close(r) \in [Unit -> ResultStatus]
           /\ \A u \in Unit : Close(r)[u] \notin Open
           /\ CloseSteps(r) \in [Unit -> {"none", "running", "success", "failed"}]
           /\ ClosePhases(r) \in [Stages -> {"none", "pending", "success", "failed", "skipped"}]
<1>1. /\ result[r] \in [Unit -> ResultStatus]
      /\ step[r] \in [Unit -> {"none", "running", "success", "failed"}]
      /\ phase[r] \in [Stages -> {"none", "pending", "success", "failed", "skipped"}]
  BY DEF TypeOK
<1>2. Close(r) \in [Unit -> ResultStatus] /\ \A u \in Unit : Close(r)[u] \notin Open
  BY <1>1 DEF Close, ResultStatus, Bad, Open
<1>3. CloseSteps(r) \in [Unit -> {"none", "running", "success", "failed"}]
  BY <1>1 DEF CloseSteps
<1>4. ClosePhases(r) \in [Stages -> {"none", "pending", "success", "failed", "skipped"}]
  BY <1>1 DEF ClosePhases
<1> QED BY <1>2, <1>3, <1>4

LEMMA GoneType == [NoExec EXCEPT !.pc = "gone"] \in ExecutorTask
BY DEF NoExec, ExecutorTask

LEMMA NoExecType == NoExec \in ExecutorTask
BY DEF NoExec, ExecutorTask
-----------------------------------------------------------------------------
(* Every action keeps Inv. *)

LEMMA InitInv == Init => Inv
<1> SUFFICES ASSUME Init PROVE Inv
  OBVIOUS
<1>1. TypeOK
  BY ConstantsAssumption, NoExecType
  DEF Init, TypeOK, RunRow, EnvRow, ResultStatus
<1>2. Control
  BY DEF Init, Control, NoExec, Working
<1>3. Planned
  BY DEF Init, Planned, Open
<1> QED BY <1>1, <1>2, <1>3 DEF Inv

LEMMA CreateRunInv ==
    ASSUME Inv, NEW r \in Run, NEW e \in Env, NEW rel \in Release, NEW mode \in Modes,
           CreateRun(r, e, rel, mode)
    PROVE  Inv'
<1> USE DEF Inv
<1>1. TypeOK'
  <2>1. \A u \in Unit : Classify(e, rel, mode, u) \in {"skip", "stop", "deploy"}
    BY DEF Classify
  <2>2. run' \in [Run -> RunRow]
    BY DEF TypeOK, RunRow, Active, CreateRun
  <2>3. result' \in [Run -> [Unit -> ResultStatus]]
    BY DEF TypeOK, ResultStatus, Good, Open, CreateRun
  <2>4. exec' \in [Run -> ExecutorTask]
    <3>1. exec \in [Run -> ExecutorTask] /\ exec' = [exec EXCEPT ![r].pc = "handler"]
      BY DEF TypeOK, CreateRun
    <3> QED BY <3>1 DEF ExecutorTask
  <2> QED BY <2>1, <2>2, <2>3, <2>4 DEF TypeOK, CreateRun
<1>2. Control'
  BY DEF TypeOK, RunRow, ExecutorTask, Control, Working, CreateRun
<1>3. Planned'
  BY ConstantsAssumption
  DEF TypeOK, RunRow, ExecutorTask, Control, Planned, Classify, Open, CreateRun
<1> QED BY <1>1, <1>2, <1>3

LEMMA SpawnInv ==
    ASSUME Inv, NEW r \in Run, Spawn(r)
    PROVE  Inv'
<1> USE DEF Inv
<1>1. TypeOK'
  <2>1. exec' \in [Run -> ExecutorTask]
    <3>1. exec \in [Run -> ExecutorTask] /\ exec' = [exec EXCEPT ![r].pc = "claim"]
      BY DEF TypeOK, Spawn
    <3> QED BY <3>1 DEF ExecutorTask
  <2> QED BY <2>1 DEF TypeOK, Spawn, dbVars
<1>2. Control'
  BY DEF TypeOK, ExecutorTask, Control, Working, Spawn, dbVars
<1>3. Planned'
  BY DEF TypeOK, ExecutorTask, Planned, Spawn, dbVars
<1> QED BY <1>1, <1>2, <1>3

LEMMA DisconnectInv ==
    ASSUME Inv, NEW r \in Run, Disconnect(r)
    PROVE  Inv'
<1> USE DEF Inv
<1>1. TypeOK'
  <2>1. exec' \in [Run -> ExecutorTask]
    <3>1. exec \in [Run -> ExecutorTask] /\ exec' = [exec EXCEPT ![r].pc = "gone"]
      BY DEF TypeOK, Disconnect
    <3> QED BY <3>1 DEF ExecutorTask
  <2> QED BY <2>1 DEF TypeOK, Disconnect, dbVars
<1>2. Control'
  BY DEF TypeOK, ExecutorTask, Control, Working, Disconnect, dbVars
<1>3. Planned'
  BY DEF TypeOK, ExecutorTask, Planned, Disconnect, dbVars
<1> QED BY <1>1, <1>2, <1>3

LEMMA CancelQueuedInv ==
    ASSUME Inv, NEW r \in Run, CancelQueued(r)
    PROVE  Inv'
<1> USE DEF Inv
<1>1. TypeOK'
  <2>1. run' \in [Run -> RunRow]
    <3> DEFINE row == [run[r] EXCEPT !.status = "canceled", !.cancel = TRUE]
    <3>1. /\ run \in [Run -> RunRow]
          /\ run' = [run EXCEPT ![r] = row]
      BY DEF TypeOK, CancelQueued
    <3>2. row \in RunRow
      <4>1. run[r] \in RunRow
        BY <3>1
      <4> QED BY <4>1 DEF RunRow, Settled
    <3> HIDE DEF row
    <3> QED BY <3>1, <3>2, RowType
  <2>2. result' \in [Run -> [Unit -> ResultStatus]]
    BY DEF TypeOK, ResultStatus, Bad, CancelQueued
  <2>3. phase' \in [Run -> [Stages -> {"none", "pending", "success", "failed", "skipped"}]]
    BY DEF TypeOK, ClosePhases, CancelQueued
  <2>4. env' \in [Env -> EnvRow]
    <3>1. run[r].env \in Env
      BY DEF Control, CancelQueued
    <3>2. env \in [Env -> EnvRow] /\ env[run[r].env].runtime \in
             {"unknown", "running", "partial_unhealthy", "stopped"}
      BY <3>1 DEF TypeOK, EnvRow
    <3> QED BY <3>1, <3>2, ReportType DEF Settled, CancelQueued
  <2> QED BY <2>1, <2>2, <2>3, <2>4 DEF TypeOK, CancelQueued
<1>2. Control'
  BY DEF TypeOK, RunRow, Control, Working, CancelQueued
<1>3. Planned'
  BY DEF TypeOK, RunRow, Planned, Open, CancelQueued
<1> QED BY <1>1, <1>2, <1>3

LEMMA CancelRunningInv ==
    ASSUME Inv, NEW r \in Run, CancelRunning(r)
    PROVE  Inv'
<1> USE DEF Inv
<1>1. TypeOK'
  <2>1. run' \in [Run -> RunRow]
    <3>1. run \in [Run -> RunRow] /\ run' = [run EXCEPT ![r].cancel = TRUE]
      BY DEF TypeOK, CancelRunning
    <3> QED BY <3>1 DEF RunRow
  <2> QED BY <2>1 DEF TypeOK, CancelRunning
<1>2. Control'
  BY DEF TypeOK, RunRow, Control, CancelRunning
<1>3. Planned'
  BY DEF TypeOK, RunRow, Planned, CancelRunning
<1> QED BY <1>1, <1>2, <1>3

LEMMA SignalCancelInv ==
    ASSUME Inv, NEW r \in Run, SignalCancel(r) \/ DropCancel(r)
    PROVE  Inv'
<1> USE DEF Inv
<1>1. TypeOK'
  BY DEF TypeOK, SignalCancel, DropCancel, Notify, dbVars
<1>2. Control'
  BY DEF Control, SignalCancel, DropCancel, dbVars
<1>3. Planned'
  BY DEF Planned, SignalCancel, DropCancel, dbVars
<1> QED BY <1>1, <1>2, <1>3

LEMMA RemainderType ==
    ASSUME NEW results PROVE Remainder(results) \in {"partial_failed", "canceled", "all_failed"}
BY DEF Remainder

LEMMA ConfirmInv ==
    ASSUME Inv, NEW r \in Run, Confirm(r)
    PROVE  Inv'
<1> USE DEF Inv
<1> DEFINE final == Remainder(result[r])
<1>0. final \in {"partial_failed", "canceled", "all_failed"}
  BY RemainderType
<1> HIDE DEF final
<1>f. /\ run' = [run EXCEPT ![r].status = final]
      /\ env' = Report(run[r].env, "unknown", final)
      /\ task' = [task EXCEPT ![r] = IF final = "canceled" THEN "canceled" ELSE "failed"]
  BY DEF Confirm, final
<1>1. TypeOK'
  <2>1. run' \in [Run -> RunRow]
    BY <1>0, <1>f, StatusType DEF TypeOK, Settled
  <2>2. env' \in [Env -> EnvRow]
    <3>1. run[r].env \in Env /\ env \in [Env -> EnvRow]
      BY DEF TypeOK, Control, Confirm
    <3> QED BY <1>0, <1>f, <3>1, ReportType DEF Settled
  <2> QED BY <1>f, <2>1, <2>2 DEF TypeOK, Confirm, memVars
<1>2. Control'
  BY <1>0, <1>f DEF TypeOK, RunRow, Control, Working, Confirm, memVars
<1>3. Planned'
  BY <1>f DEF TypeOK, RunRow, Planned, Confirm, memVars
<1> QED BY <1>1, <1>2, <1>3

LEMMA ClaimInv ==
    ASSUME Inv, NEW r \in Run, Claim(r)
    PROVE  Inv'
<1> USE DEF Inv
<1>1. CASE run[r].status = "queued" /\ task[r] = "queued"
  <2>1. /\ run[r].env \in Env
        /\ run' = [run EXCEPT ![r].status = "running"]
        /\ env' = Report(run[r].env, env[run[r].env].runtime, "running")
        /\ exec[r].pc = "claim"
        /\ signal' \in [Run -> {"none", "armed", "cancelled"}]
    BY <1>1 DEF TypeOK, Control, Claim
  <2>2. /\ exec \in [Run -> ExecutorTask]
        /\ exec' = [exec EXCEPT ![r] = [@ EXCEPT
              !.pc = "loop",
              !.todo = {u \in Unit : action[r][u] # "skip"},
              !.halt = Cancellation(r)]]
    BY <1>1 DEF TypeOK, Claim
  <2>3. TypeOK'
    <3>1. run' \in [Run -> RunRow]
      BY <2>1, StatusType DEF TypeOK, Active
    <3>2. env' \in [Env -> EnvRow]
      <4>1. env \in [Env -> EnvRow] /\ env[run[r].env].runtime \in
               {"unknown", "running", "partial_unhealthy", "stopped"}
        BY <2>1 DEF TypeOK, EnvRow
      <4> QED BY <2>1, <4>1, ReportType
    <3>3. exec' \in [Run -> ExecutorTask]
      <4> DEFINE e == [exec[r] EXCEPT !.pc = "loop",
                                      !.todo = {u \in Unit : action[r][u] # "skip"},
                                      !.halt = Cancellation(r)]
      <4>1. e \in ExecutorTask
        <5>1. exec[r] \in ExecutorTask
          BY <2>2
        <5>2. Cancellation(r) \in SUBSET {"failed", "canceled"}
          BY DEF Cancellation
        <5> QED BY <5>1, <5>2 DEF ExecutorTask
      <4>2. exec' = [exec EXCEPT ![r] = e]
        BY <2>2
      <4> HIDE DEF e
      <4> QED BY <2>2, <4>1, <4>2, RowType
    <3> QED BY <1>1, <2>1, <3>1, <3>2, <3>3 DEF TypeOK, Claim
  <2>4. /\ exec'[r].pc = "loop"
        /\ \A q \in Run \ {r} : exec'[q] = exec[q]
    BY <2>2 DEF ExecutorTask
  <2>5. /\ run'[r].status = "running" /\ run'[r].env = run[r].env /\ run'[r].release = run[r].release
        /\ \A q \in Run \ {r} : run'[q] = run[q]
    BY <2>1 DEF TypeOK, RunRow
  <2>6. Control'
    BY <1>1, <2>1, <2>4, <2>5 DEF Control, Working, Claim
  <2>7. Planned'
    BY <1>1, <2>1, <2>4, <2>5 DEF Planned, Claim
  <2> QED BY <2>3, <2>6, <2>7
<1>2. CASE ~(run[r].status = "queued" /\ task[r] = "queued")
  <2>1. Goto(r, "error") /\ UNCHANGED <<run, task, env, signal>>
    BY <1>2 DEF Claim
  <2>2. TypeOK'
    <3>1. exec' \in [Run -> ExecutorTask]
      BY <2>1, GotoType DEF TypeOK
    <3> QED BY <2>1, <3>1 DEF TypeOK, Claim
  <2>3. Control'
    BY <2>1 DEF TypeOK, ExecutorTask, Control, Working, Claim, Goto
  <2>4. Planned'
    BY <2>1 DEF TypeOK, ExecutorTask, Planned, Claim, Goto
  <2> QED BY <2>2, <2>3, <2>4
<1> QED BY <1>1, <1>2

LEMMA NextWaveInv ==
    ASSUME Inv, NEW r \in Run, NextWave(r)
    PROVE  Inv'
<1> USE DEF Inv
<1>1. exec \in [Run -> ExecutorTask] /\ exec[r].pc = "loop"
  BY DEF TypeOK, NextWave
<1>2. \E t \in ExecutorTask :
         t.pc \in {"settle", "count", "wave"} /\ exec' = [exec EXCEPT ![r] = t]
  <2> DEFINE wave == FirstWave(r, exec[r].todo)
             waving == [exec[r] EXCEPT !.pc = "wave", !.todo = exec[r].todo \ wave, !.pending = wave,
                                       !.halt = Cancellation(r)]
             halting == [exec[r] EXCEPT !.pc = "settle", !.halt = {"canceled"}]
             moving(pc) == [exec[r] EXCEPT !.pc = pc]
  <2>1. wave \in SUBSET Unit
    BY <1>1 DEF FirstWave, ExecutorTask
  <2>2. waving \in ExecutorTask /\ waving.pc = "wave"
    BY <1>1, <2>1 DEF Cancellation, ExecutorTask
  <2>3. halting \in ExecutorTask /\ halting.pc = "settle"
    BY <1>1 DEF ExecutorTask
  <2>4. \A pc \in {"settle", "count"} : moving(pc) \in ExecutorTask /\ moving(pc).pc = pc
    BY <1>1 DEF ExecutorTask
  <2>5. CASE \E pc \in {"settle", "count"} : Goto(r, pc)
    BY <2>4, <2>5 DEF Goto
  <2>6. CASE exec' = [exec EXCEPT ![r] = [@ EXCEPT !.pc = "settle", !.halt = {"canceled"}]]
    BY <2>3, <2>6
  <2>7. CASE exec' = [exec EXCEPT ![r] = [@ EXCEPT
                !.pc = "wave", !.todo = exec[r].todo \ wave, !.pending = wave, !.halt = Cancellation(r)]]
    <3> HIDE DEF wave
    <3>1. waving \in ExecutorTask /\ waving.pc = "wave"
      BY <2>2
    <3>2. exec' = [exec EXCEPT ![r] = waving]
      BY <2>7
    <3> HIDE DEF waving
    <3> QED BY <3>1, <3>2
  <2> HIDE DEF waving, halting, moving
  <2> QED BY <2>5, <2>6, <2>7 DEF NextWave
<1>3. exec' \in [Run -> ExecutorTask]
  BY <1>1, <1>2
<1>4. /\ exec'[r].pc \in {"settle", "count", "wave"}
      /\ \A q \in Run \ {r} : exec'[q] = exec[q]
  BY <1>1, <1>2
<1>5. /\ signal' \in [Run -> {"none", "armed", "cancelled"}]
      /\ UNCHANGED <<dbVars, up, job, cancelling, crashes, remote, dirty>>
  BY DEF TypeOK, NextWave
<1>6. TypeOK'
  BY <1>3, <1>5 DEF TypeOK, dbVars
<1>7. Control'
  BY <1>1, <1>4, <1>5 DEF Control, Working, dbVars
<1>8. Planned'
  BY <1>1, <1>4, <1>5 DEF Planned, dbVars
<1> QED BY <1>6, <1>7, <1>8

LEMMA StartUnitInv ==
    ASSUME Inv, NEW r \in Run, NEW u \in Unit, StartUnit(r, u)
    PROVE  Inv'
<1> USE DEF Inv
<1>1. exec \in [Run -> ExecutorTask] /\ exec[r].pc = "wave"
  BY DEF TypeOK, StartUnit, CanStart
<1>2. UNCHANGED <<run, action, task, phase, env, state, up, signal, cancelling, crashes>>
  BY DEF StartUnit
<1>3. CASE result[r][u] = "pending"
  <2>1. exec' = [exec EXCEPT ![r].pending = @ \ {u}]
    BY <1>3 DEF StartUnit
  <2>2. /\ result' = [result EXCEPT ![r][u] = "running"]
        /\ step' = [step EXCEPT ![r][u] = "running"]
        /\ job' = [job EXCEPT ![r][u] = "busy"]
        /\ remote' = [remote EXCEPT ![r][u] = "held"]
        /\ dirty' = [dirty EXCEPT ![run[r].env] = @ \cup {u}]
    BY <1>3 DEF StartUnit
  <2>3. exec' \in [Run -> ExecutorTask]
    BY <1>1, <2>1 DEF ExecutorTask
  <2>4. \A q \in Run : exec'[q].pc = exec[q].pc /\ exec'[q].verdict = exec[q].verdict
    BY <1>1, <2>1 DEF ExecutorTask
  <2>5. TypeOK'
    <3>1. result' \in [Run -> [Unit -> ResultStatus]]
      BY <2>2, CellType DEF TypeOK, ResultStatus, Open
    <3>2. dirty' \in [Env -> SUBSET Unit]
      BY <2>2 DEF TypeOK
    <3>3. /\ job' \in [Run -> [Unit -> Outcomes \cup {"none", "busy"}]]
          /\ step' \in [Run -> [Unit -> {"none", "running", "success", "failed"}]]
          /\ remote' \in [Run -> [Unit -> {"none", "held", "stray", "interrupted"}]]
      BY <2>2, CellType DEF TypeOK
    <3> QED BY <1>2, <2>3, <3>1, <3>2, <3>3 DEF TypeOK
  <2>6. Control'
    BY <1>2, <2>4 DEF Control, Working
  <2>7. Planned'
    <3>1. action[r][u] \in {"stop", "deploy"}
      BY <1>3 DEF Planned, Open
    <3>2. \A q \in Run, v \in Unit :
             /\ result'[q][v] \in Open => (q = r /\ v = u) \/ result[q][v] \in Open
             /\ job'[q][v] # "none" => (q = r /\ v = u) \/ job[q][v] # "none"
      BY <2>2, CellType DEF TypeOK
    <3> QED BY <1>1, <1>2, <2>4, <3>1, <3>2 DEF Planned
  <2> QED BY <2>5, <2>6, <2>7
<1>4. CASE result[r][u] # "pending"
  <2>1. /\ Goto(r, "error")
        /\ job' = [job EXCEPT ![r] = [v \in Unit |-> "none"]]
        /\ remote' = [remote EXCEPT ![r] = [v \in Unit |->
                         IF @[v] = "held" THEN "stray" ELSE @[v]]]
        /\ UNCHANGED <<result, step, dirty>>
    BY <1>4 DEF StartUnit
  <2>2. exec' \in [Run -> ExecutorTask]
    BY <1>1, <2>1, GotoType
  <2>3. exec'[r].pc = "error" /\ \A q \in Run \ {r} : exec'[q] = exec[q]
    BY <1>1, <2>1 DEF Goto, ExecutorTask
  <2>4. remote' \in [Run -> [Unit -> {"none", "held", "stray", "interrupted"}]]
    BY <2>1, AbandonType DEF TypeOK
  <2>5. TypeOK'
    BY <1>2, <2>1, <2>2, <2>4 DEF TypeOK
  <2>6. Control'
    BY <1>1, <1>2, <2>3 DEF Control, Working
  <2>7. Planned'
    BY <1>1, <1>2, <2>1, <2>3 DEF TypeOK, Planned
  <2> QED BY <2>5, <2>6, <2>7
<1> QED BY <1>3, <1>4

LEMMA UnitReturnsInv ==
    ASSUME Inv, NEW r \in Run, NEW u \in Unit, NEW outcome \in Outcomes,
           UnitReturns(r, u, outcome)
    PROVE  Inv'
<1> USE DEF Inv
<1>1. /\ job[r][u] = "busy"
      /\ job' = [job EXCEPT ![r][u] = outcome]
      /\ \E left \in {"none", "stray"} : remote' = [remote EXCEPT ![r][u] = left]
      /\ UNCHANGED <<dbVars, up, exec, signal, cancelling, crashes>>
  BY DEF UnitReturns
<1>2. TypeOK'
  <2>1. remote' \in [Run -> [Unit -> {"none", "held", "stray", "interrupted"}]]
    BY <1>1, CellType DEF TypeOK
  <2>2. dirty' \in [Env -> SUBSET Unit]
    BY DEF TypeOK, UnitReturns
  <2>3. job' \in [Run -> [Unit -> Outcomes \cup {"none", "busy"}]]
    BY <1>1, CellType DEF TypeOK
  <2> QED BY <1>1, <2>1, <2>2, <2>3 DEF TypeOK, dbVars
<1>3. Control'
  BY <1>1 DEF Control, dbVars
<1>4. Planned'
  <2>1. \A q \in Run, v \in Unit : job'[q][v] # "none" => job[q][v] # "none"
    BY <1>1, CellType DEF TypeOK
  <2> QED BY <1>1, <2>1 DEF Planned, dbVars
<1> QED BY <1>2, <1>3, <1>4

LEMMA JoinUnitInv ==
    ASSUME Inv, NEW r \in Run, NEW u \in Unit, JoinUnit(r, u)
    PROVE  Inv'
<1> USE DEF Inv
<1> DEFINE outcome == job[r][u]
           written == IF outcome # "success" THEN state[run[r].env][u]
                      ELSE IF action[r][u] = "stop" THEN "stopped"
                      ELSE Manifest[run[r].release][u]
<1>1. /\ exec \in [Run -> ExecutorTask]
      /\ exec[r].pc = "wave"
      /\ outcome \in {"success", "failed", "canceled_unknown"}
      /\ UNCHANGED <<run, action, task, phase, env, up, signal, cancelling, crashes,
                     remote, dirty>>
  BY DEF TypeOK, JoinUnit
<1>2. PICK halt \in SUBSET {"failed", "canceled"} : exec' = [exec EXCEPT ![r].halt = @ \cup halt]
  <2> DEFINE failed == IF outcome = "failed" THEN {"failed"} ELSE {}
             more == exec[r].pending # {} \/ Live(r) # {u}
             canceled == IF \/ outcome = "canceled_unknown"
                            \/ more /\ signal[r] = "cancelled" THEN {"canceled"} ELSE {}
  <2>1. exec' = [exec EXCEPT ![r].halt = @ \cup failed \cup canceled]
    BY DEF JoinUnit
  <2>2. failed \cup canceled \in SUBSET {"failed", "canceled"}
    OBVIOUS
  <2> HIDE DEF failed, canceled
  <2>3. exec' = [exec EXCEPT ![r].halt = @ \cup (failed \cup canceled)]
    BY <1>1, <2>1 DEF ExecutorTask
  <2> QED BY <2>2, <2>3
<1>3. exec' \in [Run -> ExecutorTask]
  BY <1>1, <1>2 DEF ExecutorTask
<1>4. \A q \in Run : exec'[q].pc = exec[q].pc /\ exec'[q].verdict = exec[q].verdict
  BY <1>1, <1>2 DEF ExecutorTask
<1>5. /\ job' = [job EXCEPT ![r][u] = "none"]
      /\ \E x \in {result[r][u], outcome} : result' = [result EXCEPT ![r][u] = x]
      /\ \E x \in {"success", "failed"} : step' = [step EXCEPT ![r][u] = x]
      /\ state' = [state EXCEPT ![run[r].env][u] = written]
  BY DEF JoinUnit
<1>6. TypeOK'
  <2>1. run[r].env \in Env /\ run[r].release \in Release
    BY <1>1 DEF Control, Working
  <2>2. result' \in [Run -> [Unit -> ResultStatus]]
    <3>1. result[r][u] \in ResultStatus /\ outcome \in ResultStatus
      BY <1>1 DEF TypeOK, ResultStatus, Good, Bad
    <3> HIDE DEF outcome
    <3> QED BY <1>5, <3>1, CellType DEF TypeOK
  <2>3. state' \in [Env -> [Unit -> Version \cup {"absent", "stopped"}]]
    <3>1. action[r][u] = "stop" \/ Manifest[run[r].release][u] \in Version
      BY <1>1 DEF Planned
    <3>2. written \in Version \cup {"absent", "stopped"}
      BY <2>1, <3>1 DEF TypeOK
    <3> HIDE DEF written
    <3> QED BY <1>5, <2>1, <3>2, CellType DEF TypeOK
  <2>4. /\ job' \in [Run -> [Unit -> Outcomes \cup {"none", "busy"}]]
        /\ step' \in [Run -> [Unit -> {"none", "running", "success", "failed"}]]
    BY <1>5, CellType DEF TypeOK
  <2> QED BY <1>1, <1>3, <2>2, <2>3, <2>4 DEF TypeOK
<1>7. Control'
  BY <1>1, <1>4 DEF Control, Working
<1>8. Planned'
  <2>1. \A q \in Run, v \in Unit :
           /\ result'[q][v] \in Open => result[q][v] \in Open
           /\ job'[q][v] # "none" => job[q][v] # "none"
    BY <1>1, <1>5, CellType DEF TypeOK, Open
  <2> QED BY <1>1, <1>4, <2>1 DEF Planned
<1> QED BY <1>6, <1>7, <1>8

LEMMA EndWaveInv ==
    ASSUME Inv, NEW r \in Run, EndWave(r)
    PROVE  Inv'
<1> USE DEF Inv
<1>1. exec \in [Run -> ExecutorTask] /\ exec[r].pc = "wave"
  BY DEF TypeOK, EndWave
<1> DEFINE e == [exec[r] EXCEPT !.pc = "loop", !.pending = {}]
<1>2. exec' = [exec EXCEPT ![r] = e]
  BY <1>1 DEF EndWave
<1>0. e \in ExecutorTask /\ e.pc = "loop"
  <2>1. exec[r] \in ExecutorTask
    BY <1>1
  <2> QED BY <2>1 DEF ExecutorTask
<1> HIDE DEF e
<1>3. exec' \in [Run -> ExecutorTask]
  BY <1>0, <1>1, <1>2, RowType
<1>4. exec'[r].pc = "loop" /\ \A q \in Run \ {r} : exec'[q] = exec[q]
  BY <1>0, <1>1, <1>2, RowType
<1>5. \A v \in Unit : job[r][v] = "none"
  BY DEF EndWave, WaveOver, Live
<1>6. TypeOK'
  BY <1>3 DEF TypeOK, EndWave, dbVars
<1>7. Control'
  BY <1>1, <1>4 DEF Control, Working, EndWave, dbVars
<1>8. Planned'
  BY <1>4, <1>5 DEF Planned, EndWave, dbVars
<1> QED BY <1>6, <1>7, <1>8

LEMMA SettlePendingInv ==
    ASSUME Inv, NEW r \in Run, SettlePending(r)
    PROVE  Inv'
<1> USE DEF Inv
<1>1. /\ exec \in [Run -> ExecutorTask]
      /\ exec[r].pc = "settle"
      /\ Goto(r, "count")
      /\ UNCHANGED <<run, action, task, phase, step, env, state,
                     up, job, signal, cancelling, crashes, remote, dirty>>
  BY DEF TypeOK, SettlePending
<1>2. exec' \in [Run -> ExecutorTask]
  BY <1>1, GotoType
<1>3. exec'[r].pc = "count" /\ \A q \in Run \ {r} : exec'[q] = exec[q]
  BY <1>1 DEF Goto, ExecutorTask
<1>4. /\ result' \in [Run -> [Unit -> ResultStatus]]
      /\ \A q \in Run, u \in Unit : result'[q][u] \in Open => result[q][u] \in Open
  BY DEF TypeOK, SettlePending, ResultStatus, Bad, Open
<1>5. TypeOK'
  BY <1>1, <1>2, <1>4 DEF TypeOK
<1>6. Control'
  BY <1>1, <1>3 DEF Control, Working
<1>7. Planned'
  BY <1>1, <1>3, <1>4 DEF Planned
<1> QED BY <1>5, <1>6, <1>7

LEMMA VerdictType ==
    ASSUME NEW r, NEW canceled
    PROVE  Verdict(r, canceled) \in {"success", "partial_failed", "canceled", "all_failed"}
BY DEF Verdict

LEMMA CountResultsInv ==
    ASSUME Inv, NEW r \in Run, CountResults(r)
    PROVE  Inv'
<1> USE DEF Inv
<1> DEFINE verdict == Verdict(r, "canceled" \in exec[r].halt)
<1>1. verdict \in Settled
  BY VerdictType DEF Settled
<1>2. /\ exec \in [Run -> ExecutorTask]
      /\ exec[r].pc = "count"
      /\ exec' = [exec EXCEPT ![r] = [@ EXCEPT !.pc = "commit", !.verdict = verdict]]
      /\ UNCHANGED <<dbVars, up, job, signal, cancelling, crashes, remote, dirty>>
  BY DEF TypeOK, CountResults
<1> HIDE DEF verdict
<1> DEFINE e == [exec[r] EXCEPT !.pc = "commit", !.verdict = verdict]
<1>0. e \in ExecutorTask /\ e.pc = "commit" /\ e.verdict = verdict
  <2>1. exec[r] \in ExecutorTask
    BY <1>2
  <2> QED BY <1>1, <2>1 DEF ExecutorTask
<1>a. exec' = [exec EXCEPT ![r] = e]
  BY <1>2
<1> HIDE DEF e
<1>3. exec' \in [Run -> ExecutorTask]
  BY <1>0, <1>2, <1>a, RowType
<1>4. /\ exec'[r].pc = "commit" /\ exec'[r].verdict = verdict
      /\ \A q \in Run \ {r} : exec'[q] = exec[q]
  BY <1>0, <1>2, <1>a, RowType
<1>5. TypeOK'
  BY <1>2, <1>3 DEF TypeOK, dbVars
<1>6. Control'
  BY <1>1, <1>2, <1>4 DEF Control, Working, dbVars
<1>7. Planned'
  BY <1>2, <1>4 DEF Planned, dbVars
<1> QED BY <1>5, <1>6, <1>7

LEMMA FinalizeInv ==
    ASSUME Inv, NEW r \in Run, Finalize(r)
    PROVE  Inv'
<1> USE DEF Inv
<1> DEFINE verdict == exec[r].verdict
<1>1. /\ exec \in [Run -> ExecutorTask]
      /\ exec[r].pc = "commit"
      /\ Goto(r, "cleanup")
      /\ run' = [run EXCEPT ![r].status = IF @ = "running" THEN verdict ELSE @]
      /\ UNCHANGED <<action, result, step, state, up, job, signal, cancelling, crashes,
                     remote, dirty>>
  BY DEF TypeOK, Finalize
<1>2. /\ verdict \in Settled
      /\ run[r].status = "running"
      /\ run[r].env \in Env /\ run[r].release \in Release
  BY <1>1 DEF Control, Working
<1>3. exec' \in [Run -> ExecutorTask]
  BY <1>1, GotoType
<1>4. exec'[r].pc = "cleanup" /\ \A q \in Run \ {r} : exec'[q] = exec[q]
  BY <1>1 DEF Goto, ExecutorTask
<1>5. run' = [run EXCEPT ![r].status = verdict]
  BY <1>1, <1>2 DEF TypeOK, RunRow
<1>6. TypeOK'
  <2>1. run' \in [Run -> RunRow]
    BY <1>2, <1>5, StatusType DEF TypeOK
  <2>2. task' \in [Run -> {"none", "queued", "running", "success", "failed", "canceled"}]
    BY DEF TypeOK, Finalize, TaskVerdict
  <2>3. phase' \in [Run -> [Stages -> {"none", "pending", "success", "failed", "skipped"}]]
    BY DEF TypeOK, Finalize, StageResult
  <2>4. env' \in [Env -> EnvRow]
    <3> DEFINE row == [release |-> IF verdict = "success" THEN run[r].release
                                   ELSE env[run[r].env].release,
                       runtime |-> IF verdict = "success"
                                   THEN IF \A u \in Unit : Manifest[run[r].release][u] = "disabled"
                                        THEN "stopped" ELSE "running"
                                   ELSE IF verdict = "partial_failed" THEN "partial_unhealthy"
                                   ELSE "unknown",
                       last    |-> verdict]
    <3>1. env \in [Env -> EnvRow] /\ env' = [env EXCEPT ![run[r].env] = row]
      BY <1>2 DEF TypeOK, Finalize
    <3>2. row \in EnvRow
      BY <1>2, <3>1 DEF EnvRow
    <3> HIDE DEF row
    <3> QED BY <1>2, <3>1, <3>2
  <2> QED BY <1>1, <1>3, <2>1, <2>2, <2>3, <2>4 DEF TypeOK
<1>7. /\ run'[r].status = verdict /\ run'[r].env = run[r].env /\ run'[r].release = run[r].release
      /\ \A q \in Run \ {r} : run'[q] = run[q]
  BY <1>5 DEF TypeOK, RunRow
<1>8. Control'
  BY <1>1, <1>2, <1>4, <1>7 DEF Control, Working, Settled
<1>9. Planned'
  BY <1>1, <1>4, <1>7 DEF Planned
<1> QED BY <1>6, <1>8, <1>9

LEMMA InternalErrorInv ==
    ASSUME Inv, NEW r \in Run, InternalError(r)
    PROVE  Inv'
<1> USE DEF Inv
<1>1. /\ exec \in [Run -> ExecutorTask]
      /\ exec[r].pc \in {"claim", "loop", "wave", "settle", "count", "commit"}
      /\ Goto(r, "error")
      /\ job' = [job EXCEPT ![r] = [u \in Unit |-> "none"]]
      /\ remote' = [remote EXCEPT ![r] = [u \in Unit |->
                       IF @[u] = "held" THEN "stray" ELSE @[u]]]
      /\ UNCHANGED <<dbVars, up, signal, cancelling, crashes, dirty>>
  BY DEF TypeOK, InternalError, Goto
<1>2. exec' \in [Run -> ExecutorTask]
  BY <1>1, GotoType
<1>3. exec'[r].pc = "error" /\ \A q \in Run \ {r} : exec'[q] = exec[q]
  BY <1>1 DEF Goto, ExecutorTask
<1>4. TypeOK'
  <2>1. remote' \in [Run -> [Unit -> {"none", "held", "stray", "interrupted"}]]
    BY <1>1, AbandonType DEF TypeOK
  <2>2. job' \in [Run -> [Unit -> Outcomes \cup {"none", "busy"}]]
    BY <1>1 DEF TypeOK
  <2> QED BY <1>1, <1>2, <2>1, <2>2 DEF TypeOK, dbVars
<1>5. Control'
  BY <1>1, <1>3 DEF Control, Working, dbVars
<1>6. Planned'
  BY <1>1, <1>3 DEF TypeOK, Planned, dbVars
<1> QED BY <1>4, <1>5, <1>6

\* fail_run_on_internal_error, whether it succeeds, has nothing to do, or fails as well
LEMMA FailRunInv ==
    ASSUME Inv, NEW r \in Run, FailRun(r) \/ FailRunFails(r)
    PROVE  Inv'
<1> USE DEF Inv
<1>1. /\ exec \in [Run -> ExecutorTask]
      /\ exec[r].pc = "error"
      /\ Goto(r, "cleanup")
      /\ UNCHANGED <<action, state, up, job, signal, cancelling, crashes, remote, dirty>>
  BY DEF TypeOK, FailRun, FailRunFails, dbVars
<1>2. exec' \in [Run -> ExecutorTask]
  BY <1>1, GotoType
<1>3. exec'[r].pc = "cleanup" /\ \A q \in Run \ {r} : exec'[q] = exec[q]
  BY <1>1 DEF Goto, ExecutorTask
<1>4. CASE UNCHANGED <<run, result, task, phase, step, env>>
  <2>1. TypeOK'
    BY <1>1, <1>2, <1>4 DEF TypeOK
  <2>2. Control'
    BY <1>1, <1>3, <1>4 DEF Control, Working
  <2>3. Planned'
    BY <1>1, <1>3, <1>4 DEF Planned
  <2> QED BY <2>1, <2>2, <2>3
<1>5. CASE FailRun(r) /\ Failable(r)
  <2> DEFINE final == Remainder(Close(r))
  <2>1. final \in {"partial_failed", "canceled", "all_failed"}
    BY RemainderType
  <2>2. /\ run' = [run EXCEPT ![r].status = final]
        /\ \E runtime \in {"unknown", "partial_unhealthy"} :
              env' = Report(run[r].env, runtime, final)
        /\ result' = [result EXCEPT ![r] = Close(r)]
    BY <1>5 DEF FailRun
  <2>3. run[r].status \in {"queued", "running"} /\ run[r].env \in Env
    BY <1>5 DEF Failable, Control
  <2>4. TypeOK'
    <3>1. run' \in [Run -> RunRow]
      BY <2>1, <2>2, StatusType DEF TypeOK, Settled
    <3>2. env' \in [Env -> EnvRow]
      <4>1. final \in Settled \cup {"waiting", "running"} /\ env \in [Env -> EnvRow]
        BY <2>1 DEF TypeOK, Settled
      <4> HIDE DEF final
      <4> QED BY <2>2, <2>3, <4>1, ReportType
    <3>3. result' \in [Run -> [Unit -> ResultStatus]]
      BY <2>2, CloseType DEF TypeOK
    <3>4. step' \in [Run -> [Unit -> {"none", "running", "success", "failed"}]]
      <4>1. step' = [step EXCEPT ![r] = CloseSteps(r)]
        BY <1>5 DEF FailRun
      <4> QED BY <4>1, CloseType DEF TypeOK
    <3>5. phase' \in [Run -> [Stages -> {"none", "pending", "success", "failed", "skipped"}]]
      <4>1. phase' = [phase EXCEPT ![r] = ClosePhases(r)]
        BY <1>5 DEF FailRun
      <4> QED BY <4>1, CloseType DEF TypeOK
    <3>6. task' \in [Run -> {"none", "queued", "running", "success", "failed", "canceled"}]
      <4> DEFINE t == IF task[r] \notin {"queued", "running"} THEN task[r]
                      ELSE IF final = "canceled" THEN "canceled" ELSE "failed"
      <4>1. t \in {"none", "queued", "running", "success", "failed", "canceled"}
        BY DEF TypeOK
      <4>2. task' = [task EXCEPT ![r] = t]
        BY <1>5 DEF FailRun
      <4> HIDE DEF t
      <4> QED BY <4>1, <4>2, RowType DEF TypeOK
    <3> QED BY <1>1, <1>2, <3>1, <3>2, <3>3, <3>4, <3>5, <3>6 DEF TypeOK
  <2> HIDE DEF final
  <2>5. /\ run'[r].status = final /\ run'[r].env = run[r].env /\ run'[r].release = run[r].release
        /\ \A q \in Run \ {r} : run'[q] = run[q]
    BY <2>2 DEF TypeOK, RunRow
  <2>6. Control'
    BY <1>1, <1>3, <2>1, <2>3, <2>5 DEF Control, Working
  <2>7. Planned'
    <3>1. \A q \in Run, u \in Unit : result'[q][u] \in Open => result[q][u] \in Open
      BY <2>2 DEF TypeOK, Close, Open
    <3> QED BY <1>1, <1>3, <2>5, <3>1 DEF Planned
  <2> QED BY <2>4, <2>6, <2>7
<1> QED BY <1>4, <1>5 DEF FailRun, FailRunFails, dbVars

LEMMA CleanupInv ==
    ASSUME Inv, NEW r \in Run, Cleanup(r)
    PROVE  Inv'
<1> USE DEF Inv
<1>1. /\ exec \in [Run -> ExecutorTask]
      /\ exec[r].pc = "cleanup"
      /\ exec' = [exec EXCEPT ![r] = [NoExec EXCEPT !.pc = "gone"]]
      /\ signal' \in [Run -> {"none", "armed", "cancelled"}]
      /\ UNCHANGED <<dbVars, up, job, cancelling, crashes, remote, dirty>>
  BY DEF TypeOK, Cleanup
<1>2. [NoExec EXCEPT !.pc = "gone"].pc = "gone"
  BY DEF NoExec
<1>3. exec' \in [Run -> ExecutorTask]
  BY <1>1, GoneType
<1>4. exec'[r].pc = "gone" /\ \A q \in Run \ {r} : exec'[q] = exec[q]
  BY <1>1, <1>2
<1>5. TypeOK'
  BY <1>1, <1>3 DEF TypeOK, dbVars
<1>6. Control'
  BY <1>1, <1>4 DEF Control, Working, dbVars
<1>7. Planned'
  BY <1>1, <1>4 DEF Planned, dbVars
<1> QED BY <1>5, <1>6, <1>7

LEMMA CrashInv == ASSUME Inv, Crash PROVE Inv'
<1> USE DEF Inv
<1>1. exec' = [r \in Run |-> IF exec[r].pc = "off" THEN NoExec ELSE [NoExec EXCEPT !.pc = "gone"]]
  BY DEF Crash
<1>2. exec' \in [Run -> ExecutorTask]
  BY <1>1, NoExecType, GoneType
<1>3. \A r \in Run : exec'[r].pc = IF exec[r].pc = "off" THEN "off" ELSE "gone"
  BY <1>1 DEF NoExec
<1>4. TypeOK'
  <2>1. remote' \in [Run -> [Unit -> {"none", "held", "stray", "interrupted"}]]
    BY DEF TypeOK, Crash
  <2>2. crashes' \in 0 .. MaxCrashes
    BY ConstantsAssumption DEF TypeOK, Crash
  <2> QED BY <1>2, <2>1, <2>2 DEF TypeOK, Crash, dbVars
<1>5. Control'
  BY <1>3 DEF Control, Working, Crash, dbVars
<1>6. Planned'
  BY DEF Planned, Crash, dbVars
<1> QED BY <1>4, <1>5, <1>6

LEMMA StartupInv == ASSUME Inv, Startup PROVE Inv'
<1> USE DEF Inv
<1> DEFINE interrupted == {r \in Run : run[r].status \in {"queued", "running"}}
<1>1. /\ run' = [r \in Run |-> [run[r] EXCEPT !.status = AfterRestart(run[r].status)]]
      /\ up' = TRUE
      /\ UNCHANGED <<action, state, exec, job, signal, cancelling, crashes, remote, dirty>>
  BY DEF Startup, memVars
<1>2. \A r \in Run :
         /\ run'[r] \in RunRow
         /\ run'[r].env = run[r].env /\ run'[r].release = run[r].release
         /\ run'[r].status = AfterRestart(run[r].status)
  <2>1. \A r \in Run : run[r] \in RunRow
    BY DEF TypeOK
  <2>2. \A r \in Run : AfterRestart(run[r].status) \in Active \cup Settled \cup {"none"}
    BY <2>1 DEF RunRow, AfterRestart, Active, Settled
  <2>3. \A r \in Run : run'[r] = [run[r] EXCEPT !.status = AfterRestart(run[r].status)]
    BY <1>1
  <2>4. ASSUME NEW row \in RunRow, NEW status \in Active \cup Settled \cup {"none"}
        PROVE  /\ [row EXCEPT !.status = status] \in RunRow
               /\ [row EXCEPT !.status = status].env = row.env
               /\ [row EXCEPT !.status = status].release = row.release
               /\ [row EXCEPT !.status = status].status = status
    BY DEF RunRow
  <2>5. TAKE r \in Run
  <2>6. /\ run[r] \in RunRow
        /\ AfterRestart(run[r].status) \in Active \cup Settled \cup {"none"}
        /\ run'[r] = [run[r] EXCEPT !.status = AfterRestart(run[r].status)]
    BY <2>1, <2>2, <2>3
  <2> HIDE DEF Inv
  <2> QED BY <2>4, <2>6
<1>3. /\ result' \in [Run -> [Unit -> ResultStatus]]
      /\ \A r \in Run, u \in Unit : result'[r][u] \in Open => result[r][u] \in Open
  <2>1. result' = [r \in Run |-> IF r \in interrupted THEN Close(r) ELSE result[r]]
    BY DEF Startup
  <2> QED BY <2>1, CloseType DEF TypeOK
<1>4. TypeOK'
  <2>1. step' \in [Run -> [Unit -> {"none", "running", "success", "failed"}]]
    BY CloseType DEF TypeOK, Startup
  <2>2. phase' \in [Run -> [Stages -> {"none", "pending", "success", "failed", "skipped"}]]
    BY CloseType DEF TypeOK, Startup
  <2>3. task' \in [Run -> {"none", "queued", "running", "success", "failed", "canceled"}]
    BY DEF TypeOK, Startup
  <2>4. env' \in [Env -> EnvRow]
    <3>1. \A e \in Env :
             /\ [env[e] EXCEPT !.runtime = "unknown", !.last = "running"] \in EnvRow
             /\ [env[e] EXCEPT !.last = "canceled"] \in EnvRow
             /\ env[e] \in EnvRow
      <4>1. \A e \in Env : env[e] \in EnvRow
        BY DEF TypeOK
      <4>2. \A row \in EnvRow : /\ [row EXCEPT !.runtime = "unknown", !.last = "running"] \in EnvRow
                               /\ [row EXCEPT !.last = "canceled"] \in EnvRow
        BY DEF EnvRow, Settled
      <4> QED BY <4>1, <4>2
    <3> QED BY <3>1 DEF Startup
  <2>5. run' \in [Run -> RunRow]
    BY <1>1, <1>2
  <2> QED BY <1>1, <1>3, <2>1, <2>2, <2>3, <2>4, <2>5 DEF TypeOK
<1>5. Control'
  <2>1. \A r \in Run : exec[r].pc \in {"off", "gone"}
    BY DEF Control, Startup
  <2> QED BY <1>1, <1>2, <2>1 DEF Control, Working, AfterRestart
<1>6. Planned'
  BY <1>1, <1>2, <1>3 DEF Planned
<1> QED BY <1>4, <1>5, <1>6

LEMMA RemoteEndsInv ==
    ASSUME Inv, NEW r \in Run, NEW u \in Unit, RemoteEnds(r, u)
    PROVE  Inv'
<1> USE DEF Inv
<1>1. /\ remote' = [remote EXCEPT ![r][u] = "none"]
      /\ UNCHANGED <<dbVars, up, memVars, crashes, dirty>>
  BY DEF RemoteEnds
<1>2. TypeOK'
  BY <1>1, CellType DEF TypeOK, dbVars, memVars
<1>3. Control'
  BY <1>1 DEF Control, dbVars, memVars
<1>4. Planned'
  BY <1>1 DEF Planned, dbVars, memVars
<1> QED BY <1>2, <1>3, <1>4

LEMMA StepInv == Inv /\ [Next]_vars => Inv'
<1> SUFFICES ASSUME Inv, [Next]_vars PROVE Inv'
  OBVIOUS
<1>1. ASSUME NEW r \in Run, NEW e \in Env, NEW rel \in Release, NEW mode \in Modes,
             CreateRun(r, e, rel, mode)
      PROVE  Inv'
  BY <1>1, CreateRunInv
<1>2. ASSUME NEW r \in Run,
             \/ CancelQueued(r) \/ CancelRunning(r) \/ SignalCancel(r) \/ DropCancel(r)
             \/ Disconnect(r) \/ Confirm(r)
      PROVE  Inv'
  BY <1>2, CancelQueuedInv, CancelRunningInv, SignalCancelInv, DisconnectInv, ConfirmInv
<1>3. ASSUME NEW r \in Run, Executor(r)
      PROVE  Inv'
  BY <1>3, SpawnInv, ClaimInv, NextWaveInv, EndWaveInv, SettlePendingInv, CountResultsInv,
     FinalizeInv, FailRunInv, CleanupInv, StartUnitInv, JoinUnitInv DEF Executor
<1>4. ASSUME NEW r \in Run, InternalError(r) \/ FailRunFails(r)
      PROVE  Inv'
  BY <1>4, InternalErrorInv, FailRunInv
<1>5. ASSUME NEW r \in Run, NEW u \in Unit,
             RemoteEnds(r, u) \/ \E outcome \in Outcomes : UnitReturns(r, u, outcome)
      PROVE  Inv'
  BY <1>5, RemoteEndsInv, UnitReturnsInv
<1>6. CASE Crash \/ Startup
  BY <1>6, CrashInv, StartupInv
<1>7. CASE UNCHANGED vars
  BY <1>7 DEF Inv, TypeOK, Control, Planned, vars
<1> QED BY <1>1, <1>2, <1>3, <1>4, <1>5, <1>6, <1>7 DEF Next

LEMMA Invariance == Spec => []Inv
<1> QED BY InitInv, StepInv, PTL DEF Spec

\* The database rows stay within their CHECK constraints and the executor within its
\* program, however many environments, units, runs and restarts there are.
THEOREM TypeCorrect == Spec => []TypeOK
<1>1. Inv => TypeOK
  BY DEF Inv
<1> QED BY <1>1, Invariance, PTL
-----------------------------------------------------------------------------
(* The orchestrator implements EnvironmentLease: every step is a step of the *)
(* lease or leaves it alone.                                                 *)

\* a step that gives one run another status
LEMMA StatusMove ==
    ASSUME Inv, Inv', NEW r \in Run, NEW status \in Active \cup Settled,
           run' = [run EXCEPT ![r].status = status]
    PROVE  /\ Life' = [Life EXCEPT ![r] = LifeOf(status)]
           /\ Where' = Where
           /\ What' = What
<1>1. /\ run'[r].status = status /\ run'[r].env = run[r].env /\ run'[r].release = run[r].release
      /\ \A q \in Run \ {r} : run'[q] = run[q]
  BY DEF Inv, TypeOK, RunRow
<1>2. Life' = [Life EXCEPT ![r] = LifeOf(status)]
  BY <1>1 DEF Life, LifeOf
<1>3. Where' = Where /\ What' = What
  BY <1>1 DEF Where, What
<1> QED BY <1>2, <1>3

\* Report leaves the environment's release alone
LEMMA ReportKeepsRelease ==
    ASSUME Inv, NEW e \in Env, NEW runtime, NEW last, env' = Report(e, runtime, last)
    PROVE  Current' = Current
<1>1. env \in [Env -> EnvRow]
  BY DEF Inv, TypeOK
<1>2. \A f \in Env : env'[f].release = env[f].release
  BY <1>1 DEF Report, EnvRow
<1> QED BY <1>2 DEF Current

LEMMA InitLease == Init => Lease!Init
<1> SUFFICES ASSUME Init PROVE Lease!Init
  OBVIOUS
<1>1. Life = [r \in Run |-> "new"]
  BY DEF Init, Life, LifeOf
<1>2. Where = [r \in Run |-> "none"] /\ What = [r \in Run |-> "never"]
  BY DEF Init, Where, What
<1>3. Current = [e \in Env |-> "never"]
  BY DEF Init, Current
<1> QED BY <1>1, <1>2, <1>3 DEF Lease!Init

LEMMA CreateRunLease ==
    ASSUME Inv, Inv', NEW r \in Run, NEW e \in Env, NEW rel \in Release, NEW mode \in Modes,
           CreateRun(r, e, rel, mode)
    PROVE  Lease!Acquire(r, e, rel)
<1>1. /\ run[r].status = "none" /\ UNCHANGED env
      /\ run' = [run EXCEPT ![r] = [env |-> e, release |-> rel, mode |-> mode,
                                    status |-> "queued", cancel |-> FALSE]]
      /\ run \in [Run -> RunRow]
  BY DEF CreateRun, Inv, TypeOK
<1>2. Life' = [Life EXCEPT ![r] = "waiting"] /\ Life[r] = "new"
  BY <1>1 DEF Life, LifeOf
<1>3. Where' = [Where EXCEPT ![r] = e] /\ What' = [What EXCEPT ![r] = rel]
  BY <1>1 DEF Where, What
<1>4. \A q \in Run : Where[q] = e => Life[q] \notin Lease!Holding
  BY DEF CreateRun, Unlocked, Where, Life, LifeOf, Active, Lease!Holding
<1> QED BY <1>1, <1>2, <1>3, <1>4 DEF Lease!Acquire, Current

LEMMA ClaimLease ==
    ASSUME Inv, Inv', NEW r \in Run, Claim(r)
    PROVE  Lease!Begin(r) \/ UNCHANGED Lease!leaseVars
<1>1. CASE run[r].status = "queued" /\ task[r] = "queued"
  <2>1. /\ run' = [run EXCEPT ![r].status = "running"]
        /\ env' = Report(run[r].env, env[run[r].env].runtime, "running")
        /\ run[r].env \in Env
    BY <1>1 DEF Claim, Inv, Control
  <2>2. Life' = [Life EXCEPT ![r] = "working"] /\ Where' = Where /\ What' = What
    BY <2>1, StatusMove DEF LifeOf, Active
  <2>3. Life[r] = "waiting" /\ Current' = Current
    BY <1>1, <2>1, ReportKeepsRelease DEF Life, LifeOf
  <2> QED BY <2>2, <2>3 DEF Lease!Begin
<1>2. CASE ~(run[r].status = "queued" /\ task[r] = "queued")
  BY <1>2 DEF Claim, Lease!leaseVars, Life, Where, What, Current
<1> QED BY <1>1, <1>2

\* the ways to end a run that do not change the environment's release
LEMMA GiveUpLease ==
    ASSUME Inv, Inv', NEW r \in Run, NEW final \in Settled, run[r].status \in Active,
           run' = [run EXCEPT ![r].status = final], Current' = Current
    PROVE  Lease!GiveUp(r)
<1>1. /\ Life' = [Life EXCEPT ![r] = LifeOf(final)]
      /\ Where' = Where /\ What' = What
  BY StatusMove
<1>2. LifeOf(final) = "over"
  BY DEF LifeOf, Settled
<1>3. Life[r] \in Lease!Holding
  BY DEF Life, LifeOf, Active, Lease!Holding
<1> QED BY <1>1, <1>2, <1>3 DEF Lease!GiveUp

LEMMA ConfirmLease ==
    ASSUME Inv, Inv', NEW r \in Run, Confirm(r)
    PROVE  Lease!GiveUp(r)
<1>1. PICK final \in Settled :
         /\ run' = [run EXCEPT ![r].status = final]
         /\ env' = Report(run[r].env, "unknown", final)
  BY RemainderType DEF Confirm, Settled
<1>2. run[r].status \in Active /\ run[r].env \in Env
  BY DEF Confirm, Active, Inv, Control
<1>3. Current' = Current
  BY <1>1, <1>2, ReportKeepsRelease
<1> QED BY <1>1, <1>2, <1>3, GiveUpLease

LEMMA FailRunLease ==
    ASSUME Inv, Inv', NEW r \in Run, FailRun(r)
    PROVE  Lease!GiveUp(r) \/ UNCHANGED Lease!leaseVars
<1>1. CASE Failable(r)
  <2>1. PICK final \in Settled, runtime \in {"unknown", "partial_unhealthy"} :
         /\ run' = [run EXCEPT ![r].status = final]
         /\ env' = Report(run[r].env, runtime, final)
    BY <1>1, RemainderType DEF FailRun, Settled
  <2>2. run[r].status \in Active /\ run[r].env \in Env
    BY <1>1 DEF Failable, Active, Inv, Control
  <2>3. Current' = Current
    BY <2>1, <2>2, ReportKeepsRelease
  <2> QED BY <2>1, <2>2, <2>3, GiveUpLease
<1>2. CASE ~Failable(r)
  BY <1>2 DEF FailRun, Lease!leaseVars, Life, Where, What, Current
<1> QED BY <1>1, <1>2

LEMMA CancelLease ==
    ASSUME Inv, Inv', NEW r \in Run, CancelQueued(r) \/ CancelRunning(r)
    PROVE  Lease!GiveUp(r) \/ UNCHANGED Lease!leaseVars
<1>1. run \in [Run -> RunRow] /\ run[r].env \in Env
  BY DEF CancelQueued, CancelRunning, Inv, TypeOK, Control
<1>2. CASE CancelQueued(r)
  <2>1. /\ run' = [run EXCEPT ![r] = [@ EXCEPT !.status = "canceled", !.cancel = TRUE]]
        /\ env' = Report(run[r].env, env[run[r].env].runtime, "canceled")
        /\ run[r].status = "queued"
    BY <1>2 DEF CancelQueued
  <2>2. /\ run'[r].status = "canceled" /\ run'[r].env = run[r].env
        /\ run'[r].release = run[r].release
        /\ \A q \in Run \ {r} : run'[q] = run[q]
    BY <1>1, <2>1 DEF RunRow
  <2>3. Life' = [Life EXCEPT ![r] = "over"] /\ Life[r] \in Lease!Holding
    BY <2>1, <2>2 DEF Life, LifeOf, Lease!Holding
  <2>4. Where' = Where /\ What' = What
    BY <2>2 DEF Where, What
  <2>5. Current' = Current
    BY <1>1, <2>1, ReportKeepsRelease
  <2> QED BY <2>3, <2>4, <2>5 DEF Lease!GiveUp
<1>3. CASE CancelRunning(r)
  <2>1. \A q \in Run : /\ run'[q].status = run[q].status
                       /\ run'[q].env = run[q].env
                       /\ run'[q].release = run[q].release
    BY <1>1, <1>3 DEF CancelRunning, RunRow
  <2>2. UNCHANGED env
    BY <1>3 DEF CancelRunning
  <2> QED BY <2>1, <2>2 DEF Lease!leaseVars, Life, Where, What, Current
<1> QED BY <1>2, <1>3

LEMMA FinalizeLease ==
    ASSUME Inv, Inv', NEW r \in Run, Finalize(r)
    PROVE  Lease!Succeed(r) \/ Lease!GiveUp(r)
<1> DEFINE verdict == exec[r].verdict
           e == run[r].env
<1>1. /\ exec[r].pc = "commit"
      /\ verdict \in Settled
      /\ run[r].status = "running"
      /\ e \in Env
      /\ run \in [Run -> RunRow] /\ env \in [Env -> EnvRow]
  BY DEF Finalize, Inv, Control, TypeOK, Working
<1>2. run' = [run EXCEPT ![r].status = verdict]
  <2>1. run' = [run EXCEPT ![r].status = IF @ = "running" THEN verdict ELSE @]
    BY DEF Finalize
  <2> QED BY <1>1, <2>1 DEF RunRow
<1>3. /\ \A f \in Env \ {e} : env'[f] = env[f]
      /\ env'[e].release = IF verdict = "success" THEN run[r].release ELSE env[e].release
  BY <1>1 DEF Finalize
<1> HIDE DEF verdict, e
<1>4. CASE verdict = "success"
  <2>1. Life' = [Life EXCEPT ![r] = "over"] /\ Where' = Where /\ What' = What
    <3>1. LifeOf(verdict) = "over"
      BY <1>4 DEF LifeOf
    <3> QED BY <1>1, <1>2, <3>1, StatusMove
  <2>2. Life[r] = "working"
    BY <1>1 DEF Life, LifeOf
  <2>3. Where[r] = e /\ What[r] = run[r].release
    BY DEF Where, What, e
  <2>4. Current' = [Current EXCEPT ![e] = What[r]]
    BY <1>1, <1>3, <1>4, <2>3 DEF Current
  <2> QED BY <2>1, <2>2, <2>3, <2>4 DEF Lease!Succeed
<1>5. CASE verdict # "success"
  <2>1. Current' = Current
    BY <1>1, <1>3, <1>5 DEF Current
  <2>2. run[r].status \in Active
    BY <1>1 DEF Active
  <2> QED BY <1>1, <1>2, <2>1, <2>2, GiveUpLease
<1> QED BY <1>4, <1>5

LEMMA StartupLease ==
    ASSUME Inv, Inv', Startup
    PROVE  Lease!Restart
<1>1. \A r \in Run : /\ run'[r].status = AfterRestart(run[r].status)
                     /\ run'[r].env = run[r].env
                     /\ run'[r].release = run[r].release
  <2>1. \A r \in Run : run[r] \in RunRow
    BY DEF Inv, TypeOK
  <2>2. \A r \in Run : run'[r] = [run[r] EXCEPT !.status = AfterRestart(run[r].status)]
    BY DEF Startup
  <2> QED BY <2>1, <2>2 DEF RunRow
<1>2. Life' = [r \in Run |-> CASE Life[r] = "waiting" -> "over"
                               [] Life[r] = "working" -> "suspended"
                               [] OTHER -> Life[r]]
  <2>1. \A r \in Run : run[r].status \in Active \cup Settled \cup {"none"}
    BY DEF Inv, TypeOK, RunRow
  <2> QED BY <1>1, <2>1 DEF Life, LifeOf, AfterRestart, Active, Settled
<1>3. Where' = Where /\ What' = What
  BY <1>1 DEF Where, What
<1>4. Current' = Current
  <2>1. \A e \in Env : env[e] \in EnvRow
    BY DEF Inv, TypeOK
  <2>2. \A e \in Env :
           \/ env'[e] = [env[e] EXCEPT !.runtime = "unknown", !.last = "running"]
           \/ env'[e] = [env[e] EXCEPT !.last = "canceled"]
           \/ env'[e] = env[e]
    BY DEF Startup
  <2>3. \A e \in Env : env'[e].release = env[e].release
    BY <2>1, <2>2 DEF EnvRow
  <2> QED BY <2>3 DEF Current
<1> QED BY <1>2, <1>3, <1>4 DEF Lease!Restart

LEMMA LeaseStep == Inv /\ Inv' /\ [Next]_vars => [Lease!Next]_(Lease!leaseVars)
<1> SUFFICES ASSUME Inv, Inv', [Next]_vars
             PROVE  Lease!Next \/ UNCHANGED Lease!leaseVars
  OBVIOUS
<1> USE DEF Lease!Next
<1>1. ASSUME UNCHANGED <<run, env>> PROVE UNCHANGED Lease!leaseVars
  BY <1>1 DEF Lease!leaseVars, Life, Where, What, Current
<1>2. ASSUME NEW r \in Run, NEW e \in Env, NEW rel \in Release, NEW mode \in Modes,
             CreateRun(r, e, rel, mode)
      PROVE  Lease!Next
  BY <1>2, CreateRunLease
<1>3. ASSUME NEW r \in Run, CancelQueued(r) \/ CancelRunning(r) \/ Confirm(r)
      PROVE  Lease!Next \/ UNCHANGED Lease!leaseVars
  BY <1>3, CancelLease, ConfirmLease
<1>4. ASSUME NEW r \in Run, SignalCancel(r) \/ DropCancel(r) \/ Disconnect(r)
      PROVE  UNCHANGED <<run, env>>
  BY <1>4 DEF SignalCancel, DropCancel, Disconnect, dbVars
<1>5. ASSUME NEW r \in Run, Claim(r) \/ Finalize(r) \/ FailRun(r)
      PROVE  Lease!Next \/ UNCHANGED Lease!leaseVars
  BY <1>5, ClaimLease, FinalizeLease, FailRunLease
<1>6. ASSUME NEW r \in Run,
             \/ Spawn(r) \/ NextWave(r) \/ EndWave(r) \/ SettlePending(r) \/ CountResults(r)
             \/ Cleanup(r) \/ InternalError(r) \/ FailRunFails(r)
      PROVE  UNCHANGED <<run, env>>
  BY <1>6 DEF Spawn, NextWave, EndWave, SettlePending, CountResults, Cleanup, InternalError,
              FailRunFails, dbVars
<1>7. ASSUME NEW r \in Run, NEW u \in Unit, StartUnit(r, u) \/ JoinUnit(r, u)
      PROVE  UNCHANGED <<run, env>>
  BY <1>7 DEF StartUnit, JoinUnit
<1>8. ASSUME NEW r \in Run, NEW u \in Unit,
             RemoteEnds(r, u) \/ \E outcome \in Outcomes : UnitReturns(r, u, outcome)
      PROVE  UNCHANGED <<run, env>>
  BY <1>8 DEF RemoteEnds, UnitReturns, dbVars
<1>9. CASE Crash \/ UNCHANGED vars
  BY <1>1, <1>9 DEF Crash, dbVars, vars
<1>10. CASE Startup
  BY <1>10, StartupLease
<1>11. ASSUME NEW r \in Run, Executor(r)
       PROVE  Lease!Next \/ UNCHANGED Lease!leaseVars
  BY <1>1, <1>5, <1>6, <1>7, <1>11 DEF Executor
<1> QED BY <1>1, <1>2, <1>3, <1>4, <1>6, <1>8, <1>9, <1>10, <1>11 DEF Next

\* environment_deployment_runs.status and current_app_release_id move only as the lease
\* allows: a run takes an environment nobody holds, a restart suspends what was at work,
\* and only a run that was at work brings the environment to its release.
THEOREM ImplementsLease == Spec => KeepsLease
<1> QED BY InitLease, LeaseStep, Invariance, PTL DEF Spec, KeepsLease, Lease!Spec
-----------------------------------------------------------------------------
(* Mutual exclusion. *)

Exclusive == \A q, r \in Run : (q # r /\ Where[q] = Where[r])
                 => ~(Life[q] \in Lease!Holding /\ Life[r] \in Lease!Holding)

\* it follows from the lease alone
LEMMA LeaseIsExclusive == Inv /\ Exclusive /\ [Lease!Next]_(Lease!leaseVars) => Exclusive'
<1> SUFFICES ASSUME Inv, Exclusive, [Lease!Next]_(Lease!leaseVars) PROVE Exclusive'
  OBVIOUS
<1>1. Life \in [Run -> {"new", "waiting", "working", "suspended", "over"}]
  BY DEF Life, LifeOf
<1>2. DOMAIN Where = Run
  BY DEF Where
<1> USE DEF Exclusive, Lease!Holding
<1>3. ASSUME NEW r \in Run, NEW e \in Env, NEW rel \in Release, Lease!Acquire(r, e, rel)
      PROVE  Exclusive'
  BY <1>1, <1>2, <1>3 DEF Lease!Acquire
<1>4. ASSUME NEW r \in Run, Lease!Begin(r) \/ Lease!Succeed(r) \/ Lease!GiveUp(r)
      PROVE  Exclusive'
  BY <1>1, <1>4 DEF Lease!Begin, Lease!Succeed, Lease!GiveUp
<1>5. CASE Lease!Restart
  BY <1>1, <1>5 DEF Lease!Restart
<1>6. CASE UNCHANGED Lease!leaseVars
  BY <1>6 DEF Lease!leaseVars
<1> QED BY <1>3, <1>4, <1>5, <1>6 DEF Lease!Next

\* Two active runs never share an environment: idx_environment_deployment_active and the
\* check of create_run hold through claims, cancellations, crashes and confirmations.
THEOREM MutualExclusion == Spec => []OneActiveRunPerEnvironment
<1>1. Init => Exclusive
  BY DEF Init, Exclusive, Life, LifeOf, Lease!Holding
<1>2. Inv /\ Exclusive => OneActiveRunPerEnvironment
  BY DEF Exclusive, OneActiveRunPerEnvironment, Life, LifeOf, Where, Active, Lease!Holding
<1>3. Inv /\ Inv' /\ Exclusive /\ [Next]_vars => Exclusive'
  BY LeaseStep, LeaseIsExclusive
<1> QED BY <1>1, <1>2, <1>3, Invariance, PTL DEF Spec
-----------------------------------------------------------------------------
(* What a crash leaves on the targets. *)

\* what runs on the targets is either waited for, or left behind by a process that died
\* before its run ended
LeftBehind ==
    \A r \in Run, u \in Unit :
        /\ remote[r][u] = "held" => job[r][u] = "busy"
        /\ remote[r][u] = "interrupted" =>
              exec[r].pc = "gone" /\ run[r].status \in {"running", "reconciling"}

LEMMA LeftBehindStep == Inv /\ Inv' /\ LeftBehind /\ [Next]_vars => LeftBehind'
<1> SUFFICES ASSUME Inv, Inv', LeftBehind, [Next]_vars PROVE LeftBehind'
  OBVIOUS
<1>0. /\ exec \in [Run -> ExecutorTask] /\ run \in [Run -> RunRow]
      /\ remote \in [Run -> [Unit -> {"none", "held", "stray", "interrupted"}]]
      /\ job \in [Run -> [Unit -> Outcomes \cup {"none", "busy"}]]
      /\ remote' \in [Run -> [Unit -> {"none", "held", "stray", "interrupted"}]]
  BY DEF Inv, TypeOK
\* actions of a run that is not reconciling and whose executor is not gone
<1>1. ASSUME NEW r \in Run, exec[r].pc \notin {"gone"}, UNCHANGED <<job, remote>>,
             \A q \in Run \ {r} : exec'[q].pc = exec[q].pc /\ run'[q].status = run[q].status
      PROVE  LeftBehind'
  BY <1>1 DEF LeftBehind
<1>2. ASSUME NEW r \in Run, NEW e \in Env, NEW rel \in Release, NEW mode \in Modes,
             CreateRun(r, e, rel, mode)
      PROVE  LeftBehind'
  <2>1. exec[r].pc # "gone"
    BY <1>2 DEF CreateRun, Inv, Control
  <2>2. \A q \in Run \ {r} : exec'[q] = exec[q] /\ run'[q] = run[q]
    BY <1>2, <1>0 DEF CreateRun
  <2> QED BY <1>1, <1>2, <2>1, <2>2 DEF CreateRun
<1>3. ASSUME NEW r \in Run, Spawn(r) \/ Disconnect(r)
      PROVE  LeftBehind'
  <2>1. exec[r].pc = "handler" /\ \A q \in Run \ {r} : exec'[q] = exec[q]
    BY <1>0, <1>3 DEF Spawn, Disconnect
  <2> QED BY <1>1, <1>3, <2>1 DEF Spawn, Disconnect, dbVars
<1>4. ASSUME NEW r \in Run, CancelQueued(r) \/ CancelRunning(r)
      PROVE  LeftBehind'
  <2>1. \A q \in Run : run'[q].status = run[q].status \/ run[q].status = "queued"
    <3>1. CASE CancelQueued(r)
      BY <1>0, <3>1 DEF CancelQueued
    <3>2. CASE CancelRunning(r)
      <4>1. run' = [run EXCEPT ![r].cancel = TRUE]
        BY <3>2 DEF CancelRunning
      <4> QED BY <1>0, <4>1 DEF RunRow
    <3> QED BY <1>4, <3>1, <3>2
  <2> QED BY <1>4, <2>1 DEF LeftBehind, CancelQueued, CancelRunning
<1>5. ASSUME NEW r \in Run, SignalCancel(r) \/ DropCancel(r)
      PROVE  LeftBehind'
  BY <1>5 DEF LeftBehind, SignalCancel, DropCancel, dbVars
<1>6. ASSUME NEW r \in Run, Confirm(r)
      PROVE  LeftBehind'
  <2>1. /\ \A u \in Unit : remote[r][u] # "interrupted"
        /\ \A q \in Run \ {r} : run'[q] = run[q]
        /\ UNCHANGED <<exec, job, remote>>
    BY <1>0, <1>6 DEF Confirm, memVars
  <2> QED BY <2>1 DEF LeftBehind
<1>7. ASSUME NEW r \in Run, Claim(r)
      PROVE  LeftBehind'
  <2>1. /\ exec[r].pc = "claim"
        /\ \A q \in Run \ {r} : exec'[q] = exec[q] /\ run'[q] = run[q]
    BY <1>0, <1>7 DEF Claim, Goto
  <2> QED BY <1>1, <1>7, <2>1 DEF Claim
<1>8. ASSUME NEW r \in Run, NextWave(r)
      PROVE  LeftBehind'
  <2>1. /\ exec[r].pc = "loop"
        /\ \A q \in Run \ {r} : exec'[q] = exec[q]
    BY <1>0, <1>8 DEF NextWave, Goto
  <2> QED BY <1>1, <1>8, <2>1 DEF NextWave, dbVars
<1>9. ASSUME NEW r \in Run, EndWave(r) \/ SettlePending(r) \/ CountResults(r)
      PROVE  LeftBehind'
  <2>1. /\ exec[r].pc # "gone"
        /\ \A q \in Run \ {r} : exec'[q] = exec[q]
        /\ UNCHANGED <<run, job, remote>>
    BY <1>0, <1>9 DEF EndWave, SettlePending, CountResults, Goto, dbVars
  <2> QED BY <1>1, <2>1
<1>10. ASSUME NEW r \in Run, Finalize(r) \/ FailRun(r) \/ FailRunFails(r) \/ Cleanup(r)
       PROVE  LeftBehind'
  <2>1. exec[r].pc # "gone" /\ UNCHANGED <<job, remote>>
    BY <1>10 DEF Finalize, FailRun, FailRunFails, Cleanup
  <2>2. \A q \in Run \ {r} : exec'[q] = exec[q] /\ run'[q] = run[q]
    BY <1>0, <1>10 DEF Finalize, FailRun, FailRunFails, Cleanup, Goto, dbVars
  <2> QED BY <1>1, <2>1, <2>2
<1>11. ASSUME NEW r \in Run, NEW u \in Unit, StartUnit(r, u)
       PROVE  LeftBehind'
  <2>1. exec[r].pc = "wave" /\ UNCHANGED run /\ \A q \in Run \ {r} : exec'[q] = exec[q]
    BY <1>0, <1>11 DEF StartUnit, CanStart, Goto
  <2>2. CASE result[r][u] = "pending"
    <3>1. job' = [job EXCEPT ![r][u] = "busy"] /\ remote' = [remote EXCEPT ![r][u] = "held"]
      BY <1>11, <2>2 DEF StartUnit
    <3> QED BY <1>0, <2>1, <3>1, CellType DEF LeftBehind
  <2>3. CASE result[r][u] # "pending"
    <3>1. remote' = [remote EXCEPT ![r] = [v \in Unit |-> IF @[v] = "held" THEN "stray" ELSE @[v]]]
      BY <1>11, <2>3 DEF StartUnit
    <3>2. job' = [job EXCEPT ![r] = [v \in Unit |-> "none"]]
      BY <1>11, <2>3 DEF StartUnit
    <3> QED BY <1>0, <2>1, <3>1, <3>2 DEF LeftBehind
  <2> QED BY <2>2, <2>3
<1>12. ASSUME NEW r \in Run, InternalError(r)
       PROVE  LeftBehind'
  <2>1. /\ exec[r].pc # "gone"
        /\ UNCHANGED run
        /\ \A q \in Run \ {r} : exec'[q] = exec[q]
        /\ job' = [job EXCEPT ![r] = [u \in Unit |-> "none"]]
        /\ remote' = [remote EXCEPT ![r] = [u \in Unit |->
                         IF @[u] = "held" THEN "stray" ELSE @[u]]]
    BY <1>0, <1>12 DEF InternalError, dbVars
  <2> QED BY <1>0, <2>1 DEF LeftBehind
<1>13. ASSUME NEW r \in Run, NEW u \in Unit, JoinUnit(r, u)
       PROVE  LeftBehind'
  <2>1. /\ exec[r].pc = "wave" /\ job[r][u] # "busy"
        /\ job' = [job EXCEPT ![r][u] = "none"]
        /\ UNCHANGED <<run, remote>>
    BY <1>13 DEF JoinUnit
  <2>2. \A q \in Run \ {r} : exec'[q] = exec[q]
    BY <1>0, <1>13 DEF JoinUnit
  <2> QED BY <1>0, <2>1, <2>2, CellType DEF LeftBehind
<1>14. ASSUME NEW r \in Run, NEW u \in Unit, NEW outcome \in Outcomes, UnitReturns(r, u, outcome)
       PROVE  LeftBehind'
  <2>1. /\ job' = [job EXCEPT ![r][u] = outcome]
        /\ \E left \in {"none", "stray"} : remote' = [remote EXCEPT ![r][u] = left]
        /\ UNCHANGED <<run, exec>>
    BY <1>14 DEF UnitReturns, dbVars
  <2> QED BY <1>0, <2>1, CellType DEF LeftBehind
<1>15. ASSUME NEW r \in Run, NEW u \in Unit, RemoteEnds(r, u)
       PROVE  LeftBehind'
  <2>1. remote' = [remote EXCEPT ![r][u] = "none"] /\ UNCHANGED <<run, exec, job>>
    BY <1>15 DEF RemoteEnds, dbVars, memVars
  <2> QED BY <1>0, <2>1, CellType DEF LeftBehind
<1>16. CASE Crash
  <2>1. \A r \in Run, u \in Unit :
           /\ remote'[r][u] = IF remote[r][u] = "held" THEN "interrupted" ELSE remote[r][u]
           /\ exec'[r].pc = IF exec[r].pc = "off" THEN "off" ELSE "gone"
    BY <1>16 DEF Crash, NoExec
  <2>2. \A r \in Run, u \in Unit : job[r][u] = "busy" => exec[r].pc # "off" /\ run[r].status = "running"
    BY DEF Inv, Planned, Control, Working
  <2>3. UNCHANGED run
    BY <1>16 DEF Crash, dbVars
  <2> QED BY <1>0, <2>1, <2>2, <2>3 DEF LeftBehind
<1>17. CASE Startup
  <2>1. \A r \in Run : run'[r].status = AfterRestart(run[r].status)
    <3>1. \A r \in Run : run'[r] = [run[r] EXCEPT !.status = AfterRestart(run[r].status)]
      BY <1>17 DEF Startup
    <3>2. \A r \in Run : run[r] \in RunRow
      BY <1>0
    <3> QED BY <3>1, <3>2 DEF RunRow
  <2>2. UNCHANGED <<exec, job, remote>>
    BY <1>17 DEF Startup, memVars
  <2>3. \A r \in Run : run[r].status \in {"running", "reconciling"}
                        => run'[r].status \in {"running", "reconciling"}
    BY <2>1 DEF AfterRestart
  <2> QED BY <2>2, <2>3 DEF LeftBehind
<1>18. CASE UNCHANGED vars
  BY <1>18 DEF LeftBehind, vars
<1>19. ASSUME NEW r \in Run, Executor(r)
       PROVE  LeftBehind'
  BY <1>3, <1>7, <1>8, <1>9, <1>10, <1>11, <1>13, <1>19 DEF Executor
<1> QED BY <1>2, <1>3, <1>4, <1>5, <1>6, <1>10, <1>12, <1>14, <1>15, <1>16, <1>17, <1>18, <1>19
        DEF Next

\* Until the operator confirms that it has stopped, what a crashed process left executing
\* on the targets keeps every other run out of its environment.
THEOREM InterruptionLocks == Spec => []InterruptedWorkKeepsLock
<1>1. Init => LeftBehind
  BY DEF Init, LeftBehind
<1>2. LeftBehind /\ OneActiveRunPerEnvironment => InterruptedWorkKeepsLock
  BY DEF LeftBehind, OneActiveRunPerEnvironment, InterruptedWorkKeepsLock, Active
<1> QED BY <1>1, <1>2, LeftBehindStep, MutualExclusion, Invariance, PTL DEF Spec
=============================================================================
