----------------------- MODULE DeploymentOrchestrator -----------------------
(***************************************************************************)
(* Environment deployments (api/src/deployment_orchestrator.rs): a run is   *)
(* created under the environment's lock, claimed by one executor task,      *)
(* carried out wave by wave with a bounded number of units in flight, and   *)
(* settled.  Operators cancel it while it runs, the process restarts under  *)
(* it, the database fails under it.                                         *)
(*                                                                          *)
(* Left out: nodes (a unit's outcome is written for every target node of    *)
(* the plan in one transaction, so one record stands for all of them), the  *)
(* order of the units of one wave (any order), plan hashes and the preview, *)
(* summaries, logs and audit rows.  Actions other than skip and stop are    *)
(* all carried out alike and are one action here.                           *)
(***************************************************************************)
EXTENDS Integers, FiniteSets

CONSTANTS
    Env,            \* app_environments
    Unit,           \* deployment_units of the application
    Release,        \* app_releases that are ready
    Version,        \* unit fingerprints: unit release and configuration
    Manifest,       \* app_release_units: Release -> Unit -> Version or "disabled"
    Stage,          \* stage_no of each unit
    Modes,          \* deployment modes offered, of "normal" and "force"
    MaxParallel,    \* app_environments.max_parallel_units
    MaxRuns,        \* bound: runs ever created
    MaxCrashes,     \* bound: restarts of the process
    Faults          \* which faults of the surroundings this model allows

Run == 1 .. MaxRuns

FaultKinds == {"crash", "database", "double", "disconnect", "stray"}

ASSUME ConstantsAssumption ==
    /\ Unit # {}       \* build_deployment_plan refuses a release without units
    /\ Manifest \in [Release -> [Unit -> Version \cup {"disabled"}]]
    /\ Version \cap {"absent", "stopped", "disabled"} = {}
    /\ "never" \notin Release
    /\ Stage \in [Unit -> Nat \ {0}]
    /\ Modes \subseteq {"normal", "force"}
    /\ MaxParallel \in 1 .. 32
    /\ MaxRuns \in Nat
    /\ MaxCrashes \in Nat
    /\ Faults \subseteq FaultKinds

VARIABLES
    \* the database
    run,        \* environment_deployment_runs
    action,     \* the action of each unit in the plan snapshot (plan_json)
    result,     \* deployment_unit_run_results.status
    task,       \* operation_tasks.status of the run's task
    phase,      \* operation_task_phases.status, one per stage (nothing sets "running")
    step,       \* operation_task_steps.status of the unit's step
    env,        \* app_environments
    state,      \* deployment_unit_runtime_states: a version, "absent" or "stopped"
    \* the process
    up,         \* it is serving
    exec,       \* the spawned execute_run_with_cancellation task of a run
    job,        \* the JoinSet of the wave: what each spawned unit has returned
    signal,     \* the run's CancellationSignal in the registry
    cancelling, \* cancel handlers that committed and have not signalled yet
    crashes,    \* restarts so far
    \* the targets
    remote,     \* what may still be executing on the targets
    dirty       \* the targets' content is not what the runtime state says

dbVars == <<run, action, result, task, phase, step, env, state>>
memVars == <<exec, job, signal, cancelling>>
vars == <<run, action, result, task, phase, step, env, state,
          up, exec, job, signal, cancelling, crashes, remote, dirty>>

Active == {"queued", "running", "reconciling"}
Settled == {"success", "partial_failed", "all_failed", "canceled"}
Open == {"pending", "running"}
Good == {"success", "skipped"}
Bad == {"failed", "not_started"}

Stages == {Stage[u] : u \in Unit}

Some(r, S) == \E u \in Unit : result[r][u] \in S

\* the settled status of a run whose executor is gone: by what the rows say
Remainder(results) ==
    IF \E u \in Unit : results[u] \in Good THEN "partial_failed"
    ELSE IF \E u \in Unit : results[u] = "canceled_unknown" THEN "canceled"
    ELSE "all_failed"

\* finalize_deployment_run: the status by the counts of the results
Verdict_CancelFirst(r, canceled) ==
    IF ~Some(r, Bad \cup {"canceled_unknown"}) THEN "success"
    ELSE IF canceled \/ Some(r, {"canceled_unknown"}) THEN "canceled"
    ELSE IF Some(r, Good) THEN "partial_failed"
    ELSE "all_failed"
Verdict(r, canceled) ==
    IF ~Some(r, Bad \cup {"canceled_unknown"}) THEN "success"
    ELSE IF Some(r, Good) THEN "partial_failed"
    ELSE IF canceled \/ Some(r, {"canceled_unknown"}) THEN "canceled"
    ELSE "all_failed"

\* ... and the task's status by the run's
TaskVerdict_CancelWins(verdict, canceled) ==
    IF canceled \/ verdict = "canceled" THEN "canceled"
    ELSE IF verdict = "success" THEN "success" ELSE "failed"
TaskVerdict(verdict, canceled) ==
    IF verdict = "success" THEN "success"
    ELSE IF canceled \/ verdict = "canceled" THEN "canceled" ELSE "failed"

\* the unit rows nobody will write any more: in flight or never started
Close_NotStarted(r) == [u \in Unit |-> IF result[r][u] \in Open THEN "not_started" ELSE result[r][u]]
Close_PendingLeft(r) == [u \in Unit |-> IF result[r][u] = "running" THEN "canceled_unknown"
                                        ELSE result[r][u]]
Close(r) == [u \in Unit |-> CASE result[r][u] = "running" -> "canceled_unknown"
                              [] result[r][u] = "pending" -> "not_started"
                              [] OTHER -> result[r][u]]

\* UPDATE operation_task_phases ... WHERE status IN ('pending', 'running')
ClosePhases(r) == [s \in Stages |-> IF phase[r][s] = "pending" THEN "skipped" ELSE phase[r][s]]

\* UPDATE operation_task_steps ... WHERE status = 'running'
CloseSteps(r) == [u \in Unit |-> IF step[r][u] = "running" THEN "failed" ELSE step[r][u]]

\* UPDATE app_environments SET runtime_status, last_deployment_status
Report_RuntimeOnly(e, runtime, last) == [env EXCEPT ![e].runtime = runtime]
Report(e, runtime, last) == [env EXCEPT ![e] = [@ EXCEPT !.runtime = runtime, !.last = last]]

\* idx_environment_deployment_active and create_run's own check
Unlocked_Reconciling(e) ==
    \A q \in Run : run[q].env = e => run[q].status \notin {"queued", "running"}
Unlocked_Queued(e) ==
    \A q \in Run : run[q].env = e => run[q].status \notin {"running", "reconciling"}
Unlocked(e) == \A q \in Run : run[q].env = e => run[q].status \notin Active
-----------------------------------------------------------------------------
(* The plan. *)

\* classify_action for one unit, from the runtime state the database holds
Classify_AnyVersion(e, rel, mode, u) ==
    IF Manifest[rel][u] = "disabled"
    THEN IF state[e][u] \in {"absent", "stopped"} THEN "skip" ELSE "stop"
    ELSE IF mode = "normal" /\ state[e][u] \notin {"absent", "stopped"} THEN "skip" ELSE "deploy"
Classify(e, rel, mode, u) ==
    LET want == Manifest[rel][u]
        have == state[e][u]
    IN  IF want = "disabled"
        THEN IF have \in {"absent", "stopped"} THEN "skip" ELSE "stop"
        ELSE IF mode = "normal" /\ have = want THEN "skip" ELSE "deploy"

\* position of a unit's wave: stops first, by stage downwards, then stages up
Wave(r, u) == IF action[r][u] = "stop" THEN -Stage[u] ELSE Stage[u]

\* execution_waves: the first wave of the units not yet taken
FirstWave_All(r, todo) == todo
FirstWave(r, todo) == {u \in todo : \A v \in todo : Wave(r, u) <= Wave(r, v)}

Live(r) == {u \in Unit : job[r][u] # "none"}

\* halt: why the executor starts no more units, of "failed" and "canceled"
NoExec == [pc |-> "off", todo |-> {}, pending |-> {}, halt |-> {}, verdict |-> "none"]

Cancellation(r) == IF signal'[r] = "cancelled" THEN {"canceled"} ELSE {}
-----------------------------------------------------------------------------
Init ==
    /\ run = [r \in Run |-> [env |-> "none", release |-> "never", mode |-> "none",
                             status |-> "none", cancel |-> FALSE]]
    /\ action = [r \in Run |-> [u \in Unit |-> "none"]]
    /\ result = [r \in Run |-> [u \in Unit |-> "none"]]
    /\ task = [r \in Run |-> "none"]
    /\ phase = [r \in Run |-> [s \in Stages |-> "none"]]
    /\ step = [r \in Run |-> [u \in Unit |-> "none"]]
    /\ env = [e \in Env |-> [release |-> "never", runtime |-> "unknown", last |-> "waiting"]]
    /\ state = [e \in Env |-> [u \in Unit |-> "absent"]]
    /\ up = TRUE
    /\ exec = [r \in Run |-> NoExec]
    /\ job = [r \in Run |-> [u \in Unit |-> "none"]]
    /\ signal = [r \in Run |-> "none"]
    /\ cancelling = {}
    /\ crashes = 0
    /\ remote = [r \in Run |-> [u \in Unit |-> "none"]]
    /\ dirty = [e \in Env |-> {}]
-----------------------------------------------------------------------------
(* The operator's requests. *)

\* create_run: the next id, if no run of the environment is active
CreateRun(r, e, rel, mode) ==
    /\ up
    /\ run[r].status = "none"
    /\ \A q \in Run : q < r => run[q].status # "none"
    /\ Unlocked(e)
    /\ run' = [run EXCEPT ![r] = [env |-> e, release |-> rel, mode |-> mode,
                                  status |-> "queued", cancel |-> FALSE]]
    /\ action' = [action EXCEPT ![r] = [u \in Unit |-> Classify(e, rel, mode, u)]]
    /\ result' = [result EXCEPT ![r] = [u \in Unit |->
                     IF Classify(e, rel, mode, u) = "skip" THEN "skipped" ELSE "pending"]]
    /\ task' = [task EXCEPT ![r] = "queued"]
    /\ phase' = [phase EXCEPT ![r] = [s \in Stages |-> "pending"]]
    /\ exec' = [exec EXCEPT ![r].pc = "handler"]
    /\ UNCHANGED <<step, env, state, up, job, signal, cancelling, crashes, remote, dirty>>

\* application_deploy_submit after create_run: register the signal, spawn the task
Spawn(r) ==
    /\ exec[r].pc = "handler"
    /\ exec' = [exec EXCEPT ![r].pc = "claim"]
    /\ signal' = [signal EXCEPT ![r] = "armed"]
    /\ UNCHANGED <<dbVars, up, job, cancelling, crashes, remote, dirty>>

\* the client goes away while create_run commits: the handler is dropped
Disconnect(r) ==
    /\ "disconnect" \in Faults
    /\ exec[r].pc = "handler"
    /\ exec' = [exec EXCEPT ![r].pc = "gone"]
    /\ UNCHANGED <<dbVars, up, job, signal, cancelling, crashes, remote, dirty>>

\* request_cancellation on a run nobody has claimed: it is over at once
CancelQueued(r) ==
    /\ up
    /\ run[r].status = "queued"
    /\ run' = [run EXCEPT ![r] = [@ EXCEPT !.status = "canceled", !.cancel = TRUE]]
    /\ result' = [result EXCEPT ![r] = [u \in Unit |->
                     IF @[u] = "pending" THEN "not_started" ELSE @[u]]]
    /\ task' = [task EXCEPT ![r] = IF @ = "queued" THEN "canceled" ELSE @]
    /\ phase' = [phase EXCEPT ![r] = ClosePhases(r)]
    /\ env' = Report(run[r].env, env[run[r].env].runtime, "canceled")
    /\ cancelling' = cancelling \cup {r}
    /\ UNCHANGED <<action, step, state, up, exec, job, signal, crashes, remote, dirty>>

\* request_cancellation on a running run, the first request or a repeated one
CancelRunning(r) ==
    /\ up
    /\ run[r].status = "running"
    /\ run' = [run EXCEPT ![r].cancel = TRUE]
    /\ cancelling' = cancelling \cup {r}
    /\ UNCHANGED <<action, result, task, phase, step, env, state,
                   up, exec, job, signal, crashes, remote, dirty>>

\* DeploymentCancellationRegistry::cancel
Notify_Nobody(r) == signal
Notify(r) == [signal EXCEPT ![r] = IF @ = "none" THEN @ ELSE "cancelled"]

\* the handler's second half: the registry passes the cancellation on
SignalCancel(r) ==
    /\ r \in cancelling
    /\ cancelling' = cancelling \ {r}
    /\ signal' = Notify(r)
    /\ UNCHANGED <<dbVars, up, exec, job, crashes, remote, dirty>>

\* the client goes away while the request commits: nothing is signalled
DropCancel(r) ==
    /\ "disconnect" \in Faults
    /\ r \in cancelling
    /\ cancelling' = cancelling \ {r}
    /\ UNCHANGED <<dbVars, up, exec, job, signal, crashes, remote, dirty>>

\* confirm_interrupted_run_stopped, by an operator who has looked at the targets
Confirm(r) ==
    LET final == Remainder(result[r])
    IN  /\ up
        /\ run[r].status = "reconciling"
        /\ \A u \in Unit : remote[r][u] # "interrupted"
        /\ run' = [run EXCEPT ![r].status = final]
        /\ task' = [task EXCEPT ![r] = IF final = "canceled" THEN "canceled" ELSE "failed"]
        /\ env' = Report(run[r].env, "unknown", final)
        /\ UNCHANGED <<action, result, phase, step, state, up, memVars, crashes, remote, dirty>>
-----------------------------------------------------------------------------
(* The executor task: execute_run_with_cancellation and what surrounds it. *)

Goto(r, pc) == exec' = [exec EXCEPT ![r].pc = pc]

\* claim_deployment_run: queued -> running, or a Conflict
Claim(r) ==
    /\ exec[r].pc = "claim"
    /\ IF run[r].status = "queued" /\ task[r] = "queued"
       THEN /\ run' = [run EXCEPT ![r].status = "running"]
            /\ task' = [task EXCEPT ![r] = "running"]
            /\ env' = Report(run[r].env, env[run[r].env].runtime, "running")
            /\ signal' = [signal EXCEPT ![r] = IF run[r].cancel THEN "cancelled" ELSE @]
            /\ exec' = [exec EXCEPT ![r] = [@ EXCEPT
                  !.pc = "loop",
                  !.todo = {u \in Unit : action[r][u] # "skip"},
                  !.halt = Cancellation(r)]]
       ELSE /\ Goto(r, "error")
            /\ UNCHANGED <<run, task, env, signal>>
    /\ UNCHANGED <<action, result, phase, step, state,
                   up, job, cancelling, crashes, remote, dirty>>

\* the wave loop: stop on a failure, a cancellation or a cancellation request in
\* the database; otherwise take the next wave
NextWave(r) ==
    LET wave == FirstWave(r, exec[r].todo)
        over == exec[r].halt # {}
    IN  /\ exec[r].pc = "loop"
        /\ \/ /\ over
              /\ Goto(r, "settle")
              /\ UNCHANGED signal
           \/ /\ ~over
              /\ exec[r].todo = {}
              /\ Goto(r, "count")
              /\ UNCHANGED signal
           \/ /\ ~over
              /\ exec[r].todo # {}
              /\ run[r].cancel
              /\ signal' = [signal EXCEPT ![r] = "cancelled"]
              /\ exec' = [exec EXCEPT ![r] = [@ EXCEPT !.pc = "settle", !.halt = {"canceled"}]]
           \/ /\ ~over
              /\ exec[r].todo # {}
              /\ ~run[r].cancel
              /\ UNCHANGED signal
              /\ exec' = [exec EXCEPT ![r] = [@ EXCEPT
                    !.pc = "wave",
                    !.todo = exec[r].todo \ wave,
                    !.pending = wave,
                    !.halt = Cancellation(r)]]
        /\ UNCHANGED <<dbVars, up, job, cancelling, crashes, remote, dirty>>

CanStart_OneMore(r) ==
    /\ exec[r].pc = "wave"
    /\ exec[r].pending # {}
    /\ exec[r].halt = {}
    /\ Cardinality(Live(r)) <= MaxParallel
CanStart(r) ==
    /\ exec[r].pc = "wave"
    /\ exec[r].pending # {}
    /\ exec[r].halt = {}
    /\ Cardinality(Live(r)) < MaxParallel

\* start_unit_result and JoinSet::spawn; a row that is not pending is a Conflict
StartUnit(r, u) ==
    /\ CanStart(r)
    /\ u \in exec[r].pending
    /\ IF result[r][u] = "pending"
       THEN /\ result' = [result EXCEPT ![r][u] = "running"]
            /\ step' = [step EXCEPT ![r][u] = "running"]
            /\ exec' = [exec EXCEPT ![r].pending = @ \ {u}]
            /\ job' = [job EXCEPT ![r][u] = "busy"]
            /\ remote' = [remote EXCEPT ![r][u] = "held"]
            /\ dirty' = [dirty EXCEPT ![run[r].env] = @ \cup {u}]
       ELSE /\ Goto(r, "error")
            /\ job' = [job EXCEPT ![r] = [v \in Unit |-> "none"]]
            /\ remote' = [remote EXCEPT ![r] = [v \in Unit |->
                             IF @[v] = "held" THEN "stray" ELSE @[v]]]
            /\ UNCHANGED <<result, step, dirty>>
    /\ UNCHANGED <<run, action, task, phase, env, state, up, signal, cancelling, crashes>>

\* DeploymentUnitExecutor::execute returns.  Success leaves the target as planned;
\* a failure may be a command given up on while the target goes on with it; only a
\* cancelled command is reported as canceled_unknown
UnitReturns(r, u, outcome) ==
    /\ job[r][u] = "busy"
    /\ outcome = "canceled_unknown" => signal[r] = "cancelled"
    /\ job' = [job EXCEPT ![r][u] = outcome]
    /\ \/ remote' = [remote EXCEPT ![r][u] = "none"]
       \/ /\ outcome # "success"
          /\ "stray" \in Faults
          /\ remote' = [remote EXCEPT ![r][u] = "stray"]
    /\ dirty' = [dirty EXCEPT ![run[r].env] = IF outcome = "success" THEN @ \ {u} ELSE @]
    /\ UNCHANGED <<dbVars, up, exec, signal, cancelling, crashes>>

\* join_next and persist_unit_outcome, then the loop samples the signal again
\* unless the wave is over
JoinUnit(r, u) ==
    LET outcome == job[r][u]
        more == exec[r].pending # {} \/ Live(r) # {u}
    IN  /\ exec[r].pc = "wave"
        /\ ~CanStart(r)
        /\ outcome \in {"success", "failed", "canceled_unknown"}
        /\ job' = [job EXCEPT ![r][u] = "none"]
        /\ result' = [result EXCEPT ![r][u] = IF @ = "running" THEN outcome ELSE @]
        /\ step' = [step EXCEPT ![r][u] = IF outcome = "success" THEN "success" ELSE "failed"]
        /\ state' = [state EXCEPT ![run[r].env][u] =
                        IF outcome # "success" THEN @
                        ELSE IF action[r][u] = "stop" THEN "stopped"
                        ELSE Manifest[run[r].release][u]]
        /\ exec' = [exec EXCEPT ![r].halt = @
                \cup (IF outcome = "failed" THEN {"failed"} ELSE {})
                \cup (IF \/ outcome = "canceled_unknown"
                         \/ more /\ signal[r] = "cancelled" THEN {"canceled"} ELSE {})]
        /\ UNCHANGED <<run, action, task, phase, env, up, signal, cancelling, crashes,
                       remote, dirty>>

\* execute_wave's ways out: nothing in flight and nothing left that may start
WaveOver_Drained(r) == exec[r].pending = {} /\ Live(r) = {}
WaveOver(r) == ~CanStart(r) /\ Live(r) = {}

EndWave(r) ==
    /\ exec[r].pc = "wave"
    /\ WaveOver(r)
    /\ exec' = [exec EXCEPT ![r] = [@ EXCEPT !.pc = "loop", !.pending = {}]]
    /\ UNCHANGED <<dbVars, up, job, signal, cancelling, crashes, remote, dirty>>

\* after a failure or a cancellation: what has not started never will
SettlePending(r) ==
    /\ exec[r].pc = "settle"
    /\ Goto(r, "count")
    /\ result' = [result EXCEPT ![r] = [u \in Unit |->
                     IF @[u] = "pending" THEN "not_started" ELSE @[u]]]
    /\ UNCHANGED <<run, action, task, phase, step, env, state,
                   up, job, signal, cancelling, crashes, remote, dirty>>

\* finalize_deployment_run reads the results before its transaction ...
CountResults(r) ==
    /\ exec[r].pc = "count"
    /\ exec' = [exec EXCEPT ![r] = [@ EXCEPT
          !.pc = "commit",
          !.verdict = Verdict(r, "canceled" \in exec[r].halt)]]
    /\ UNCHANGED <<dbVars, up, job, signal, cancelling, crashes, remote, dirty>>

StageResult_Raw(r, s) ==
    LET of == {result[r][u] : u \in {v \in Unit : Stage[v] = s}}
    IN  IF of \cap {"failed", "canceled_unknown"} # {} THEN "failed"
        ELSE IF "not_started" \in of THEN "not_started" ELSE "success"
StageResult(r, s) ==
    LET of == {result[r][u] : u \in {v \in Unit : Stage[v] = s}}
    IN  IF of \cap {"failed", "canceled_unknown"} # {} THEN "failed"
        ELSE IF "not_started" \in of THEN "skipped" ELSE "success"

\* ... and writes run, task, phases and environment in it
Finalize(r) ==
    LET verdict == exec[r].verdict
        e == run[r].env
        rel == run[r].release
    IN  /\ exec[r].pc = "commit"
        /\ Goto(r, "cleanup")
        /\ run' = [run EXCEPT ![r].status = IF @ = "running" THEN verdict ELSE @]
        /\ task' = [task EXCEPT ![r] = TaskVerdict(verdict, "canceled" \in exec[r].halt)]
        /\ phase' = [phase EXCEPT ![r] = [s \in Stages |-> StageResult(r, s)]]
        /\ env' = [env EXCEPT ![e] =
              [release |-> IF verdict = "success" THEN rel ELSE @.release,
               runtime |-> IF verdict = "success"
                           THEN IF \A u \in Unit : Manifest[rel][u] = "disabled"
                                THEN "stopped" ELSE "running"
                           ELSE IF verdict = "partial_failed" THEN "partial_unhealthy"
                           ELSE "unknown",
               last    |-> verdict]]
        /\ UNCHANGED <<action, result, step, state,
                       up, job, signal, cancelling, crashes, remote, dirty>>

\* a database error or a panicked unit ends execute_run with Err; dropping the
\* JoinSet aborts the units in flight, not what they started on the targets
InternalError(r) ==
    /\ "database" \in Faults
    /\ exec[r].pc \in {"claim", "loop", "wave", "settle", "count", "commit"}
    /\ exec' = [exec EXCEPT ![r].pc = "error"]
    /\ job' = [job EXCEPT ![r] = [u \in Unit |-> "none"]]
    /\ remote' = [remote EXCEPT ![r] = [u \in Unit |->
                     IF @[u] = "held" THEN "stray" ELSE @[u]]]
    /\ UNCHANGED <<dbVars, up, signal, cancelling, crashes, dirty>>

\* fail_run_on_internal_error does nothing unless the run is queued or running
Failable_Any(r) == TRUE
Failable(r) == run[r].status \in {"queued", "running"}

FailRun(r) ==
    LET final == Remainder(Close(r))
    IN  /\ exec[r].pc = "error"
        /\ Goto(r, "cleanup")
        /\ IF Failable(r)
           THEN /\ result' = [result EXCEPT ![r] = Close(r)]
                /\ run' = [run EXCEPT ![r].status = final]
                /\ step' = [step EXCEPT ![r] = CloseSteps(r)]
                /\ phase' = [phase EXCEPT ![r] = ClosePhases(r)]
                /\ task' = [task EXCEPT ![r] = IF @ \notin {"queued", "running"} THEN @
                               ELSE IF final = "canceled" THEN "canceled" ELSE "failed"]
                /\ env' = Report(run[r].env,
                                 IF final = "partial_failed" THEN "partial_unhealthy" ELSE "unknown",
                                 final)
           ELSE UNCHANGED <<run, result, task, phase, step, env>>
        /\ UNCHANGED <<action, state, up, job, signal, cancelling, crashes, remote, dirty>>

\* fail_run_on_internal_error fails as well: logged, the run keeps its status
FailRunFails(r) ==
    /\ "double" \in Faults
    /\ exec[r].pc = "error"
    /\ Goto(r, "cleanup")
    /\ UNCHANGED <<dbVars, up, job, signal, cancelling, crashes, remote, dirty>>

\* the task leaves the registry and ends
Cleanup(r) ==
    /\ exec[r].pc = "cleanup"
    /\ exec' = [exec EXCEPT ![r] = [NoExec EXCEPT !.pc = "gone"]]
    /\ signal' = [signal EXCEPT ![r] = "none"]
    /\ UNCHANGED <<dbVars, up, job, cancelling, crashes, remote, dirty>>
-----------------------------------------------------------------------------
(* The process and the targets. *)

\* the process dies: its tasks, handlers and registry are gone, the database and
\* whatever runs on the targets are not
Crash ==
    /\ "crash" \in Faults
    /\ up
    /\ crashes < MaxCrashes
    /\ crashes' = crashes + 1
    /\ up' = FALSE
    /\ exec' = [r \in Run |-> IF exec[r].pc = "off" THEN NoExec
                              ELSE [NoExec EXCEPT !.pc = "gone"]]
    /\ job' = [r \in Run |-> [u \in Unit |-> "none"]]
    /\ signal' = [r \in Run |-> "none"]
    /\ cancelling' = {}
    /\ remote' = [r \in Run |-> [u \in Unit |->
                     IF remote[r][u] = "held" THEN "interrupted" ELSE remote[r][u]]]
    /\ UNCHANGED <<dbVars, dirty>>

\* serve: reconcile_interrupted_runs in one transaction, before it accepts requests
AfterRestart_Requeued(status) == IF status = "running" THEN "queued" ELSE status
AfterRestart_Canceled(status) == IF status \in {"queued", "running"} THEN "canceled" ELSE status
AfterRestart(status) ==
    CASE status = "queued" -> "canceled" [] status = "running" -> "reconciling" [] OTHER -> status

Startup ==
    LET queued == {r \in Run : run[r].status = "queued"}
        running == {r \in Run : run[r].status = "running"}
    IN  /\ ~up
        /\ up' = TRUE
        /\ run' = [r \in Run |-> [run[r] EXCEPT !.status = AfterRestart(@)]]
        /\ result' = [r \in Run |-> IF r \in queued \cup running THEN Close(r) ELSE result[r]]
        /\ step' = [r \in Run |-> IF r \in running THEN CloseSteps(r) ELSE step[r]]
        /\ phase' = [r \in Run |-> IF r \in queued \cup running THEN ClosePhases(r) ELSE phase[r]]
        /\ task' = [r \in Run |->
              CASE r \in queued /\ task[r] \in {"queued", "running"} -> "canceled"
                [] r \in running /\ task[r] = "running" -> "failed"
                [] OTHER -> task[r]]
        /\ env' = [e \in Env |->
              IF \E r \in running : run[r].env = e
              THEN [env[e] EXCEPT !.runtime = "unknown", !.last = "running"]
              ELSE IF \E r \in queued : run[r].env = e
              THEN [env[e] EXCEPT !.last = "canceled"]
              ELSE env[e]]
        /\ UNCHANGED <<action, state, memVars, crashes, remote, dirty>>

\* what was left behind on a target comes to its end there
RemoteEnds(r, u) ==
    /\ remote[r][u] \in {"stray", "interrupted"}
    /\ remote' = [remote EXCEPT ![r][u] = "none"]
    /\ UNCHANGED <<dbVars, up, memVars, crashes, dirty>>
-----------------------------------------------------------------------------
Executor(r) ==
    \/ Spawn(r) \/ Claim(r) \/ NextWave(r) \/ EndWave(r) \/ SettlePending(r)
    \/ CountResults(r) \/ Finalize(r) \/ FailRun(r) \/ Cleanup(r)
    \/ \E u \in Unit : StartUnit(r, u) \/ JoinUnit(r, u)

Outcomes == {"success", "failed", "canceled_unknown"}

Next ==
    \/ \E r \in Run, e \in Env, rel \in Release, mode \in Modes : CreateRun(r, e, rel, mode)
    \/ \E r \in Run :
          \/ CancelQueued(r) \/ CancelRunning(r) \/ SignalCancel(r) \/ DropCancel(r)
          \/ Disconnect(r) \/ Confirm(r) \/ Executor(r)
          \/ InternalError(r) \/ FailRunFails(r)
    \/ \E r \in Run, u \in Unit, outcome \in Outcomes : UnitReturns(r, u, outcome)
    \/ \E r \in Run, u \in Unit : RemoteEnds(r, u)
    \/ Crash
    \/ Startup

Spec == Init /\ [][Next]_vars
-----------------------------------------------------------------------------
(* Properties. *)

ResultStatus == Good \cup Bad \cup Open \cup {"none", "canceled_unknown"}

RunRow == [env : Env \cup {"none"}, release : Release \cup {"never"}, mode : Modes \cup {"none"},
           status : Active \cup Settled \cup {"none"}, cancel : BOOLEAN]

EnvRow == [release : Release \cup {"never"},
           runtime : {"unknown", "running", "partial_unhealthy", "stopped"},
           last : Settled \cup {"waiting", "running"}]

ExecutorTask == [pc : {"off", "handler", "claim", "loop", "wave", "settle", "count", "commit",
                       "error", "cleanup", "gone"},
                 todo : SUBSET Unit, pending : SUBSET Unit, halt : SUBSET {"failed", "canceled"},
                 verdict : Settled \cup {"none"}]

\* Every column holds a value its CHECK constraint admits and every process record
\* is well formed.
TypeOK ==
    /\ run \in [Run -> RunRow]
    /\ action \in [Run -> [Unit -> {"none", "skip", "stop", "deploy"}]]
    /\ result \in [Run -> [Unit -> ResultStatus]]
    /\ task \in [Run -> {"none", "queued", "running", "success", "failed", "canceled"}]
    /\ phase \in [Run -> [Stages -> {"none", "pending", "success", "failed", "skipped"}]]
    /\ step \in [Run -> [Unit -> {"none", "running", "success", "failed"}]]
    /\ env \in [Env -> EnvRow]
    /\ state \in [Env -> [Unit -> Version \cup {"absent", "stopped"}]]
    /\ up \in BOOLEAN
    /\ exec \in [Run -> ExecutorTask]
    /\ job \in [Run -> [Unit -> Outcomes \cup {"none", "busy"}]]
    /\ signal \in [Run -> {"none", "armed", "cancelled"}]
    /\ cancelling \subseteq Run
    /\ crashes \in 0 .. MaxCrashes
    /\ remote \in [Run -> [Unit -> {"none", "held", "stray", "interrupted"}]]
    /\ dirty \in [Env -> SUBSET Unit]

\* Two active runs never share an environment, whatever was cancelled, crashed,
\* reconciled or failed in between.
OneActiveRunPerEnvironment ==
    \A q, r \in Run : (q # r /\ run[q].env = run[r].env)
        => ~(run[q].status \in Active /\ run[r].status \in Active)

\* What a crashed process left executing on the targets keeps its environment
\* locked: nothing else is active there until the operator confirms it has stopped.
InterruptedWorkKeepsLock ==
    \A r \in Run, u \in Unit : remote[r][u] = "interrupted" =>
        /\ run[r].status \in {"running", "reconciling"}
        /\ \A q \in Run \ {r} : run[q].env = run[r].env => run[q].status \notin Active

\* A unit that was started had every unit of the waves before it succeed first:
\* stops before deploys, stage by stage.
Started == {"running", "success", "failed", "canceled_unknown"}
StagesInOrder ==
    \A r \in Run : \A u, v \in Unit :
        /\ result[r][v] \in Started
        /\ action[r][u] # "skip"
        /\ Wave(r, u) < Wave(r, v)
        => result[r][u] = "success"

\* No more units of a run are in flight than the environment allows.
ParallelLimit ==
    \A r \in Run : Cardinality({u \in Unit : result[r][u] = "running"}) <= MaxParallel

\* The status a run settles on is the summary of its unit rows that the plan fixes
\* (docs/plans/2026-07-11-001-multi-unit-application-release-plan.md:371), along all
\* the ways to settle.  The code departs from it in three cases: a run that never came
\* to finalize_deployment_run, which alone writes the phases, is partial_failed even if
\* every unit succeeded; one that was asked to stop and had no success is canceled, also
\* when units failed; and one that started nothing may be canceled whatever was skipped.
Summary(r) ==
    CASE ~Some(r, ResultStatus \ Good) -> "success"
      [] Some(r, Good) /\ Some(r, ResultStatus \ Good) -> "partial_failed"
      [] ~Some(r, Good) /\ Some(r, {"canceled_unknown"}) -> "canceled"
      [] OTHER -> "all_failed"
GivenUp(r) == \A s \in Stages : phase[r][s] = "skipped"
OutcomeMatchesResults ==
    \A r \in Run : run[r].status \in Settled =>
        \/ run[r].status = Summary(r)
        \/ run[r].status = "partial_failed" /\ Summary(r) = "success" /\ GivenUp(r)
        \/ run[r].status = "canceled" /\ Summary(r) = "all_failed" /\ run[r].cancel
        \/ run[r].status = "canceled" /\ ~Some(r, Started)

\* A run that is no longer active is closed everywhere: no unit row, step or phase
\* is open, and the task ended the way the run did.
SettledRunIsClosed ==
    \A r \in Run : run[r].status \in Settled =>
        /\ ~Some(r, Open)
        /\ \A u \in Unit : step[r][u] # "running"
        /\ \A s \in Stages : phase[r][s] # "pending"
        /\ task[r] \in CASE run[r].status = "success" -> {"success"}
                          [] run[r].status = "canceled" -> {"canceled"}
                          [] run[r].status = "all_failed" -> {"failed"}
                          [] OTHER -> {"failed", "canceled"}

\* The environment's last_deployment_status is that of its latest claimed run: no
\* way to end a run forgets the environment row, and none overwrites a later one's.
EnvironmentReportsLatestRun ==
    \A r \in Run :
        /\ run[r].status \notin {"none", "queued"}
        /\ \A q \in Run : q > r /\ run[q].env = run[r].env => run[q].status = "queued"
        => env[run[r].env].last = (IF run[r].status = "reconciling" THEN "running"
                                   ELSE run[r].status)

\* While an environment reports success, the runtime state of every unit, the
\* skipped ones included, is what its current release asks for.
CurrentReleaseIsDeployed ==
    \A e \in Env : env[e].last = "success" =>
        \A u \in Unit : IF Manifest[env[e].release][u] = "disabled"
                        THEN state[e][u] \in {"absent", "stopped"}
                        ELSE state[e][u] = Manifest[env[e].release][u]

\* The plan a run carries out is never stale: for a unit it has not touched, the
\* plan made now would say the same.
PlanStaysFresh ==
    \A r \in Run : run[r].status \in Active =>
        \A u \in Unit : result[r][u] \in {"pending", "skipped"} =>
            action[r][u] = Classify(run[r].env, run[r].release, run[r].mode, u)

\* While something of a run may still execute on a target, the unit's row does not
\* claim that it succeeded or never started.
NoFalseReport ==
    \A r \in Run, u \in Unit : remote[r][u] # "none"
        => result[r][u] \in {"running", "failed", "canceled_unknown"}

\* A closed unit row and a settled run never change again, and a run waiting for
\* confirmation leaves that state only by settling.
ResultsAreFinal ==
    [][\A r \in Run :
          /\ \A u \in Unit : result[r][u] \notin Open \cup {"none"} => result'[r][u] = result[r][u]
          /\ run[r].status \in Settled => run'[r] = run[r]
          /\ run[r].status = "reconciling" => run'[r].status \in Settled \cup {"reconciling"}
      ]_vars
-----------------------------------------------------------------------------
(* The promise made to whoever deploys, and liveness. *)

LifeOf(status) == CASE status = "none" -> "new"
                    [] status = "queued" -> "waiting"
                    [] status = "running" -> "working"
                    [] status = "reconciling" -> "suspended"
                    [] OTHER -> "over"

Life == [r \in Run |-> LifeOf(run[r].status)]
Where == [r \in Run |-> run[r].env]
What == [r \in Run |-> run[r].release]
Current == [e \in Env |-> env[e].release]

Lease == INSTANCE EnvironmentLease WITH
    life <- Life, where <- Where, what <- What, current <- Current

\* The orchestrator keeps the promise: environment_deployment_runs.status and
\* current_app_release_id move only as the abstract lease does.
KeepsLease == Lease!Spec

\* The executor task and a signalling handler are driven by the runtime, a command
\* that has been cancelled is killed, systemd starts the process again.  A command
\* nobody cancels may run for ever.
Fairness ==
    /\ \A r \in Run : WF_vars(Executor(r)) /\ WF_vars(SignalCancel(r))
    /\ \A r \in Run, u \in Unit :
          WF_vars(signal[r] = "cancelled" /\ \E outcome \in Outcomes : UnitReturns(r, u, outcome))
    /\ WF_vars(Startup)

FairSpec == Spec /\ Fairness

\* A cancellation request that a running run accepted ends it: the executor settles
\* it, or a restart leaves it for an operator to confirm.
CancellationSettles ==
    \A r \in Run : (r \in cancelling /\ run[r].status = "running") ~> run[r].status # "running"

\* A running run never waits for anything but a command that is still executing.
ExecutorNeverStalls ==
    \A r \in Run : []<>(run[r].status # "running" \/ \E u \in Unit : job[r][u] = "busy")
-----------------------------------------------------------------------------
(* What the plan document says, and the program does not do. *)

\* docs/plans/2026-07-11-001:359 and :384: a unit whose state could not be verified
\* is never skipped.  The runtime state a plan is made from is only written after a
\* success, so it still says "healthy" about a unit a failed run has changed.
SkipIsTrustworthy ==
    \A r \in Run, u \in Unit :
        run[r].status = "queued" /\ result[r][u] = "skipped" => u \notin dirty[run[r].env]
=============================================================================
