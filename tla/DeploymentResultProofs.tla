----------------------- MODULE DeploymentResultProofs -----------------------
(*****************************************************************************)
(* What becomes of one run: its unit rows, its steps and phases, its task    *)
(* and the status it settles on.                                             *)
(*                                                                           *)
(* Every step is, for each run, one of a few moves (Move): most leave the    *)
(* run alone, each of the others touches a named part of it.  From then on   *)
(* the proofs speak of the moves of one run and never open an action again.  *)
(*                                                                           *)
(* None of the properties is inductive.  They rest on Agreed, which ties the *)
(* rows in the database to what the executor task holds in memory: while it  *)
(* works on a wave the rows that are running are the units in flight, the    *)
(* rows that are pending are those it has still to start, and each unit it   *)
(* took comes after units that all succeeded.                                *)
(*****************************************************************************)
EXTENDS DeploymentOrchestratorProofs
-----------------------------------------------------------------------------
(* What one step does to the rows, the executor and the units in flight of   *)
(* one run.                                                                  *)

PlanKept(r) == /\ run'[r].env = run[r].env /\ run'[r].release = run[r].release
               /\ run'[r].mode = run[r].mode /\ action'[r] = action[r]
               /\ run[r].cancel => run'[r].cancel
Kept(r) == /\ run'[r] = run[r] /\ action'[r] = action[r] /\ result'[r] = result[r]
           /\ task'[r] = task[r] /\ phase'[r] = phase[r] /\ step'[r] = step[r]
Aside(r) == exec'[r] = exec[r] /\ job'[r] = job[r] /\ remote'[r] = remote[r]
Same(r) == Kept(r) /\ Aside(r)
PhasesClosed(r) == \A s \in Stages : phase'[r][s] = ClosePhases(r)[s]
Cell(new, old, u, x) == new[u] = x /\ \A v \in Unit \ {u} : new[v] = old[v]

\* the state a unit that was carried out is in
Aim(r, u) == IF action[r][u] = "stop" THEN "stopped" ELSE Manifest[run[r].release][u]

Created(r) ==
    /\ run[r].status = "none" /\ run'[r].status = "queued" /\ ~run'[r].cancel
    /\ \A q \in Run : q < r => run[q].status # "none"
    /\ \A q \in Run : run[q].env = run'[r].env => run[q].status \notin Active
    /\ exec[r].pc = "off" /\ exec'[r].pc = "handler" /\ exec'[r].pending = exec[r].pending
    /\ \A u \in Unit :
          /\ action'[r][u] = Classify(run'[r].env, run'[r].release, run'[r].mode, u)
          /\ result'[r][u] = IF action'[r][u] = "skip" THEN "skipped" ELSE "pending"
    /\ \A s \in Stages : phase'[r][s] = "pending"
    /\ task'[r] = "queued" /\ step'[r] = step[r] /\ job'[r] = job[r] /\ remote'[r] = remote[r]

\* the executor is spawned, dropped, gives up or ends
Leaves(r) ==
    /\ Kept(r)
    /\ \/ exec'[r].pc \in {"error", "cleanup", "gone"}
       \/ exec'[r].pc = "off" /\ exec'[r].pending = {}
       \/ /\ exec[r].pc = "handler" /\ exec'[r].pc = "claim"
          /\ exec'[r].pending = exec[r].pending
    /\ \A u \in Unit : /\ job'[r][u] \in {job[r][u], "none"}
                       /\ remote[r][u] = "none" => remote'[r][u] = "none"

Withdrawn(r) ==
    /\ run[r].status = "queued" /\ run'[r].status = "canceled"
    /\ PlanKept(r) /\ PhasesClosed(r) /\ step'[r] = step[r] /\ Aside(r)
    /\ \A u \in Unit : result'[r][u] = IF result[r][u] = "pending" THEN "not_started"
                                       ELSE result[r][u]
    /\ task'[r] = IF task[r] = "queued" THEN "canceled" ELSE task[r]

Asked(r) ==
    /\ run[r].status = "running" /\ run'[r].status = "running"
    /\ PlanKept(r) /\ Aside(r)
    /\ result'[r] = result[r] /\ task'[r] = task[r] /\ phase'[r] = phase[r] /\ step'[r] = step[r]

Confirmed(r) ==
    /\ run[r].status = "reconciling" /\ run'[r].status = Remainder(result[r])
    /\ PlanKept(r) /\ Aside(r)
    /\ result'[r] = result[r] /\ phase'[r] = phase[r] /\ step'[r] = step[r]
    /\ task'[r] = IF run'[r].status = "canceled" THEN "canceled" ELSE "failed"

Begun(r) ==
    /\ run[r].status = "queued" /\ run'[r].status = "running"
    /\ PlanKept(r)
    /\ result'[r] = result[r] /\ phase'[r] = phase[r] /\ step'[r] = step[r]
    /\ task'[r] = "running" /\ job'[r] = job[r] /\ remote'[r] = remote[r]
    /\ exec[r].pc = "claim" /\ exec'[r].pc = "loop" /\ exec'[r].pending = exec[r].pending
    /\ exec'[r].todo = {u \in Unit : action[r][u] # "skip"}

Turned(r) ==
    /\ Kept(r) /\ job'[r] = job[r] /\ remote'[r] = remote[r]
    /\ exec[r].pc = "loop"
    /\ \/ exec'[r].pc = "settle"
       \/ exec[r].halt = {} /\ exec[r].todo = {} /\ exec'[r].pc = "count"
       \/ /\ exec[r].halt = {} /\ exec'[r].pc = "wave"
          /\ exec'[r].pending = FirstWave(r, exec[r].todo)
          /\ exec'[r].todo = exec[r].todo \ FirstWave(r, exec[r].todo)

Launched(r) ==
    /\ run'[r] = run[r] /\ action'[r] = action[r] /\ task'[r] = task[r] /\ phase'[r] = phase[r]
    /\ exec[r].pc = "wave" /\ exec[r].halt = {} /\ Cardinality(Live(r)) < MaxParallel
    /\ exec'[r].pc = "wave" /\ exec'[r].halt = exec[r].halt /\ exec'[r].todo = exec[r].todo
    /\ \E u \in exec[r].pending :
          /\ result[r][u] = "pending"
          /\ exec'[r].pending = exec[r].pending \ {u}
          /\ Cell(result'[r], result[r], u, "running") /\ Cell(step'[r], step[r], u, "running")
          /\ Cell(job'[r], job[r], u, "busy") /\ Cell(remote'[r], remote[r], u, "held")

Returned(r) ==
    /\ Kept(r) /\ exec'[r] = exec[r]
    /\ \E u \in Unit, outcome \in Outcomes, left \in {"none", "stray"} :
          /\ job[r][u] = "busy" /\ (outcome = "success" => left = "none")
          /\ Cell(job'[r], job[r], u, outcome) /\ Cell(remote'[r], remote[r], u, left)

Joined(r) ==
    /\ run'[r] = run[r] /\ action'[r] = action[r] /\ task'[r] = task[r] /\ phase'[r] = phase[r]
    /\ remote'[r] = remote[r]
    /\ exec[r].pc = "wave" /\ exec'[r].pc = "wave" /\ exec[r].halt \subseteq exec'[r].halt
    /\ exec'[r].todo = exec[r].todo /\ exec'[r].pending = exec[r].pending
    /\ \E u \in Unit :
          /\ job[r][u] \in Outcomes
          /\ job[r][u] = "failed" => "failed" \in exec'[r].halt
          /\ job[r][u] = "canceled_unknown" => "canceled" \in exec'[r].halt
          /\ Cell(result'[r], result[r], u,
                  IF result[r][u] = "running" THEN job[r][u] ELSE result[r][u])
          /\ Cell(step'[r], step[r], u, IF job[r][u] = "success" THEN "success" ELSE "failed")
          /\ Cell(job'[r], job[r], u, "none")
          /\ job[r][u] = "success" => state'[run[r].env][u] = Aim(r, u)

Drained(r) ==
    /\ Kept(r) /\ job'[r] = job[r] /\ remote'[r] = remote[r]
    /\ exec[r].pc = "wave" /\ ~CanStart(r) /\ Live(r) = {}
    /\ exec'[r].pc = "loop" /\ exec'[r].pending = {}
    /\ exec'[r].todo = exec[r].todo /\ exec'[r].halt = exec[r].halt

Dropped(r) ==
    /\ run'[r] = run[r] /\ action'[r] = action[r] /\ task'[r] = task[r] /\ phase'[r] = phase[r]
    /\ step'[r] = step[r] /\ job'[r] = job[r] /\ remote'[r] = remote[r]
    /\ exec[r].pc = "settle" /\ exec'[r].pc = "count"
    /\ \A u \in Unit : result'[r][u] = IF result[r][u] = "pending" THEN "not_started"
                                       ELSE result[r][u]

Counted(r) ==
    /\ Kept(r) /\ job'[r] = job[r] /\ remote'[r] = remote[r]
    /\ exec[r].pc = "count" /\ exec'[r].pc = "commit" /\ exec'[r].halt = exec[r].halt
    /\ exec'[r].verdict = Verdict(r, "canceled" \in exec[r].halt)

Finished(r) ==
    /\ run[r].status = "running" /\ run'[r].status = exec[r].verdict
    /\ PlanKept(r) /\ \A s \in Stages : phase'[r][s] # "pending"
    /\ result'[r] = result[r] /\ step'[r] = step[r] /\ job'[r] = job[r] /\ remote'[r] = remote[r]
    /\ task'[r] = TaskVerdict(exec[r].verdict, "canceled" \in exec[r].halt)
    /\ exec[r].pc = "commit" /\ exec'[r].pc = "cleanup"

Failed(r) ==
    /\ run[r].status \in {"queued", "running"} /\ run'[r].status = Remainder(Close(r))
    /\ PlanKept(r) /\ PhasesClosed(r) /\ job'[r] = job[r] /\ remote'[r] = remote[r]
    /\ result'[r] = Close(r) /\ step'[r] = CloseSteps(r)
    /\ task'[r] = IF task[r] \notin {"queued", "running"} THEN task[r]
                  ELSE IF run'[r].status = "canceled" THEN "canceled" ELSE "failed"
    /\ exec[r].pc = "error" /\ exec'[r].pc = "cleanup"

Restarted(r) ==
    /\ run[r].status \in {"queued", "running"} /\ run'[r].status = AfterRestart(run[r].status)
    /\ PlanKept(r) /\ PhasesClosed(r) /\ Aside(r) /\ exec[r].pc \in {"off", "gone"}
    /\ result'[r] = Close(r)
    /\ step'[r] = IF run[r].status = "running" THEN CloseSteps(r) ELSE step[r]
    /\ run[r].status = "queued" => task'[r] = IF task[r] \in {"queued", "running"}
                                              THEN "canceled" ELSE task[r]

Ended(r) ==
    /\ Kept(r) /\ exec'[r] = exec[r] /\ job'[r] = job[r]
    /\ \E u \in Unit : Cell(remote'[r], remote[r], u, "none")

Move(r) ==
    \/ Same(r) \/ Created(r) \/ Leaves(r) \/ Withdrawn(r) \/ Asked(r) \/ Confirmed(r)
    \/ Begun(r) \/ Turned(r) \/ Launched(r) \/ Returned(r) \/ Joined(r) \/ Drained(r)
    \/ Dropped(r) \/ Counted(r) \/ Finished(r) \/ Failed(r) \/ Restarted(r) \/ Ended(r)

Alone(r) == \A q \in Run \ {r} : Same(q)
-----------------------------------------------------------------------------
(* Every action is one of these for its run, and leaves the others alone. *)

LEMMA Typed ==
    ASSUME Inv
    PROVE  /\ run \in [Run -> RunRow] /\ exec \in [Run -> ExecutorTask]
           /\ action \in [Run -> [Unit -> {"none", "skip", "stop", "deploy"}]]
           /\ result \in [Run -> [Unit -> ResultStatus]]
           /\ task \in [Run -> {"none", "queued", "running", "success", "failed", "canceled"}]
           /\ phase \in [Run -> [Stages -> {"none", "pending", "success", "failed", "skipped"}]]
           /\ step \in [Run -> [Unit -> {"none", "running", "success", "failed"}]]
           /\ job \in [Run -> [Unit -> Outcomes \cup {"none", "busy"}]]
           /\ remote \in [Run -> [Unit -> {"none", "held", "stray", "interrupted"}]]
BY DEF Inv, TypeOK

\* moving the executor
LEMMA GoesTo ==
    ASSUME Inv, NEW r \in Run, NEW pc, exec' = [exec EXCEPT ![r].pc = pc]
    PROVE  /\ exec'[r].pc = pc /\ exec'[r].todo = exec[r].todo
           /\ exec'[r].pending = exec[r].pending /\ exec'[r].halt = exec[r].halt
           /\ exec'[r].verdict = exec[r].verdict
           /\ \A q \in Run \ {r} : exec'[q] = exec[q]
<1>1. exec \in [Run -> ExecutorTask]
  BY Typed
<1> QED BY <1>1 DEF ExecutorTask

\* giving a run another status
LEMMA StatusGoes ==
    ASSUME Inv, NEW r \in Run, NEW status, run' = [run EXCEPT ![r].status = status],
           action' = action
    PROVE  /\ run'[r].status = status /\ PlanKept(r)
           /\ \A q \in Run \ {r} : run'[q] = run[q]
<1>1. run \in [Run -> RunRow]
  BY Typed
<1> QED BY <1>1 DEF RunRow, PlanKept

\* writing one cell, as the row of its run sees it
LEMMA CellWritten ==
    ASSUME NEW T, NEW V, NEW f \in [Run -> [T -> V]], NEW r \in Run, NEW u \in T, NEW x,
           NEW g, g = [f EXCEPT ![r][u] = x], T = Unit
    PROVE  /\ Cell(g[r], f[r], u, x)
           /\ \A q \in Run \ {r} : g[q] = f[q]
BY DEF Cell

LEMMA CreateRunMoves ==
    ASSUME Inv, NEW r \in Run, NEW e \in Env, NEW rel \in Release, NEW mode \in Modes,
           CreateRun(r, e, rel, mode)
    PROVE  Created(r) /\ Alone(r)
<1>1. /\ run[r].status = "none" /\ Unlocked(e)
      /\ \A q \in Run : q < r => run[q].status # "none"
      /\ run' = [run EXCEPT ![r] = [env |-> e, release |-> rel, mode |-> mode,
                                    status |-> "queued", cancel |-> FALSE]]
      /\ action' = [action EXCEPT ![r] = [u \in Unit |-> Classify(e, rel, mode, u)]]
      /\ result' = [result EXCEPT ![r] = [u \in Unit |->
                       IF Classify(e, rel, mode, u) = "skip" THEN "skipped" ELSE "pending"]]
      /\ task' = [task EXCEPT ![r] = "queued"]
      /\ phase' = [phase EXCEPT ![r] = [s \in Stages |-> "pending"]]
      /\ exec' = [exec EXCEPT ![r].pc = "handler"]
      /\ UNCHANGED <<step, job, remote>>
  BY DEF CreateRun
<1>2. exec[r].pc = "off"
  BY <1>1 DEF Inv, Control
<1>3. /\ run'[r].status = "queued" /\ run'[r].env = e /\ ~run'[r].cancel
      /\ run'[r].release = rel /\ run'[r].mode = mode
      /\ \A q \in Run \ {r} : run'[q] = run[q] /\ action'[q] = action[q] /\ result'[q] = result[q]
                              /\ task'[q] = task[q] /\ phase'[q] = phase[q]
  BY <1>1, Typed
<1>4. \A u \in Unit :
          /\ action'[r][u] = Classify(e, rel, mode, u)
          /\ result'[r][u] = IF Classify(e, rel, mode, u) = "skip" THEN "skipped" ELSE "pending"
  BY <1>1, Typed
<1>5. \A s \in Stages : phase'[r][s] = "pending"
  BY <1>1, Typed
<1>6. Created(r)
  BY <1>1, <1>2, <1>3, <1>4, <1>5, GoesTo, Typed DEF Created, Unlocked
<1>7. Alone(r)
  BY <1>1, <1>3, GoesTo DEF Alone, Same, Kept, Aside
<1> QED BY <1>6, <1>7

LEMMA SpawnMoves ==
    ASSUME Inv, NEW r \in Run, Spawn(r) \/ Disconnect(r)
    PROVE  Leaves(r) /\ Alone(r)
<1>1. PICK pc \in {"claim", "gone"} : exec' = [exec EXCEPT ![r].pc = pc]
  BY DEF Spawn, Disconnect
<1>2. exec[r].pc = "handler" /\ UNCHANGED <<run, action, result, task, phase, step, job, remote>>
  BY DEF Spawn, Disconnect, dbVars
<1> QED BY <1>1, <1>2, GoesTo DEF Leaves, Alone, Same, Kept, Aside

LEMMA CancelQueuedMoves ==
    ASSUME Inv, NEW r \in Run, CancelQueued(r)
    PROVE  Withdrawn(r) /\ Alone(r)
<1>1. /\ run[r].status = "queued"
      /\ run' = [run EXCEPT ![r] = [@ EXCEPT !.status = "canceled", !.cancel = TRUE]]
      /\ result' = [result EXCEPT ![r] = [u \in Unit |->
                       IF @[u] = "pending" THEN "not_started" ELSE @[u]]]
      /\ task' = [task EXCEPT ![r] = IF @ = "queued" THEN "canceled" ELSE @]
      /\ phase' = [phase EXCEPT ![r] = ClosePhases(r)]
      /\ UNCHANGED <<action, step, exec, job, remote>>
  BY DEF CancelQueued
<1>2. /\ run'[r].status = "canceled" /\ PlanKept(r)
      /\ \A q \in Run \ {r} : run'[q] = run[q]
  BY <1>1, Typed DEF RunRow, PlanKept
<1>3. /\ \A u \in Unit : result'[r][u] = IF result[r][u] = "pending" THEN "not_started"
                                         ELSE result[r][u]
      /\ \A q \in Run \ {r} : result'[q] = result[q]
  BY <1>1, Typed
<1>4. PhasesClosed(r) /\ \A q \in Run \ {r} : phase'[q] = phase[q]
  BY <1>1, Typed DEF PhasesClosed, ClosePhases
<1>5. /\ task'[r] = IF task[r] = "queued" THEN "canceled" ELSE task[r]
      /\ \A q \in Run \ {r} : task'[q] = task[q]
  BY <1>1, Typed
<1> QED BY <1>1, <1>2, <1>3, <1>4, <1>5 DEF Withdrawn, Alone, Same, Kept, Aside

LEMMA CancelRunningMoves ==
    ASSUME Inv, NEW r \in Run, CancelRunning(r)
    PROVE  Asked(r) /\ Alone(r)
<1>1. /\ run[r].status = "running"
      /\ run' = [run EXCEPT ![r].cancel = TRUE]
      /\ UNCHANGED <<action, result, task, phase, step, exec, job, remote>>
  BY DEF CancelRunning
<1>2. /\ run'[r].status = run[r].status /\ PlanKept(r)
      /\ \A q \in Run \ {r} : run'[q] = run[q]
  BY <1>1, Typed DEF RunRow, PlanKept
<1> QED BY <1>1, <1>2 DEF Asked, Alone, Same, Kept, Aside

\* actions that touch none of the rows, nor the executor
LEMMA SignalMoves ==
    ASSUME Inv, NEW r \in Run, SignalCancel(r) \/ DropCancel(r)
    PROVE  \A q \in Run : Same(q)
BY DEF SignalCancel, DropCancel, dbVars, Same, Kept, Aside

LEMMA ConfirmMoves ==
    ASSUME Inv, NEW r \in Run, Confirm(r)
    PROVE  Confirmed(r) /\ Alone(r)
<1> DEFINE final == Remainder(result[r])
<1>1. /\ run[r].status = "reconciling"
      /\ run' = [run EXCEPT ![r].status = final]
      /\ task' = [task EXCEPT ![r] = IF final = "canceled" THEN "canceled" ELSE "failed"]
      /\ UNCHANGED <<action, result, phase, step, exec, job, remote>>
  BY DEF Confirm, memVars
<1> HIDE DEF final
<1>2. /\ run'[r].status = final /\ PlanKept(r)
      /\ \A q \in Run \ {r} : run'[q] = run[q]
  BY <1>1, StatusGoes
<1>3. /\ task'[r] = IF final = "canceled" THEN "canceled" ELSE "failed"
      /\ \A q \in Run \ {r} : task'[q] = task[q]
  BY <1>1, Typed
<1> QED BY <1>1, <1>2, <1>3 DEF Confirmed, Alone, Same, Kept, Aside, final

LEMMA ClaimMoves ==
    ASSUME Inv, NEW r \in Run, Claim(r)
    PROVE  (Begun(r) \/ Leaves(r)) /\ Alone(r)
<1>1. exec[r].pc = "claim" /\ UNCHANGED <<action, result, phase, step, job, remote>>
  BY DEF Claim
<1>2. CASE run[r].status = "queued" /\ task[r] = "queued"
  <2>1. /\ run' = [run EXCEPT ![r].status = "running"] /\ task' = [task EXCEPT ![r] = "running"]
    BY <1>2 DEF Claim
  <2>2. exec' = [exec EXCEPT ![r] = [@ EXCEPT
              !.pc = "loop",
              !.todo = {u \in Unit : action[r][u] # "skip"},
              !.halt = Cancellation(r)]]
    BY <1>2 DEF Claim
  <2>3. /\ exec'[r].pc = "loop" /\ exec'[r].pending = exec[r].pending
        /\ exec'[r].todo = {u \in Unit : action[r][u] # "skip"}
        /\ \A q \in Run \ {r} : exec'[q] = exec[q]
    BY <2>2, Typed DEF ExecutorTask
  <2>4. task'[r] = "running" /\ \A q \in Run \ {r} : task'[q] = task[q]
    BY <2>1, Typed
  <2>5. /\ run'[r].status = "running" /\ PlanKept(r)
        /\ \A q \in Run \ {r} : run'[q] = run[q]
    BY <1>1, <2>1, StatusGoes
  <2>6. Begun(r)
    BY <1>1, <1>2, <2>3, <2>4, <2>5 DEF Begun
  <2>7. Alone(r)
    BY <1>1, <2>3, <2>4, <2>5 DEF Alone, Same, Kept, Aside
  <2> QED BY <2>6, <2>7
<1>3. CASE ~(run[r].status = "queued" /\ task[r] = "queued")
  <2>1. exec' = [exec EXCEPT ![r].pc = "error"] /\ UNCHANGED <<run, task>>
    BY <1>3 DEF Claim, Goto
  <2> QED BY <1>1, <2>1, GoesTo DEF Leaves, Alone, Same, Kept, Aside
<1> QED BY <1>2, <1>3

LEMMA NextWaveMoves ==
    ASSUME Inv, NEW r \in Run, NextWave(r)
    PROVE  Turned(r) /\ Alone(r)
<1> DEFINE wave == FirstWave(r, exec[r].todo)
<1>1. /\ exec[r].pc = "loop"
      /\ UNCHANGED <<run, action, result, task, phase, step, job, remote>>
  BY DEF NextWave, dbVars
<1>2. CASE exec[r].halt # {} /\ Goto(r, "settle")
  <2>1. exec' = [exec EXCEPT ![r].pc = "settle"]
    BY <1>2 DEF Goto
  <2> QED BY <1>1, <2>1, GoesTo DEF Turned, Alone, Same, Kept, Aside
<1>3. CASE exec[r].halt = {} /\ exec[r].todo = {} /\ Goto(r, "count")
  <2>1. exec' = [exec EXCEPT ![r].pc = "count"]
    BY <1>3 DEF Goto
  <2> QED BY <1>1, <1>3, <2>1, GoesTo DEF Turned, Alone, Same, Kept, Aside
<1>4. CASE exec' = [exec EXCEPT ![r] = [@ EXCEPT !.pc = "settle", !.halt = {"canceled"}]]
  <2>1. exec'[r].pc = "settle" /\ \A q \in Run \ {r} : exec'[q] = exec[q]
    BY <1>4, Typed DEF ExecutorTask
  <2> QED BY <1>1, <2>1 DEF Turned, Alone, Same, Kept, Aside
<1>5. CASE /\ exec[r].halt = {}
           /\ exec' = [exec EXCEPT ![r] = [@ EXCEPT !.pc = "wave", !.todo = exec[r].todo \ wave,
                                                    !.pending = wave, !.halt = Cancellation(r)]]
  <2> HIDE DEF wave
  <2>1. /\ exec'[r].pc = "wave" /\ exec'[r].pending = wave /\ exec'[r].todo = exec[r].todo \ wave
        /\ \A q \in Run \ {r} : exec'[q] = exec[q]
    BY <1>5, Typed DEF ExecutorTask
  <2>2. Turned(r)
    BY <1>1, <1>5, <2>1 DEF Turned, Kept, wave
  <2>3. Alone(r)
    BY <1>1, <2>1 DEF Alone, Same, Kept, Aside
  <2> QED BY <2>2, <2>3
<1> QED BY <1>2, <1>3, <1>4, <1>5 DEF NextWave

LEMMA StartUnitMoves ==
    ASSUME Inv, NEW r \in Run, NEW u \in Unit, StartUnit(r, u)
    PROVE  (Launched(r) \/ Leaves(r)) /\ Alone(r)
<1>1. /\ exec[r].pc = "wave" /\ exec[r].halt = {} /\ Cardinality(Live(r)) < MaxParallel
      /\ u \in exec[r].pending
      /\ UNCHANGED <<run, action, task, phase>>
  BY DEF StartUnit, CanStart
<1>2. CASE result[r][u] = "pending"
  <2>1. /\ result' = [result EXCEPT ![r][u] = "running"]
        /\ step' = [step EXCEPT ![r][u] = "running"]
        /\ exec' = [exec EXCEPT ![r].pending = @ \ {u}]
        /\ job' = [job EXCEPT ![r][u] = "busy"]
        /\ remote' = [remote EXCEPT ![r][u] = "held"]
    BY <1>2 DEF StartUnit
  <2>2. /\ exec'[r].pc = "wave" /\ exec'[r].halt = exec[r].halt /\ exec'[r].todo = exec[r].todo
        /\ exec'[r].pending = exec[r].pending \ {u}
        /\ \A q \in Run \ {r} : exec'[q] = exec[q]
    BY <1>1, <2>1, Typed DEF ExecutorTask
  <2>3. /\ Cell(result'[r], result[r], u, "running") /\ Cell(step'[r], step[r], u, "running")
        /\ Cell(job'[r], job[r], u, "busy") /\ Cell(remote'[r], remote[r], u, "held")
        /\ \A q \in Run \ {r} : /\ result'[q] = result[q] /\ step'[q] = step[q]
                                /\ job'[q] = job[q] /\ remote'[q] = remote[q]
    BY <2>1, CellWritten, Typed
  <2>4. Launched(r)
    BY <1>1, <1>2, <2>2, <2>3 DEF Launched
  <2>5. Alone(r)
    BY <1>1, <2>2, <2>3 DEF Alone, Same, Kept, Aside
  <2> QED BY <2>4, <2>5
<1>3. CASE result[r][u] # "pending"
  <2>1. /\ exec' = [exec EXCEPT ![r].pc = "error"]
        /\ job' = [job EXCEPT ![r] = [v \in Unit |-> "none"]]
        /\ remote' = [remote EXCEPT ![r] = [v \in Unit |->
                         IF @[v] = "held" THEN "stray" ELSE @[v]]]
        /\ UNCHANGED <<result, step>>
    BY <1>3 DEF StartUnit, Goto
  <2>2. /\ \A v \in Unit : /\ job'[r][v] = "none"
                           /\ remote[r][v] = "none" => remote'[r][v] = "none"
        /\ \A q \in Run \ {r} : job'[q] = job[q] /\ remote'[q] = remote[q]
    BY <2>1, Typed
  <2> QED BY <1>1, <2>1, <2>2, GoesTo DEF Leaves, Alone, Same, Kept, Aside
<1> QED BY <1>2, <1>3

LEMMA UnitReturnsMoves ==
    ASSUME Inv, NEW r \in Run, NEW u \in Unit, NEW outcome \in Outcomes,
           UnitReturns(r, u, outcome)
    PROVE  Returned(r) /\ Alone(r)
<1>1. PICK left \in {"none", "stray"} :
         /\ remote' = [remote EXCEPT ![r][u] = left]
         /\ outcome = "success" => left = "none"
  BY DEF UnitReturns
<1>2. /\ job[r][u] = "busy" /\ job' = [job EXCEPT ![r][u] = outcome]
      /\ UNCHANGED <<run, action, result, task, phase, step, exec>>
  BY DEF UnitReturns, dbVars
<1>3. /\ Cell(job'[r], job[r], u, outcome) /\ Cell(remote'[r], remote[r], u, left)
      /\ \A q \in Run \ {r} : job'[q] = job[q] /\ remote'[q] = remote[q]
  BY <1>1, <1>2, CellWritten, Typed
<1> QED BY <1>1, <1>2, <1>3 DEF Returned, Alone, Same, Kept, Aside

LEMMA JoinUnitMoves ==
    ASSUME Inv, NEW r \in Run, NEW u \in Unit, JoinUnit(r, u)
    PROVE  Joined(r) /\ Alone(r)
<1> DEFINE outcome == job[r][u]
           failed == IF outcome = "failed" THEN {"failed"} ELSE {}
           more == exec[r].pending # {} \/ Live(r) # {u}
           canceled == IF \/ outcome = "canceled_unknown"
                          \/ more /\ signal[r] = "cancelled" THEN {"canceled"} ELSE {}
           ended == IF result[r][u] = "running" THEN outcome ELSE result[r][u]
           closed == IF outcome = "success" THEN "success" ELSE "failed"
<1>1. /\ exec[r].pc = "wave" /\ outcome \in Outcomes
      /\ exec' = [exec EXCEPT ![r].halt = @ \cup failed \cup canceled]
      /\ UNCHANGED <<run, action, task, phase, remote>>
  BY DEF JoinUnit, Outcomes
<1>2. /\ job' = [job EXCEPT ![r][u] = "none"]
      /\ result' = [result EXCEPT ![r][u] = ended]
      /\ step' = [step EXCEPT ![r][u] = closed]
  BY DEF JoinUnit
<1>3. /\ outcome = "failed" => "failed" \in failed
      /\ outcome = "canceled_unknown" => "canceled" \in canceled
  OBVIOUS
<1> HIDE DEF failed, canceled, ended, closed
<1>4. /\ exec'[r].pc = "wave" /\ exec'[r].halt = exec[r].halt \cup failed \cup canceled
      /\ exec'[r].todo = exec[r].todo /\ exec'[r].pending = exec[r].pending
      /\ \A q \in Run \ {r} : exec'[q] = exec[q]
  BY <1>1, Typed DEF ExecutorTask
<1>5. /\ Cell(job'[r], job[r], u, "none") /\ Cell(result'[r], result[r], u, ended)
      /\ Cell(step'[r], step[r], u, closed)
      /\ \A q \in Run \ {r} : job'[q] = job[q] /\ result'[q] = result[q] /\ step'[q] = step[q]
  BY <1>2, CellWritten, Typed
<1>6. outcome = "success" => state'[run[r].env][u] = Aim(r, u)
  <2>1. run[r].env \in Env
    BY <1>1, Typed DEF Inv, Control, Working
  <2>2. state \in [Env -> [Unit -> Version \cup {"absent", "stopped"}]]
    BY DEF Inv, TypeOK
  <2>3. outcome = "success" => state' = [state EXCEPT ![run[r].env][u] = Aim(r, u)]
    BY DEF JoinUnit, Aim
  <2> QED BY <2>1, <2>2, <2>3
<1>7. Joined(r)
  BY <1>1, <1>3, <1>4, <1>5, <1>6 DEF Joined, ended, closed
<1>8. Alone(r)
  BY <1>1, <1>4, <1>5 DEF Alone, Same, Kept, Aside
<1> QED BY <1>7, <1>8

LEMMA EndWaveMoves ==
    ASSUME Inv, NEW r \in Run, EndWave(r)
    PROVE  Drained(r) /\ Alone(r)
<1>1. /\ exec[r].pc = "wave" /\ ~CanStart(r) /\ Live(r) = {}
      /\ exec' = [exec EXCEPT ![r] = [@ EXCEPT !.pc = "loop", !.pending = {}]]
      /\ UNCHANGED <<run, action, result, task, phase, step, job, remote>>
  BY DEF EndWave, WaveOver, dbVars
<1>2. /\ exec'[r].pc = "loop" /\ exec'[r].pending = {}
      /\ exec'[r].todo = exec[r].todo /\ exec'[r].halt = exec[r].halt
      /\ \A q \in Run \ {r} : exec'[q] = exec[q]
  BY <1>1, Typed DEF ExecutorTask
<1> QED BY <1>1, <1>2 DEF Drained, Alone, Same, Kept, Aside

LEMMA SettlePendingMoves ==
    ASSUME Inv, NEW r \in Run, SettlePending(r)
    PROVE  Dropped(r) /\ Alone(r)
<1>1. /\ exec[r].pc = "settle" /\ exec' = [exec EXCEPT ![r].pc = "count"]
      /\ result' = [result EXCEPT ![r] = [u \in Unit |->
                       IF @[u] = "pending" THEN "not_started" ELSE @[u]]]
      /\ UNCHANGED <<run, action, task, phase, step, job, remote>>
  BY DEF SettlePending, Goto
<1>2. /\ \A u \in Unit : result'[r][u] = IF result[r][u] = "pending" THEN "not_started"
                                         ELSE result[r][u]
      /\ \A q \in Run \ {r} : result'[q] = result[q]
  BY <1>1, Typed
<1> QED BY <1>1, <1>2, GoesTo DEF Dropped, Alone, Same, Kept, Aside

LEMMA CountResultsMoves ==
    ASSUME Inv, NEW r \in Run, CountResults(r)
    PROVE  Counted(r) /\ Alone(r)
<1> DEFINE verdict == Verdict(r, "canceled" \in exec[r].halt)
<1>1. /\ exec[r].pc = "count"
      /\ exec' = [exec EXCEPT ![r] = [@ EXCEPT !.pc = "commit", !.verdict = verdict]]
      /\ UNCHANGED <<run, action, result, task, phase, step, job, remote>>
  BY DEF CountResults, dbVars
<1> HIDE DEF verdict
<1>2. /\ exec'[r].pc = "commit" /\ exec'[r].halt = exec[r].halt /\ exec'[r].verdict = verdict
      /\ \A q \in Run \ {r} : exec'[q] = exec[q]
  BY <1>1, Typed DEF ExecutorTask
<1>3. Counted(r)
  BY <1>1, <1>2 DEF Counted, Kept, verdict
<1>4. Alone(r)
  BY <1>1, <1>2 DEF Alone, Same, Kept, Aside
<1> QED BY <1>3, <1>4

LEMMA FinalizeMoves ==
    ASSUME Inv, NEW r \in Run, Finalize(r)
    PROVE  Finished(r) /\ Alone(r)
<1> DEFINE verdict == exec[r].verdict
<1>1. /\ exec[r].pc = "commit" /\ exec' = [exec EXCEPT ![r].pc = "cleanup"]
      /\ run' = [run EXCEPT ![r].status = IF @ = "running" THEN verdict ELSE @]
      /\ task' = [task EXCEPT ![r] = TaskVerdict(verdict, "canceled" \in exec[r].halt)]
      /\ phase' = [phase EXCEPT ![r] = [s \in Stages |-> StageResult(r, s)]]
      /\ UNCHANGED <<action, result, step, job, remote>>
  BY DEF Finalize, Goto
<1>2. run[r].status = "running"
  BY <1>1 DEF Inv, Control, Working
<1>3. run' = [run EXCEPT ![r].status = verdict]
  BY <1>1, <1>2, Typed DEF RunRow
<1>4. /\ run'[r].status = verdict /\ PlanKept(r)
      /\ \A q \in Run \ {r} : run'[q] = run[q]
  BY <1>1, <1>3, StatusGoes
<1>5. /\ \A s \in Stages : phase'[r][s] # "pending"
      /\ \A q \in Run \ {r} : phase'[q] = phase[q]
  <2>1. \A s \in Stages : phase'[r][s] = StageResult(r, s)
    BY <1>1, Typed
  <2>2. \A s : StageResult(r, s) # "pending"
    BY DEF StageResult
  <2> QED BY <1>1, <2>1, <2>2, Typed
<1>6. /\ task'[r] = TaskVerdict(verdict, "canceled" \in exec[r].halt)
      /\ \A q \in Run \ {r} : task'[q] = task[q]
  BY <1>1, Typed
<1>7. Finished(r)
  BY <1>1, <1>2, <1>4, <1>5, <1>6, GoesTo DEF Finished
<1>8. Alone(r)
  BY <1>1, <1>4, <1>5, <1>6, GoesTo DEF Alone, Same, Kept, Aside
<1> QED BY <1>7, <1>8

LEMMA InternalErrorMoves ==
    ASSUME Inv, NEW r \in Run, InternalError(r)
    PROVE  Leaves(r) /\ Alone(r)
<1>1. /\ exec' = [exec EXCEPT ![r].pc = "error"]
      /\ job' = [job EXCEPT ![r] = [u \in Unit |-> "none"]]
      /\ remote' = [remote EXCEPT ![r] = [u \in Unit |->
                       IF @[u] = "held" THEN "stray" ELSE @[u]]]
      /\ UNCHANGED <<run, action, result, task, phase, step>>
  BY DEF InternalError, dbVars
<1>2. /\ \A v \in Unit : /\ job'[r][v] = "none"
                         /\ remote[r][v] = "none" => remote'[r][v] = "none"
      /\ \A q \in Run \ {r} : job'[q] = job[q] /\ remote'[q] = remote[q]
  BY <1>1, Typed
<1> QED BY <1>1, <1>2, GoesTo DEF Leaves, Alone, Same, Kept, Aside

\* the rows that were open are closed, whichever way the executor was lost
LEMMA ClosedRows ==
    ASSUME Inv, NEW r \in Run, phase'[r] = ClosePhases(r)
    PROVE  PhasesClosed(r)
BY Typed DEF ClosePhases, PhasesClosed

LEMMA FailRunMoves ==
    ASSUME Inv, NEW r \in Run, FailRun(r) \/ FailRunFails(r)
    PROVE  (Failed(r) \/ Leaves(r)) /\ Alone(r)
<1>1. /\ exec[r].pc = "error" /\ exec' = [exec EXCEPT ![r].pc = "cleanup"]
      /\ UNCHANGED <<action, job, remote>>
  BY DEF FailRun, FailRunFails, Goto, dbVars
<1>2. CASE UNCHANGED <<run, result, task, phase, step>>
  BY <1>1, <1>2, GoesTo DEF Leaves, Alone, Same, Kept, Aside
<1>3. CASE FailRun(r) /\ Failable(r)
  <2> DEFINE final == Remainder(Close(r))
             ended == IF task[r] \notin {"queued", "running"} THEN task[r]
                      ELSE IF final = "canceled" THEN "canceled" ELSE "failed"
  <2>1. /\ run[r].status \in {"queued", "running"}
        /\ result' = [result EXCEPT ![r] = Close(r)]
        /\ run' = [run EXCEPT ![r].status = final]
        /\ step' = [step EXCEPT ![r] = CloseSteps(r)]
        /\ phase' = [phase EXCEPT ![r] = ClosePhases(r)]
        /\ task' = [task EXCEPT ![r] = ended]
    BY <1>3 DEF FailRun, Failable
  <2> HIDE DEF final, ended
  <2>2. /\ run'[r].status = final /\ PlanKept(r)
        /\ \A q \in Run \ {r} : run'[q] = run[q]
    BY <1>1, <2>1, StatusGoes
  <2>3. /\ result'[r] = Close(r) /\ step'[r] = CloseSteps(r) /\ phase'[r] = ClosePhases(r)
        /\ task'[r] = ended
        /\ \A q \in Run \ {r} : /\ result'[q] = result[q] /\ step'[q] = step[q]
                                /\ phase'[q] = phase[q] /\ task'[q] = task[q]
    BY <2>1, Typed
  <2>4. Failed(r)
    BY <1>1, <2>1, <2>2, <2>3, ClosedRows, GoesTo DEF Failed, final, ended
  <2>5. Alone(r)
    BY <1>1, <2>2, <2>3, GoesTo DEF Alone, Same, Kept, Aside
  <2> QED BY <2>4, <2>5
<1> QED BY <1>2, <1>3 DEF FailRun, FailRunFails, dbVars

LEMMA CleanupMoves ==
    ASSUME Inv, NEW r \in Run, Cleanup(r)
    PROVE  Leaves(r) /\ Alone(r)
<1>1. /\ exec' = [exec EXCEPT ![r] = [NoExec EXCEPT !.pc = "gone"]]
      /\ UNCHANGED <<run, action, result, task, phase, step, job, remote>>
  BY DEF Cleanup, dbVars
<1>2. exec'[r].pc = "gone" /\ \A q \in Run \ {r} : exec'[q] = exec[q]
  BY <1>1, Typed DEF NoExec
<1> QED BY <1>1, <1>2 DEF Leaves, Alone, Same, Kept, Aside

LEMMA CrashMoves ==
    ASSUME Inv, Crash
    PROVE  \A r \in Run : Leaves(r)
<1> TAKE r \in Run
<1>1. /\ exec'[r] = IF exec[r].pc = "off" THEN NoExec ELSE [NoExec EXCEPT !.pc = "gone"]
      /\ \A u \in Unit : /\ job'[r][u] = "none"
                         /\ remote'[r][u] = IF remote[r][u] = "held" THEN "interrupted"
                                            ELSE remote[r][u]
      /\ UNCHANGED <<run, action, result, task, phase, step>>
  BY DEF Crash, dbVars
<1>2. \/ exec'[r].pc = "off" /\ exec'[r].pending = {}
      \/ exec'[r].pc = "gone"
  BY <1>1 DEF NoExec
<1> QED BY <1>1, <1>2 DEF Leaves, Kept

LEMMA StartupMoves ==
    ASSUME Inv, Startup
    PROVE  \A r \in Run : Restarted(r) \/ Same(r)
<1> TAKE r \in Run
<1>1. /\ run'[r] = [run[r] EXCEPT !.status = AfterRestart(run[r].status)]
      /\ result'[r] = IF run[r].status \in {"queued", "running"} THEN Close(r) ELSE result[r]
      /\ step'[r] = IF run[r].status = "running" THEN CloseSteps(r) ELSE step[r]
      /\ phase'[r] = IF run[r].status \in {"queued", "running"} THEN ClosePhases(r) ELSE phase[r]
      /\ task'[r] = CASE run[r].status = "queued" /\ task[r] \in {"queued", "running"} -> "canceled"
                      [] run[r].status = "running" /\ task[r] = "running" -> "failed"
                      [] OTHER -> task[r]
      /\ UNCHANGED <<action, exec, job, remote>>
      /\ exec[r].pc \in {"off", "gone"}
  BY DEF Startup, memVars, Inv, Control
<1>2. run[r] \in RunRow
  BY Typed
<1>3. /\ run'[r].status = AfterRestart(run[r].status)
      /\ PlanKept(r)
  BY <1>1, <1>2 DEF RunRow, PlanKept
<1>4. CASE run[r].status \in {"queued", "running"}
  BY <1>1, <1>3, <1>4, ClosedRows DEF Restarted, Aside
<1>5. CASE run[r].status \notin {"queued", "running"}
  <2>1. AfterRestart(run[r].status) = run[r].status
    BY <1>5 DEF AfterRestart
  <2>2. run'[r] = run[r]
    BY <1>1, <1>2, <2>1 DEF RunRow
  <2> QED BY <1>1, <1>5, <2>2 DEF Same, Kept, Aside
<1> QED BY <1>4, <1>5

LEMMA RemoteEndsMoves ==
    ASSUME Inv, NEW r \in Run, NEW u \in Unit, RemoteEnds(r, u)
    PROVE  Ended(r) /\ Alone(r)
<1>1. /\ remote' = [remote EXCEPT ![r][u] = "none"]
      /\ UNCHANGED <<run, action, result, task, phase, step, exec, job>>
  BY DEF RemoteEnds, dbVars, memVars
<1>2. /\ Cell(remote'[r], remote[r], u, "none")
      /\ \A q \in Run \ {r} : remote'[q] = remote[q]
  BY <1>1, CellWritten, Typed
<1> QED BY <1>1, <1>2 DEF Ended, Alone, Same, Kept, Aside

LEMMA Moves == Inv /\ [Next]_vars => \A r \in Run : Move(r)
<1> SUFFICES ASSUME Inv, [Next]_vars PROVE \A r \in Run : Move(r)
  OBVIOUS
<1>0. ASSUME NEW r \in Run, Move(r), Alone(r)
      PROVE  \A q \in Run : Move(q)
  BY <1>0 DEF Alone, Move
<1>1. ASSUME NEW r \in Run, NEW e \in Env, NEW rel \in Release, NEW mode \in Modes,
             CreateRun(r, e, rel, mode)
      PROVE  \A q \in Run : Move(q)
  BY <1>0, <1>1, CreateRunMoves DEF Move
<1>2. ASSUME NEW r \in Run, CancelQueued(r) \/ CancelRunning(r) \/ Confirm(r)
      PROVE  \A q \in Run : Move(q)
  <2>1. (Withdrawn(r) \/ Asked(r) \/ Confirmed(r)) /\ Alone(r)
    BY <1>2, CancelQueuedMoves, CancelRunningMoves, ConfirmMoves
  <2> QED BY <1>0, <2>1 DEF Move
<1>3. ASSUME NEW r \in Run, SignalCancel(r) \/ DropCancel(r)
      PROVE  \A q \in Run : Move(q)
  BY <1>3, SignalMoves DEF Move
<1>4. ASSUME NEW r \in Run,
             \/ Spawn(r) \/ Disconnect(r) \/ Claim(r) \/ InternalError(r) \/ FailRun(r)
             \/ FailRunFails(r) \/ Cleanup(r)
      PROVE  \A q \in Run : Move(q)
  <2>1. (Leaves(r) \/ Begun(r) \/ Failed(r)) /\ Alone(r)
    BY <1>4, SpawnMoves, ClaimMoves, InternalErrorMoves, FailRunMoves, CleanupMoves
  <2> QED BY <1>0, <2>1 DEF Move
<1>5. ASSUME NEW r \in Run,
             NextWave(r) \/ EndWave(r) \/ SettlePending(r) \/ CountResults(r) \/ Finalize(r)
      PROVE  \A q \in Run : Move(q)
  <2>1. (Turned(r) \/ Drained(r) \/ Dropped(r) \/ Counted(r) \/ Finished(r)) /\ Alone(r)
    BY <1>5, NextWaveMoves, EndWaveMoves, SettlePendingMoves, CountResultsMoves, FinalizeMoves
  <2> QED BY <1>0, <2>1 DEF Move
<1>6. ASSUME NEW r \in Run, NEW u \in Unit,
             \/ StartUnit(r, u) \/ JoinUnit(r, u) \/ RemoteEnds(r, u)
             \/ \E outcome \in Outcomes : UnitReturns(r, u, outcome)
      PROVE  \A q \in Run : Move(q)
  <2>1. (Launched(r) \/ Leaves(r) \/ Joined(r) \/ Ended(r) \/ Returned(r)) /\ Alone(r)
    BY <1>6, StartUnitMoves, JoinUnitMoves, RemoteEndsMoves, UnitReturnsMoves
  <2> QED BY <1>0, <2>1 DEF Move
<1>7. CASE Crash \/ Startup
  BY <1>7, CrashMoves, StartupMoves DEF Move
<1>8. CASE UNCHANGED vars
  BY <1>8 DEF vars, Move, Same, Kept, Aside
<1>9. ASSUME NEW r \in Run, Executor(r)
      PROVE  \A q \in Run : Move(q)
  BY <1>4, <1>5, <1>6, <1>9 DEF Executor
<1> QED BY <1>1, <1>2, <1>3, <1>4, <1>6, <1>7, <1>8, <1>9 DEF Next
-----------------------------------------------------------------------------
(* The rows, the executor's sets and the units in flight agree.               *)

RowsAgree(r) ==
    /\ \A u \in Unit : /\ result[r][u] = "none" <=> run[r].status = "none"
                       /\ result[r][u] = "skipped" <=> action[r][u] = "skip"
                       /\ step[r][u] = "running" => result[r][u] = "running"
    /\ run[r].status = "queued" =>
          task[r] = "queued" /\ \A u \in Unit : result[r][u] \in {"pending", "skipped"}
    /\ run[r].status = "running" => task[r] = "running"
    /\ run[r].status \in Settled \cup {"reconciling"} =>
          /\ \A u \in Unit : result[r][u] \notin Open
          /\ \A s \in Stages : phase[r][s] # "pending"

Taken(r) == {u \in Unit : action[r][u] # "skip" /\ u \notin exec[r].todo}

WavesAgree(r) ==
    /\ \A u \in Unit :
          /\ result[r][u] = "running" <=> job[r][u] # "none"
          /\ result[r][u] = "failed" => "failed" \in exec[r].halt
          /\ result[r][u] = "canceled_unknown" => "canceled" \in exec[r].halt
          /\ result[r][u] # "not_started"
          /\ u \in exec[r].todo \cup exec[r].pending => result[r][u] = "pending"
          /\ result[r][u] = "pending" /\ (exec[r].pc = "wave" \/ exec[r].halt = {})
                => u \in exec[r].todo \cup exec[r].pending
    /\ exec[r].pending \cap exec[r].todo = {}
    /\ \A u \in exec[r].todo, v \in Taken(r) : Wave(r, v) < Wave(r, u)
    /\ \A u, v \in Taken(r) : Wave(r, u) < Wave(r, v) => result[r][u] = "success"

ExecutorAgrees(r) ==
    /\ exec[r].pc \in {"off", "handler", "claim", "loop"} => exec[r].pending = {}
    /\ exec[r].pc \in {"loop", "wave"} => WavesAgree(r)
    /\ exec[r].pc = "settle" => \A u \in Unit : result[r][u] # "running"
    /\ exec[r].pc \in {"count", "commit"} => \A u \in Unit : result[r][u] \notin Open
    /\ exec[r].pc = "commit" => exec[r].verdict = Verdict(r, "canceled" \in exec[r].halt)

Agrees(r) == RowsAgree(r) /\ ExecutorAgrees(r)
Agreed == \A r \in Run : Agrees(r)

\* one run's rows, with what Inv says of them
LEMMA RowTyped ==
    ASSUME Inv, NEW r \in Run
    PROVE  /\ run[r].status \in Active \cup Settled \cup {"none"}
           /\ \A u \in Unit : /\ action[r][u] \in {"none", "skip", "stop", "deploy"}
                              /\ result[r][u] \in ResultStatus
                              /\ job[r][u] \in Outcomes \cup {"none", "busy"}
                              /\ job[r][u] # "none" => exec[r].pc = "wave"
           /\ exec[r].todo \subseteq Unit /\ exec[r].pending \subseteq Unit
           /\ exec[r].halt \subseteq {"failed", "canceled"}
           /\ exec[r].pc \in Working => run[r].status = "running"
           /\ exec[r].pc = "commit" => exec[r].verdict \in Settled
           /\ exec[r].pc = "off" <=> run[r].status = "none"
<1>1. run[r] \in RunRow /\ exec[r] \in ExecutorTask
  BY Typed
<1>2. \A u \in Unit : /\ action[r][u] \in {"none", "skip", "stop", "deploy"}
                      /\ result[r][u] \in ResultStatus
                      /\ job[r][u] \in Outcomes \cup {"none", "busy"}
  BY Typed
<1> QED BY <1>1, <1>2 DEF RunRow, ExecutorTask, Inv, Control, Planned

LEMMA WaveType == ASSUME NEW r \in Run, NEW u \in Unit PROVE Wave(r, u) \in Int
BY ConstantsAssumption DEF Wave

LEMMA InitAgreed == Init => Agreed
BY DEF Init, Agreed, Agrees, RowsAgree, ExecutorAgrees, NoExec, Settled

LEMMA KeptAgrees ==
    ASSUME Inv, NEW r \in Run, RowsAgree(r), Kept(r)
    PROVE  RowsAgree(r)'
BY DEF RowsAgree, Kept

LEMMA SameAgrees ==
    ASSUME Inv, NEW r \in Run, Agrees(r), Same(r)
    PROVE  Agrees(r)'
<1>1. /\ run'[r] = run[r] /\ action'[r] = action[r] /\ result'[r] = result[r]
      /\ exec'[r] = exec[r] /\ job'[r] = job[r]
  BY DEF Same, Kept, Aside
<1>2. WavesAgree(r) => WavesAgree(r)'
  BY <1>1 DEF WavesAgree, Taken, Wave
<1>3. ExecutorAgrees(r)'
  BY <1>1, <1>2 DEF Agrees, ExecutorAgrees, Verdict, Some
<1> QED BY <1>3, KeptAgrees DEF Agrees, Same

LEMMA CreatedAgrees ==
    ASSUME Inv, NEW r \in Run, Agrees(r), Created(r)
    PROVE  Agrees(r)'
<1>1. RowsAgree(r)'
  BY RowTyped DEF Agrees, RowsAgree, Created, Settled
<1>2. ExecutorAgrees(r)'
  BY DEF Agrees, ExecutorAgrees, Created
<1> QED BY <1>1, <1>2 DEF Agrees

LEMMA LeavesAgrees ==
    ASSUME Inv, NEW r \in Run, Agrees(r), Leaves(r)
    PROVE  Agrees(r)'
<1>1. ExecutorAgrees(r)'
  BY DEF Agrees, ExecutorAgrees, Leaves
<1> QED BY <1>1, KeptAgrees DEF Agrees, Leaves

\* ways to settle, and a restart, that leave no executor at work
LEMMA SettlingAgrees ==
    ASSUME Inv, NEW r \in Run, Agrees(r),
           Withdrawn(r) \/ Confirmed(r) \/ Finished(r) \/ Failed(r) \/ Restarted(r)
    PROVE  Agrees(r)'
<1>1. CASE Withdrawn(r)
  <2>1. RowsAgree(r)'
    BY <1>1, RowTyped
    DEF Agrees, RowsAgree, Withdrawn, PlanKept, PhasesClosed, ClosePhases, Settled, Open
  <2>2. ExecutorAgrees(r)'
    BY <1>1, RowTyped DEF Agrees, ExecutorAgrees, Withdrawn, Aside, Working
  <2> QED BY <2>1, <2>2 DEF Agrees
<1>2. CASE Confirmed(r)
  <2>1. run'[r].status \in Settled
    BY <1>2, RemainderType DEF Confirmed, Settled
  <2>2. RowsAgree(r)'
    BY <1>2, <2>1 DEF Agrees, RowsAgree, Confirmed, PlanKept, Settled
  <2>3. ExecutorAgrees(r)'
    BY <1>2, RowTyped DEF Agrees, ExecutorAgrees, Confirmed, Aside, Working
  <2> QED BY <2>2, <2>3 DEF Agrees
<1>3. CASE Finished(r)
  <2>1. run'[r].status \in Settled
    BY <1>3, RowTyped DEF Finished
  <2>2. RowsAgree(r)'
    BY <1>3, <2>1 DEF Agrees, RowsAgree, ExecutorAgrees, Finished, PlanKept, Settled
  <2>3. ExecutorAgrees(r)'
    BY <1>3 DEF ExecutorAgrees, Finished
  <2> QED BY <2>2, <2>3 DEF Agrees
<1>4. CASE Failed(r)
  <2>1. run'[r].status \in Settled
    BY <1>4, RemainderType DEF Failed, Settled
  <2>2. RowsAgree(r)'
    BY <1>4, <2>1, RowTyped
    DEF Agrees, RowsAgree, Failed, PlanKept, PhasesClosed, ClosePhases, Settled, Close,
        CloseSteps, Open
  <2>3. ExecutorAgrees(r)'
    BY <1>4 DEF ExecutorAgrees, Failed
  <2> QED BY <2>2, <2>3 DEF Agrees
<1>5. CASE Restarted(r)
  <2>1. run'[r].status \in {"canceled", "reconciling"}
    BY <1>5 DEF Restarted, AfterRestart
  <2>2. RowsAgree(r)'
    BY <1>5, <2>1, RowTyped
    DEF Agrees, RowsAgree, Restarted, PlanKept, PhasesClosed, ClosePhases, Settled, Close,
        CloseSteps, Open
  <2>3. ExecutorAgrees(r)'
    BY <1>5 DEF Agrees, ExecutorAgrees, Restarted, Aside
  <2> QED BY <2>2, <2>3 DEF Agrees
<1> QED BY <1>1, <1>2, <1>3, <1>4, <1>5

LEMMA BegunAgrees ==
    ASSUME Inv, NEW r \in Run, Agrees(r), Begun(r)
    PROVE  Agrees(r)'
<1>1. RowsAgree(r)'
  BY DEF Agrees, RowsAgree, Begun, PlanKept, Settled
<1>2. /\ exec[r].pending = {}
      /\ \A u \in Unit : /\ result[r][u] \in {"pending", "skipped"} /\ job[r][u] = "none"
                         /\ result[r][u] = "skipped" <=> action[r][u] = "skip"
  BY RowTyped DEF Agrees, RowsAgree, ExecutorAgrees, Begun
<1>3. WavesAgree(r)'
  <2>1. Taken(r)' = {}
    BY DEF Taken, Begun, PlanKept
  <2> QED BY <1>2, <2>1 DEF WavesAgree, Begun
<1> QED BY <1>1, <1>2, <1>3 DEF Agrees, ExecutorAgrees, Begun

LEMMA TurnedAgrees ==
    ASSUME Inv, NEW r \in Run, Agrees(r), Turned(r)
    PROVE  Agrees(r)'
<1>1. /\ exec[r].pending = {} /\ WavesAgree(r) /\ exec[r].pc = "loop" /\ run[r].status = "running"
      /\ result'[r] = result[r] /\ action'[r] = action[r] /\ job'[r] = job[r]
  BY RowTyped DEF Agrees, ExecutorAgrees, Turned, Kept, Working
<1>2. \A u \in Unit : job[r][u] = "none" /\ result[r][u] # "running"
  BY <1>1, RowTyped DEF WavesAgree
<1>3. ASSUME exec'[r].pc = "settle" PROVE ExecutorAgrees(r)'
  BY <1>1, <1>2, <1>3 DEF ExecutorAgrees
<1>4. ASSUME exec[r].halt = {}, exec[r].todo = {}, exec'[r].pc = "count"
      PROVE  ExecutorAgrees(r)'
  BY <1>1, <1>2, <1>4 DEF ExecutorAgrees, WavesAgree, Open
<1>5. ASSUME exec[r].halt = {}, exec'[r].pc = "wave",
             exec'[r].pending = FirstWave(r, exec[r].todo),
             exec'[r].todo = exec[r].todo \ FirstWave(r, exec[r].todo)
      PROVE  WavesAgree(r)'
  <2> DEFINE wave == FirstWave(r, exec[r].todo)
  <2>1. /\ wave \subseteq exec[r].todo /\ exec[r].todo \subseteq Unit
        /\ \A u \in wave, v \in exec[r].todo : Wave(r, u) <= Wave(r, v)
        /\ \A u \in exec[r].todo \ wave : \E v \in exec[r].todo : ~(Wave(r, u) <= Wave(r, v))
    BY RowTyped DEF FirstWave
  <2>2. exec'[r].pending = wave /\ exec'[r].todo = exec[r].todo \ wave
    BY <1>5
  <2> HIDE DEF wave
  <2>3. \A u \in Taken(r) : result[r][u] = "success"
    BY <1>1, <1>2, <1>5, RowTyped
    DEF WavesAgree, Taken, Agrees, RowsAgree, ResultStatus, Good, Bad, Open
  <2>4. \A u \in exec[r].todo \ wave, v \in wave : Wave(r, v) < Wave(r, u)
    BY <2>1, WaveType
  <2>5. \A u \in exec[r].todo, v \in Taken(r) : Wave(r, v) < Wave(r, u)
    BY <1>1 DEF WavesAgree
  <2>6. Taken(r)' \subseteq Taken(r) \cup wave /\ Taken(r) \subseteq Unit
    BY <1>1, <2>2 DEF Taken
  <2>7. \A u \in Unit : Wave(r, u)' = Wave(r, u)
    BY <1>1 DEF Wave
  <2>8. \A u \in (exec[r].todo \ wave), v \in Taken(r)' : Wave(r, v)' < Wave(r, u)'
    BY <2>1, <2>4, <2>5, <2>6, <2>7
  <2>9. ASSUME NEW u \in Taken(r)', NEW v \in Taken(r)', Wave(r, u)' < Wave(r, v)'
        PROVE  result'[r][u] = "success"
    <3>1. u \in Unit /\ v \in Unit /\ Wave(r, u) \in Int /\ Wave(r, v) \in Int
      BY <2>1, <2>6, WaveType
    <3>2. CASE u \in Taken(r)
      BY <1>1, <2>3, <3>2
    <3>3. CASE u \in wave
      BY <2>1, <2>5, <2>6, <2>7, <2>9, <3>1, <3>3
    <3> QED BY <2>6, <3>2, <3>3
  <2>10. ASSUME NEW u \in Unit
         PROVE  /\ result'[r][u] = "running" <=> job'[r][u] # "none"
                /\ result'[r][u] \notin {"failed", "canceled_unknown", "not_started"}
                /\ u \in exec'[r].todo \cup exec'[r].pending <=> result'[r][u] = "pending"
    BY <1>1, <1>5, <2>1, <2>2 DEF WavesAgree
  <2> QED BY <2>2, <2>8, <2>9, <2>10 DEF WavesAgree
<1>6. ExecutorAgrees(r)'
  BY <1>3, <1>4, <1>5 DEF Turned, ExecutorAgrees
<1> QED BY <1>6, KeptAgrees DEF Agrees, Turned

LEMMA LaunchedAgrees ==
    ASSUME Inv, NEW r \in Run, Agrees(r), Launched(r)
    PROVE  Agrees(r)'
<1>1. /\ run'[r] = run[r] /\ action'[r] = action[r] /\ task'[r] = task[r] /\ phase'[r] = phase[r]
      /\ exec[r].pc = "wave" /\ exec'[r].pc = "wave" /\ exec'[r].todo = exec[r].todo
      /\ exec'[r].halt = exec[r].halt /\ WavesAgree(r) /\ RowsAgree(r) /\ run[r].status = "running"
  BY RowTyped DEF Launched, Agrees, ExecutorAgrees, Working
<1>2. PICK u \in exec[r].pending :
         /\ result[r][u] = "pending"
         /\ exec'[r].pending = exec[r].pending \ {u}
         /\ Cell(result'[r], result[r], u, "running") /\ Cell(step'[r], step[r], u, "running")
         /\ Cell(job'[r], job[r], u, "busy")
  BY DEF Launched
<1>3. u \in Unit
  BY <1>2, RowTyped
<1>4. RowsAgree(r)'
  BY <1>1, <1>2, <1>3 DEF RowsAgree, Cell, Settled
<1>5. Taken(r)' = Taken(r) /\ \A v \in Unit : Wave(r, v)' = Wave(r, v)
  BY <1>1 DEF Taken, Wave
<1>6. WavesAgree(r)'
  <2>1. ASSUME NEW v \in Unit
        PROVE  /\ result'[r][v] = "running" <=> job'[r][v] # "none"
               /\ result'[r][v] = "failed" => "failed" \in exec'[r].halt
               /\ result'[r][v] = "canceled_unknown" => "canceled" \in exec'[r].halt
               /\ result'[r][v] # "not_started"
               /\ v \in exec'[r].todo \cup exec'[r].pending => result'[r][v] = "pending"
               /\ result'[r][v] = "pending" => v \in exec'[r].todo \cup exec'[r].pending
    BY <1>1, <1>2 DEF WavesAgree, Cell
  <2>2. \A v \in Taken(r) : result[r][v] = "success" => result'[r][v] = "success"
    BY <1>2 DEF Cell, Taken
  <2>3. /\ exec'[r].pending \cap exec'[r].todo = {}
        /\ \A v \in exec[r].todo, w \in Taken(r) : Wave(r, w) < Wave(r, v)
        /\ \A v, w \in Taken(r) : Wave(r, v) < Wave(r, w) => result[r][v] = "success"
    BY <1>1, <1>2 DEF WavesAgree
  <2>4. exec[r].todo \subseteq Unit /\ Taken(r) \subseteq Unit
    BY RowTyped DEF Taken
  <2>5. /\ \A v \in exec'[r].todo, w \in Taken(r)' : Wave(r, w)' < Wave(r, v)'
        /\ \A v, w \in Taken(r)' : Wave(r, v)' < Wave(r, w)' => result'[r][v] = "success"
    BY <1>1, <1>5, <2>2, <2>3, <2>4
  <2> QED BY <2>1, <2>3, <2>5 DEF WavesAgree
<1> QED BY <1>1, <1>4, <1>6 DEF Agrees, ExecutorAgrees

LEMMA ReturnedAgrees ==
    ASSUME Inv, NEW r \in Run, Agrees(r), Returned(r) \/ Ended(r)
    PROVE  Agrees(r)'
<1>1. /\ action'[r] = action[r] /\ result'[r] = result[r] /\ exec'[r] = exec[r] /\ Kept(r)
      /\ \A u \in Unit : job'[r][u] # "none" <=> job[r][u] # "none"
  BY DEF Returned, Ended, Kept, Cell, Outcomes
<1>2. WavesAgree(r) => WavesAgree(r)'
  BY <1>1 DEF WavesAgree, Taken, Wave
<1>3. ExecutorAgrees(r)'
  BY <1>1, <1>2 DEF Agrees, ExecutorAgrees, Verdict, Some
<1> QED BY <1>1, <1>3, KeptAgrees DEF Agrees

LEMMA JoinedAgrees ==
    ASSUME Inv, NEW r \in Run, Agrees(r), Joined(r)
    PROVE  Agrees(r)'
<1>1. /\ run'[r] = run[r] /\ action'[r] = action[r] /\ task'[r] = task[r] /\ phase'[r] = phase[r]
      /\ exec[r].pc = "wave" /\ exec'[r].pc = "wave" /\ exec[r].halt \subseteq exec'[r].halt
      /\ exec'[r].todo = exec[r].todo /\ exec'[r].pending = exec[r].pending
      /\ WavesAgree(r) /\ RowsAgree(r) /\ run[r].status = "running"
  BY RowTyped DEF Joined, Agrees, ExecutorAgrees, Working
<1>2. PICK u \in Unit :
         /\ job[r][u] \in Outcomes
         /\ job[r][u] = "failed" => "failed" \in exec'[r].halt
         /\ job[r][u] = "canceled_unknown" => "canceled" \in exec'[r].halt
         /\ Cell(result'[r], result[r], u,
                 IF result[r][u] = "running" THEN job[r][u] ELSE result[r][u])
         /\ Cell(step'[r], step[r], u, IF job[r][u] = "success" THEN "success" ELSE "failed")
         /\ Cell(job'[r], job[r], u, "none")
  BY DEF Joined
<1>3. /\ result[r][u] = "running" /\ result'[r][u] = job[r][u] /\ step'[r][u] # "running"
      /\ job[r][u] \in {"success", "failed", "canceled_unknown"}
      /\ \A v \in Unit \ {u} : result'[r][v] = result[r][v] /\ step'[r][v] = step[r][v]
  BY <1>1, <1>2 DEF WavesAgree, Outcomes, Cell
<1>4. RowsAgree(r)'
  BY <1>1, <1>3 DEF RowsAgree, Settled
<1>5. Taken(r)' = Taken(r) /\ \A v \in Unit : Wave(r, v)' = Wave(r, v)
  BY <1>1 DEF Taken, Wave
<1>6. WavesAgree(r)'
  <2>1. ASSUME NEW v \in Unit
        PROVE  /\ result'[r][v] = "running" <=> job'[r][v] # "none"
               /\ result'[r][v] = "failed" => "failed" \in exec'[r].halt
               /\ result'[r][v] = "canceled_unknown" => "canceled" \in exec'[r].halt
               /\ result'[r][v] # "not_started"
               /\ v \in exec'[r].todo \cup exec'[r].pending => result'[r][v] = "pending"
               /\ result'[r][v] = "pending" => v \in exec'[r].todo \cup exec'[r].pending
    <3>1. CASE v = u
      BY <1>1, <1>2, <1>3, <3>1 DEF WavesAgree, Cell
    <3>2. CASE v # u
      BY <1>1, <1>2, <1>3, <3>2 DEF WavesAgree, Cell
    <3> QED BY <3>1, <3>2
  <2>2. \A v \in Taken(r) : result[r][v] = "success" => result'[r][v] = "success"
    BY <1>3 DEF Taken
  <2>3. /\ exec'[r].pending \cap exec'[r].todo = {}
        /\ \A v \in exec[r].todo, w \in Taken(r) : Wave(r, w) < Wave(r, v)
        /\ \A v, w \in Taken(r) : Wave(r, v) < Wave(r, w) => result[r][v] = "success"
    BY <1>1 DEF WavesAgree
  <2>4. exec[r].todo \subseteq Unit /\ Taken(r) \subseteq Unit
    BY RowTyped DEF Taken
  <2>5. /\ \A v \in exec'[r].todo, w \in Taken(r)' : Wave(r, w)' < Wave(r, v)'
        /\ \A v, w \in Taken(r)' : Wave(r, v)' < Wave(r, w)' => result'[r][v] = "success"
    BY <1>1, <1>5, <2>2, <2>3, <2>4
  <2> QED BY <2>1, <2>3, <2>5 DEF WavesAgree
<1> QED BY <1>1, <1>4, <1>6 DEF Agrees, ExecutorAgrees

LEMMA DrainedAgrees ==
    ASSUME Inv, NEW r \in Run, Agrees(r), Drained(r)
    PROVE  Agrees(r)'
<1>1. /\ action'[r] = action[r] /\ result'[r] = result[r] /\ job'[r] = job[r]
      /\ exec[r].pc = "wave" /\ exec'[r].pc = "loop" /\ exec'[r].pending = {}
      /\ exec'[r].todo = exec[r].todo /\ exec'[r].halt = exec[r].halt /\ WavesAgree(r)
  BY DEF Drained, Kept, Agrees, ExecutorAgrees
<1>2. exec[r].pending = {} \/ exec[r].halt # {}
  <2>1. Cardinality(Live(r)) = 0
    BY FS_EmptySet DEF Drained
  <2> QED BY <2>1, ConstantsAssumption DEF Drained, CanStart
<1>3. Taken(r)' = Taken(r) /\ \A v : Wave(r, v)' = Wave(r, v)
  BY <1>1 DEF Taken, Wave
<1>4. WavesAgree(r)'
  BY <1>1, <1>2, <1>3 DEF WavesAgree
<1> QED BY <1>1, <1>4, KeptAgrees DEF Agrees, ExecutorAgrees, Drained

\* the rest of a run is closed, counted
LEMMA CountingAgrees ==
    ASSUME Inv, NEW r \in Run, Agrees(r), Asked(r) \/ Dropped(r) \/ Counted(r)
    PROVE  Agrees(r)'
<1>1. CASE Asked(r)
  <2>1. /\ action'[r] = action[r] /\ result'[r] = result[r] /\ exec'[r] = exec[r]
        /\ job'[r] = job[r]
    BY <1>1 DEF Asked, PlanKept, Aside
  <2>2. WavesAgree(r) => WavesAgree(r)'
    BY <2>1 DEF WavesAgree, Taken, Wave
  <2>3. ExecutorAgrees(r)'
    BY <2>1, <2>2 DEF Agrees, ExecutorAgrees, Verdict, Some
  <2>4. RowsAgree(r)'
    BY <1>1 DEF Agrees, RowsAgree, Asked, PlanKept, Settled
  <2> QED BY <2>3, <2>4 DEF Agrees
<1>2. CASE Dropped(r)
  <2>1. /\ run[r].status = "running" /\ \A u \in Unit : result[r][u] # "running"
        /\ RowsAgree(r)
    BY <1>2, RowTyped DEF Agrees, ExecutorAgrees, Dropped, Working
  <2>2. RowsAgree(r)'
    BY <1>2, <2>1 DEF RowsAgree, Dropped, Settled
  <2>3. ExecutorAgrees(r)'
    BY <1>2, <2>1 DEF ExecutorAgrees, Dropped, Open
  <2> QED BY <2>2, <2>3 DEF Agrees
<1>3. CASE Counted(r)
  <2>1. RowsAgree(r)'
    BY <1>3, KeptAgrees DEF Agrees, Counted
  <2>2. ExecutorAgrees(r)'
    BY <1>3 DEF Agrees, ExecutorAgrees, Counted, Kept, Verdict, Some
  <2> QED BY <2>1, <2>2 DEF Agrees
<1> QED BY <1>1, <1>2, <1>3

LEMMA AgreesStep ==
    ASSUME Inv, NEW r \in Run, Agrees(r), Move(r)
    PROVE  Agrees(r)'
BY SameAgrees, CreatedAgrees, LeavesAgrees, SettlingAgrees, BegunAgrees, TurnedAgrees,
   LaunchedAgrees, ReturnedAgrees, JoinedAgrees, DrainedAgrees, CountingAgrees DEF Move

LEMMA AgreedStep == Inv /\ Agreed /\ [Next]_vars => Agreed'
BY Moves, AgreesStep DEF Agreed

LEMMA AgreedInvariance == Spec => []Agreed
<1>1. Init => Inv /\ Agreed
  BY InitInv, InitAgreed
<1>2. Inv /\ Agreed /\ [Next]_vars => (Inv /\ Agreed)'
  BY StepInv, AgreedStep
<1> QED BY <1>1, <1>2, PTL DEF Spec
-----------------------------------------------------------------------------
(* What is known of a run before it settles: the phases of a run nobody has   *)
(* settled are untouched, those of an interrupted run were given up, and what *)
(* the process knows of a cancellation the database knows too.                *)

PhaseKnown(r) ==
    /\ run[r].status \in {"queued", "running"} => \A s \in Stages : phase[r][s] = "pending"
    /\ run[r].status = "reconciling" => GivenUp(r)

CancelMarked(r) ==
    \/ signal[r] = "cancelled" \/ r \in cancelling \/ "canceled" \in exec[r].halt
    \/ \E u \in Unit : job[r][u] = "canceled_unknown"
CancelKnown(r) == /\ CancelMarked(r) => run[r].cancel
                  /\ run[r].cancel => run[r].status # "none"

LEMMA PhaseKnownStep ==
    ASSUME Inv, NEW r \in Run, Agrees(r), PhaseKnown(r), Move(r)
    PROVE  PhaseKnown(r)'
<1>1. CASE Created(r)
  BY <1>1 DEF Created, PhaseKnown
<1>2. CASE Begun(r) \/ Asked(r)
  BY <1>2 DEF Begun, Asked, PhaseKnown
<1>3. CASE Withdrawn(r) \/ Confirmed(r) \/ Finished(r) \/ Failed(r)
  <2>1. run'[r].status \in Settled
    BY <1>3, RemainderType, RowTyped DEF Withdrawn, Confirmed, Finished, Failed, Settled
  <2> QED BY <2>1 DEF PhaseKnown, Settled
<1>4. CASE Restarted(r)
  BY <1>4 DEF Restarted, AfterRestart, PhaseKnown, PhasesClosed, ClosePhases, GivenUp
<1>5. CASE run'[r] = run[r] /\ phase'[r] = phase[r]
  BY <1>5 DEF PhaseKnown, GivenUp
<1> QED BY <1>1, <1>2, <1>3, <1>4, <1>5
        DEF Move, Same, Kept, Leaves, Turned, Launched, Returned, Joined, Drained, Dropped,
            Counted, Ended

\* nothing of one run that could tell of a cancellation is new
Quiet(r) ==
    /\ signal'[r] = "cancelled" => signal[r] = "cancelled"
    /\ r \in cancelling' => r \in cancelling
    /\ "canceled" \in exec'[r].halt => "canceled" \in exec[r].halt
    /\ \A u \in Unit : job'[r][u] = "canceled_unknown" => job[r][u] = "canceled_unknown"

\* ... or the database has the request already
Heard(r) == Quiet(r) \/ run[r].cancel \/ run'[r].cancel \/ CancelMarked(r)

LEMMA CancelTyped ==
    ASSUME Inv
    PROVE  /\ exec \in [Run -> ExecutorTask] /\ run \in [Run -> RunRow]
           /\ job \in [Run -> [Unit -> Outcomes \cup {"none", "busy"}]]
           /\ signal \in [Run -> {"none", "armed", "cancelled"}]
BY DEF Inv, TypeOK

\* the requests, and what leaves the signal and the units in flight alone
LEMMA RequestsHeard ==
    ASSUME Inv, NEW r \in Run,
           \/ \E e \in Env, rel \in Release, mode \in Modes : CreateRun(r, e, rel, mode)
           \/ CancelQueued(r) \/ CancelRunning(r) \/ SignalCancel(r) \/ DropCancel(r)
           \/ Confirm(r)
    PROVE  \A q \in Run : Heard(q)
<1>1. CASE \E e \in Env, rel \in Release, mode \in Modes : CreateRun(r, e, rel, mode)
  <2>1. exec' = [exec EXCEPT ![r].pc = "handler"] /\ UNCHANGED <<signal, cancelling, job>>
    BY <1>1 DEF CreateRun
  <2> QED BY <2>1, GoesTo DEF Heard, Quiet
<1>2. CASE CancelQueued(r)
  <2>1. /\ run' = [run EXCEPT ![r] = [@ EXCEPT !.status = "canceled", !.cancel = TRUE]]
        /\ cancelling' = cancelling \cup {r} /\ UNCHANGED <<signal, exec, job>>
    BY <1>2 DEF CancelQueued
  <2>2. run'[r].cancel
    BY <2>1, CancelTyped DEF RunRow
  <2> QED BY <2>1, <2>2 DEF Heard, Quiet
<1>3. CASE CancelRunning(r)
  <2>1. /\ run' = [run EXCEPT ![r].cancel = TRUE]
        /\ cancelling' = cancelling \cup {r} /\ UNCHANGED <<signal, exec, job>>
    BY <1>3 DEF CancelRunning
  <2>2. run'[r].cancel
    BY <2>1, CancelTyped DEF RunRow
  <2> QED BY <2>1, <2>2 DEF Heard, Quiet
<1>4. CASE SignalCancel(r)
  <2>1. /\ r \in cancelling /\ cancelling' = cancelling \ {r} /\ UNCHANGED <<exec, job>>
        /\ signal' = [signal EXCEPT ![r] = IF @ = "none" THEN @ ELSE "cancelled"]
    BY <1>4 DEF SignalCancel, Notify
  <2>2. \A q \in Run \ {r} : signal'[q] = signal[q]
    BY <2>1, CancelTyped
  <2>3. \A q \in Run \ {r} : Quiet(q)
    BY <2>1, <2>2 DEF Quiet
  <2>4. CancelMarked(r)
    BY <2>1 DEF CancelMarked
  <2> QED BY <2>3, <2>4 DEF Heard
<1>5. CASE DropCancel(r) \/ Confirm(r)
  <2>1. cancelling' \subseteq cancelling /\ UNCHANGED <<signal, exec, job>>
    BY <1>5 DEF DropCancel, Confirm, memVars
  <2> QED BY <2>1 DEF Heard, Quiet
<1> QED BY <1>1, <1>2, <1>3, <1>4, <1>5

LEMMA ExecutorHeard ==
    ASSUME Inv, NEW r \in Run,
           \/ Spawn(r) \/ Disconnect(r) \/ Claim(r) \/ NextWave(r) \/ EndWave(r)
           \/ SettlePending(r) \/ CountResults(r) \/ Finalize(r) \/ InternalError(r)
           \/ FailRun(r) \/ FailRunFails(r) \/ Cleanup(r)
    PROVE  \A q \in Run : Heard(q)
<1>1. CASE Spawn(r) \/ Disconnect(r) \/ SettlePending(r) \/ Finalize(r) \/ FailRun(r)
           \/ FailRunFails(r)
  <2>1. \E pc \in {"claim", "gone", "count", "cleanup"} : exec' = [exec EXCEPT ![r].pc = pc]
    BY <1>1 DEF Spawn, Disconnect, SettlePending, Finalize, FailRun, FailRunFails, Goto
  <2>2. /\ UNCHANGED <<cancelling, job>>
        /\ signal' = signal \/ signal' = [signal EXCEPT ![r] = "armed"]
    BY <1>1 DEF Spawn, Disconnect, SettlePending, Finalize, FailRun, FailRunFails
  <2>3. \A q \in Run : signal'[q] = "cancelled" => signal[q] = "cancelled"
    BY <2>2, CancelTyped
  <2> QED BY <2>1, <2>2, <2>3, GoesTo DEF Heard, Quiet
<1>2. CASE Claim(r)
  <2>1. UNCHANGED <<cancelling, job>>
    BY <1>2 DEF Claim
  <2>2. CASE run[r].status = "queued" /\ task[r] = "queued"
    <3>1. /\ signal' = [signal EXCEPT ![r] = IF run[r].cancel THEN "cancelled" ELSE @]
          /\ exec' = [exec EXCEPT ![r] = [@ EXCEPT
                !.pc = "loop", !.todo = {u \in Unit : action[r][u] # "skip"},
                !.halt = Cancellation(r)]]
      BY <1>2, <2>2 DEF Claim
    <3>2. /\ \A q \in Run \ {r} : signal'[q] = signal[q] /\ exec'[q] = exec[q]
          /\ signal'[r] = IF run[r].cancel THEN "cancelled" ELSE signal[r]
          /\ exec'[r].halt = Cancellation(r)
      BY <3>1, CancelTyped DEF ExecutorTask
    <3>3. \A q \in Run \ {r} : Heard(q)
      BY <2>1, <3>2 DEF Heard, Quiet
    <3>4. Heard(r)
      BY <2>1, <3>2 DEF Heard, Quiet, Cancellation, CancelMarked
    <3> QED BY <3>3, <3>4
  <2>3. CASE ~(run[r].status = "queued" /\ task[r] = "queued")
    <3>1. exec' = [exec EXCEPT ![r].pc = "error"] /\ signal' = signal
      BY <1>2, <2>3 DEF Claim, Goto
    <3> QED BY <2>1, <3>1, GoesTo DEF Heard, Quiet
  <2> QED BY <2>2, <2>3
<1>3. CASE NextWave(r)
  <2> DEFINE wave == FirstWave(r, exec[r].todo)
  <2>1. UNCHANGED <<cancelling, job>>
    BY <1>3 DEF NextWave
  <2>2. CASE \E pc \in {"settle", "count"} : Goto(r, pc) /\ UNCHANGED signal
    BY <2>1, <2>2, GoesTo DEF Goto, Heard, Quiet
  <2>3. CASE /\ run[r].cancel /\ signal' = [signal EXCEPT ![r] = "cancelled"]
             /\ exec' = [exec EXCEPT ![r] = [@ EXCEPT !.pc = "settle", !.halt = {"canceled"}]]
    <3>1. \A q \in Run \ {r} : signal'[q] = signal[q] /\ exec'[q] = exec[q]
      BY <2>3, CancelTyped
    <3> QED BY <2>1, <2>3, <3>1 DEF Heard, Quiet
  <2>4. CASE /\ UNCHANGED signal
             /\ exec' = [exec EXCEPT ![r] = [@ EXCEPT !.pc = "wave", !.todo = exec[r].todo \ wave,
                                                      !.pending = wave, !.halt = Cancellation(r)]]
    <3> HIDE DEF wave
    <3>1. /\ \A q \in Run \ {r} : exec'[q] = exec[q]
          /\ exec'[r].halt = Cancellation(r)
      BY <2>4, CancelTyped DEF ExecutorTask
    <3>2. \A q \in Run \ {r} : Heard(q)
      BY <2>1, <2>4, <3>1 DEF Heard, Quiet
    <3>3. Heard(r)
      BY <2>1, <2>4, <3>1 DEF Heard, Quiet, Cancellation, CancelMarked
    <3> QED BY <3>2, <3>3
  <2> QED BY <1>3, <2>2, <2>3, <2>4 DEF NextWave
<1>4. CASE EndWave(r) \/ CountResults(r)
  <2>1. UNCHANGED <<signal, cancelling, job>>
    BY <1>4 DEF EndWave, CountResults
  <2> DEFINE verdict == Verdict(r, "canceled" \in exec[r].halt)
  <2>2. \/ exec' = [exec EXCEPT ![r] = [@ EXCEPT !.pc = "loop", !.pending = {}]]
        \/ exec' = [exec EXCEPT ![r] = [@ EXCEPT !.pc = "commit", !.verdict = verdict]]
    BY <1>4 DEF EndWave, CountResults
  <2> HIDE DEF verdict
  <2>3. exec'[r].halt = exec[r].halt
    <3>1. exec[r] \in ExecutorTask
      BY CancelTyped
    <3>2. \/ exec'[r] = [exec[r] EXCEPT !.pc = "loop", !.pending = {}]
          \/ exec'[r] = [exec[r] EXCEPT !.pc = "commit", !.verdict = verdict]
      BY <2>2, CancelTyped
    <3> QED BY <3>1, <3>2 DEF ExecutorTask
  <2>4. \A q \in Run \ {r} : exec'[q] = exec[q]
    BY <2>2, CancelTyped
  <2> QED BY <2>1, <2>3, <2>4 DEF Heard, Quiet
<1>5. CASE InternalError(r)
  <2>1. /\ exec' = [exec EXCEPT ![r].pc = "error"] /\ UNCHANGED <<signal, cancelling>>
        /\ job' = [job EXCEPT ![r] = [u \in Unit |-> "none"]]
    BY <1>5 DEF InternalError
  <2>2. \A q \in Run, u \in Unit : job'[q][u] \in {job[q][u], "none"}
    BY <2>1, CancelTyped
  <2> QED BY <2>1, <2>2, GoesTo DEF Heard, Quiet
<1>6. CASE Cleanup(r)
  <2>1. /\ exec' = [exec EXCEPT ![r] = [NoExec EXCEPT !.pc = "gone"]]
        /\ signal' = [signal EXCEPT ![r] = "none"] /\ UNCHANGED <<cancelling, job>>
    BY <1>6 DEF Cleanup
  <2>2. \A q \in Run : /\ exec'[q].halt \in {{}, exec[q].halt}
                       /\ signal'[q] \in {"none", signal[q]}
    BY <2>1, CancelTyped DEF NoExec
  <2> QED BY <2>1, <2>2 DEF Heard, Quiet
<1> QED BY <1>1, <1>2, <1>3, <1>4, <1>5, <1>6

LEMMA UnitsHeard ==
    ASSUME Inv, NEW r \in Run, NEW u \in Unit,
           \/ StartUnit(r, u) \/ JoinUnit(r, u) \/ RemoteEnds(r, u)
           \/ \E outcome \in Outcomes : UnitReturns(r, u, outcome)
    PROVE  \A q \in Run : Heard(q)
<1>1. CASE StartUnit(r, u)
  <2>1. UNCHANGED <<signal, cancelling>>
    BY <1>1 DEF StartUnit
  <2>2. \/ exec' = [exec EXCEPT ![r].pending = @ \ {u}]
        \/ exec' = [exec EXCEPT ![r].pc = "error"]
    BY <1>1 DEF StartUnit, Goto
  <2>3. \/ job' = [job EXCEPT ![r][u] = "busy"]
        \/ job' = [job EXCEPT ![r] = [v \in Unit |-> "none"]]
    BY <1>1 DEF StartUnit
  <2>4. exec'[r].halt = exec[r].halt
    BY <2>2, CancelTyped DEF ExecutorTask
  <2>5. \A q \in Run \ {r} : exec'[q] = exec[q]
    BY <2>2, CancelTyped
  <2>6. \A q \in Run, v \in Unit : job'[q][v] \in {job[q][v], "busy", "none"}
    BY <2>3, CancelTyped
  <2> QED BY <2>1, <2>4, <2>5, <2>6 DEF Heard, Quiet
<1>2. CASE JoinUnit(r, u)
  <2> DEFINE failed == IF job[r][u] = "failed" THEN {"failed"} ELSE {}
             more == exec[r].pending # {} \/ Live(r) # {u}
             canceled == IF \/ job[r][u] = "canceled_unknown"
                            \/ more /\ signal[r] = "cancelled" THEN {"canceled"} ELSE {}
  <2>1. /\ exec' = [exec EXCEPT ![r].halt = @ \cup failed \cup canceled]
        /\ job' = [job EXCEPT ![r][u] = "none"] /\ UNCHANGED <<signal, cancelling>>
    BY <1>2 DEF JoinUnit
  <2>2. "canceled" \in canceled => CancelMarked(r)
    BY DEF CancelMarked
  <2>3. "canceled" \notin failed
    OBVIOUS
  <2> HIDE DEF failed, canceled
  <2>4. /\ exec'[r].halt = exec[r].halt \cup failed \cup canceled
        /\ \A q \in Run \ {r} : exec'[q] = exec[q]
    BY <2>1, CancelTyped DEF ExecutorTask
  <2>5. \A q \in Run, v \in Unit : job'[q][v] \in {job[q][v], "none"}
    BY <2>1, CancelTyped
  <2>6. \A q \in Run \ {r} : Quiet(q)
    BY <2>1, <2>4, <2>5 DEF Quiet
  <2>7. Heard(r)
    BY <2>1, <2>2, <2>3, <2>4, <2>5 DEF Heard, Quiet
  <2> QED BY <2>6, <2>7 DEF Heard
<1>3. CASE RemoteEnds(r, u)
  BY <1>3 DEF RemoteEnds, memVars, Heard, Quiet
<1>4. CASE \E outcome \in Outcomes : UnitReturns(r, u, outcome)
  <2>1. PICK outcome \in Outcomes :
           /\ outcome = "canceled_unknown" => signal[r] = "cancelled"
           /\ job' = [job EXCEPT ![r][u] = outcome]
           /\ UNCHANGED <<signal, cancelling, exec>>
    BY <1>4 DEF UnitReturns
  <2>2. /\ \A v \in Unit : job'[r][v] \in {job[r][v], outcome}
        /\ \A q \in Run \ {r} : job'[q] = job[q]
    BY <2>1, CancelTyped
  <2>3. \A q \in Run \ {r} : Quiet(q)
    BY <2>1, <2>2 DEF Quiet
  <2>4. Heard(r)
    BY <2>1, <2>2 DEF Heard, Quiet, CancelMarked
  <2> QED BY <2>3, <2>4 DEF Heard
<1> QED BY <1>1, <1>2, <1>3, <1>4

LEMMA Hears == Inv /\ [Next]_vars => \A r \in Run : Heard(r)
<1> SUFFICES ASSUME Inv, [Next]_vars PROVE \A r \in Run : Heard(r)
  OBVIOUS
<1>1. CASE Crash
  <2>1. /\ signal' = [r \in Run |-> "none"] /\ cancelling' = {}
        /\ job' = [r \in Run |-> [u \in Unit |-> "none"]]
        /\ exec' = [r \in Run |-> IF exec[r].pc = "off" THEN NoExec
                                  ELSE [NoExec EXCEPT !.pc = "gone"]]
    BY <1>1 DEF Crash
  <2>2. \A r \in Run : exec'[r].halt = {}
    BY <2>1 DEF NoExec
  <2> QED BY <2>1, <2>2 DEF Heard, Quiet
<1>2. CASE Startup
  BY <1>2 DEF Startup, memVars, Heard, Quiet
<1>3. CASE UNCHANGED vars
  BY <1>3 DEF vars, Heard, Quiet
<1>4. CASE Next /\ ~Crash /\ ~Startup
  BY <1>4, RequestsHeard, ExecutorHeard, UnitsHeard DEF Next, Executor
<1> QED BY <1>1, <1>2, <1>3, <1>4

LEMMA CancelKnownStep ==
    ASSUME Inv, NEW r \in Run, CancelKnown(r), Heard(r), Move(r)
    PROVE  CancelKnown(r)'
<1>1. run[r].status # "none" => run'[r].status # "none" /\ (run[r].cancel => run'[r].cancel)
  <2>1. CASE Confirmed(r) \/ Finished(r) \/ Failed(r)
    BY <2>1, RemainderType, RowTyped DEF Confirmed, Finished, Failed, PlanKept, Settled, Working
  <2>2. CASE Withdrawn(r) \/ Asked(r) \/ Begun(r) \/ Restarted(r)
    BY <2>2 DEF Withdrawn, Asked, Begun, Restarted, AfterRestart, PlanKept
  <2>3. CASE Created(r) \/ run'[r] = run[r]
    BY <2>3 DEF Created
  <2> QED BY <2>1, <2>2, <2>3
          DEF Move, Same, Kept, Leaves, Turned, Launched, Returned, Joined, Drained, Dropped,
              Counted, Ended
<1>2. run[r].status = "none" => run'[r] = run[r] \/ ~run'[r].cancel
  BY DEF Move, Created, Withdrawn, Asked, Confirmed, Begun, Finished, Failed, Restarted, Same,
         Kept, Leaves, Turned, Launched, Returned, Joined, Drained, Dropped, Counted, Ended
<1>3. run'[r].cancel => run'[r].status # "none"
  BY <1>1, <1>2 DEF CancelKnown
<1>4. Quiet(r) /\ CancelMarked(r)' => CancelMarked(r)
  BY DEF Quiet, CancelMarked
<1>5. CancelMarked(r)' => run'[r].cancel
  BY <1>1, <1>4 DEF CancelKnown, Heard
<1> QED BY <1>3, <1>5 DEF CancelKnown

-----------------------------------------------------------------------------
(* What a run settles on.                                                     *)

OutcomeMatches(r) ==
    /\ run[r].status = "success" => \A u \in Unit : result[r][u] \in Good
    /\ run[r].status = "all_failed" =>
          \A u \in Unit : result[r][u] \notin Good \cup {"canceled_unknown"}
    /\ run[r].status = "canceled" =>
          \/ /\ \A u \in Unit : result[r][u] \notin Good
             /\ run[r].cancel \/ \E u \in Unit : result[r][u] = "canceled_unknown"
          \/ \A u \in Unit : result[r][u] \notin Started
    /\ run[r].status = "partial_failed" =>
          /\ \E u \in Unit : result[r][u] \in Good
          /\ GivenUp(r) \/ \E u \in Unit : result[r][u] \notin Good

TaskMatches(r) ==
    /\ run[r].status = "success" => task[r] = "success"
    /\ run[r].status = "canceled" => task[r] = "canceled"
    /\ run[r].status = "all_failed" => task[r] = "failed"
    /\ run[r].status = "partial_failed" => task[r] \in {"failed", "canceled"}

\* what Remainder says of the rows it was computed from
LEMMA RemainderMatches ==
    ASSUME NEW results
    PROVE  /\ Remainder(results) = "partial_failed" => \E u \in Unit : results[u] \in Good
           /\ Remainder(results) = "canceled" => /\ \A u \in Unit : results[u] \notin Good
                                                 /\ \E u \in Unit : results[u] = "canceled_unknown"
           /\ Remainder(results) = "all_failed" =>
                 \A u \in Unit : results[u] \notin Good \cup {"canceled_unknown"}
BY DEF Remainder

LEMMA VerdictMatches ==
    ASSUME NEW r \in Run, NEW canceled \in BOOLEAN,
           \A u \in Unit : result[r][u] \in ResultStatus \ (Open \cup {"none"})
    PROVE  LET verdict == Verdict(r, canceled)
           IN  /\ verdict = "success" => \A u \in Unit : result[r][u] \in Good
               /\ verdict = "all_failed" => /\ ~canceled
                                            /\ \A u \in Unit :
                                                  result[r][u] \notin Good \cup {"canceled_unknown"}
               /\ verdict = "canceled" =>
                     /\ \A u \in Unit : result[r][u] \notin Good
                     /\ canceled \/ \E u \in Unit : result[r][u] = "canceled_unknown"
               /\ verdict = "partial_failed" => /\ \E u \in Unit : result[r][u] \in Good
                                                /\ \E u \in Unit : result[r][u] \notin Good
BY DEF Verdict, Some, ResultStatus, Good, Bad, Open

\* the steps that settle a run, and the others
Settles(r) == Withdrawn(r) \/ Confirmed(r) \/ Finished(r) \/ Failed(r) \/ Restarted(r)

LEMMA SettlesOrNot ==
    ASSUME Inv, NEW r \in Run, Agrees(r), Move(r), run'[r].status \in Settled
    PROVE  \/ Settles(r)
           \/ /\ run'[r] = run[r] /\ result'[r] = result[r] /\ task'[r] = task[r]
              /\ phase'[r] = phase[r]
<1>1. CASE Created(r) \/ Begun(r) \/ Asked(r)
  BY <1>1 DEF Created, Begun, Asked, Settled
<1>2. CASE Launched(r) \/ Joined(r) \/ Dropped(r)
  BY <1>2, RowTyped DEF Launched, Joined, Dropped, Working, Settled
<1>3. CASE Kept(r)
  BY <1>3 DEF Kept
<1> QED BY <1>1, <1>2, <1>3
        DEF Move, Settles, Same, Leaves, Turned, Returned, Drained, Counted, Ended

LEMMA MatchesStep ==
    ASSUME Inv, NEW r \in Run, Agrees(r), PhaseKnown(r), CancelKnown(r),
           OutcomeMatches(r), TaskMatches(r), Move(r)
    PROVE  OutcomeMatches(r)' /\ TaskMatches(r)'
<1>1. CASE Withdrawn(r)
  BY <1>1 DEF Withdrawn, Agrees, RowsAgree, OutcomeMatches, TaskMatches, Started
<1>2. CASE Confirmed(r)
  <2>1. run'[r].status = Remainder(result[r]) /\ result'[r] = result[r]
    BY <1>2 DEF Confirmed
  <2>2. GivenUp(r)'
    BY <1>2 DEF Confirmed, PhaseKnown, GivenUp
  <2>3. OutcomeMatches(r)'
    BY <2>1, <2>2, RemainderMatches, RemainderType DEF OutcomeMatches
  <2>4. TaskMatches(r)'
    BY <1>2, <2>1, RemainderType DEF TaskMatches, Confirmed
  <2> QED BY <2>3, <2>4
<1>3. CASE Finished(r)
  <2> DEFINE stopped == "canceled" \in exec[r].halt
  <2>1. /\ run[r].status = "running" /\ exec[r].pc = "commit" /\ result'[r] = result[r]
        /\ run'[r].status = Verdict(r, stopped)
        /\ task'[r] = TaskVerdict(run'[r].status, stopped)
        /\ stopped \in BOOLEAN
    BY <1>3 DEF Finished, Agrees, ExecutorAgrees
  <2>2. stopped => run'[r].cancel
    BY <1>3 DEF Finished, PlanKept, CancelKnown, CancelMarked
  <2> HIDE DEF stopped
  <2>3. \A u \in Unit : result[r][u] \in ResultStatus \ (Open \cup {"none"})
    BY <2>1, RowTyped DEF Agrees, ExecutorAgrees, RowsAgree
  <2>4. OutcomeMatches(r)' /\ (run'[r].status = "all_failed" => ~stopped)
    BY <2>1, <2>2, <2>3, VerdictMatches DEF OutcomeMatches
  <2>5. TaskMatches(r)'
    BY <2>1, <2>4 DEF TaskMatches, TaskVerdict
  <2> QED BY <2>4, <2>5
<1>4. CASE Failed(r)
  <2>1. run'[r].status = Remainder(Close(r)) /\ result'[r] = Close(r)
    BY <1>4 DEF Failed
  <2>2. GivenUp(r)'
    BY <1>4 DEF Failed, PhaseKnown, PhasesClosed, ClosePhases, GivenUp
  <2>3. OutcomeMatches(r)'
    BY <2>1, <2>2, RemainderMatches, RemainderType DEF OutcomeMatches
  <2>4. task[r] \in {"queued", "running"}
    BY <1>4 DEF Failed, Agrees, RowsAgree
  <2>5. TaskMatches(r)'
    BY <1>4, <2>1, <2>4, RemainderType DEF TaskMatches, Failed
  <2> QED BY <2>3, <2>5
<1>5. CASE Restarted(r)
  BY <1>5
  DEF Restarted, AfterRestart, Agrees, RowsAgree, Close, OutcomeMatches, TaskMatches, Started
<1>6. CASE run'[r].status \in Settled /\ ~Settles(r)
  BY <1>6, SettlesOrNot DEF OutcomeMatches, TaskMatches, GivenUp
<1>7. CASE run'[r].status \notin Settled
  BY <1>7 DEF OutcomeMatches, TaskMatches, Settled
<1> QED BY <1>1, <1>2, <1>3, <1>4, <1>5, <1>6, <1>7 DEF Settles

LEMMA MatchesInvariance == Spec => [](\A r \in Run : OutcomeMatches(r) /\ TaskMatches(r))
<1> DEFINE Known == \A r \in Run : PhaseKnown(r) /\ CancelKnown(r)
           Matches == \A r \in Run : OutcomeMatches(r) /\ TaskMatches(r)
<1>1. Init => Known /\ Matches
  BY DEF Init, NoExec, PhaseKnown, CancelKnown, CancelMarked, OutcomeMatches, TaskMatches
<1>2. Inv /\ Agreed /\ Known /\ [Next]_vars => Known'
  BY Moves, Hears, PhaseKnownStep, CancelKnownStep DEF Agreed
<1>3. Inv /\ Agreed /\ Known /\ Matches /\ [Next]_vars => Matches'
  BY Moves, MatchesStep DEF Agreed
<1> QED BY <1>1, <1>2, <1>3, Invariance, AgreedInvariance, PTL DEF Spec

\* The status finalize_deployment_run, fail_run_on_internal_error,
\* reconcile_interrupted_runs, confirm_interrupted_run_stopped and a cancellation
\* write is the plan's summary of the unit rows, except that a run that was given up
\* is never a success, one that was asked to stop is canceled rather than failed, and
\* one that started nothing is canceled.
THEOREM OutcomesMatch == Spec => []OutcomeMatchesResults
<1>1. ASSUME Inv, NEW r \in Run, OutcomeMatches(r), run[r].status \in Settled
      PROVE  \/ run[r].status = Summary(r)
             \/ run[r].status = "partial_failed" /\ Summary(r) = "success" /\ GivenUp(r)
             \/ run[r].status = "canceled" /\ Summary(r) = "all_failed" /\ run[r].cancel
             \/ run[r].status = "canceled" /\ ~Some(r, Started)
  <2>1. \A u \in Unit : result[r][u] \in ResultStatus
    BY <1>1, RowTyped
  <2>2. PICK u \in Unit : TRUE
    BY ConstantsAssumption
  <2>3. CASE run[r].status = "success"
    BY <1>1, <2>3 DEF OutcomeMatches, Summary, Some
  <2>4. CASE run[r].status = "all_failed"
    BY <1>1, <2>1, <2>2, <2>4 DEF OutcomeMatches, Summary, Some
  <2>5. CASE run[r].status = "partial_failed"
    BY <1>1, <2>1, <2>5 DEF OutcomeMatches, Summary, Some
  <2>6. CASE run[r].status = "canceled"
    BY <1>1, <2>1, <2>2, <2>6 DEF OutcomeMatches, Summary, Some, Good
  <2> QED BY <1>1, <2>3, <2>4, <2>5, <2>6 DEF Settled
<1>2. Inv /\ (\A r \in Run : OutcomeMatches(r) /\ TaskMatches(r)) => OutcomeMatchesResults
  BY <1>1 DEF OutcomeMatchesResults
<1> QED BY <1>2, Invariance, MatchesInvariance, PTL

\* Whichever of them settles a run closes its unit rows, steps and phases and ends
\* its task in the same transaction.
THEOREM SettledIsClosed == Spec => []SettledRunIsClosed
<1>1. (\A r \in Run : OutcomeMatches(r) /\ TaskMatches(r)) /\ Agreed => SettledRunIsClosed
  BY DEF TaskMatches, Agreed, Agrees, RowsAgree, SettledRunIsClosed, Some, Settled, Open
<1> QED BY <1>1, MatchesInvariance, AgreedInvariance, PTL
-----------------------------------------------------------------------------
(* Rows, once closed, stay.                                                   *)

Final(r) ==
    /\ \A u \in Unit : result[r][u] \notin Open \cup {"none"} => result'[r][u] = result[r][u]
    /\ run[r].status \in Settled => run'[r] = run[r]
    /\ run[r].status = "reconciling" => run'[r].status \in Settled \cup {"reconciling"}

LEMMA FinalStep ==
    ASSUME Inv, NEW r \in Run, Agrees(r), Move(r)
    PROVE  Final(r)
<1>1. CASE Created(r)
  BY <1>1 DEF Created, Final, Agrees, RowsAgree, Settled
<1>2. CASE Asked(r) \/ Begun(r) \/ Finished(r)
  BY <1>2 DEF Asked, Begun, Finished, Final, Settled
<1>3. CASE Withdrawn(r) \/ Restarted(r)
  BY <1>3 DEF Withdrawn, Restarted, Final, Settled, Close, Open
<1>4. CASE Confirmed(r)
  BY <1>4, RemainderType DEF Confirmed, Final, Settled
<1>5. CASE Failed(r)
  BY <1>5 DEF Failed, Final, Settled, Close, Open
<1>6. CASE Launched(r) \/ Joined(r) \/ Dropped(r)
  BY <1>6, RowTyped DEF Launched, Joined, Dropped, Cell, Final, Working, Settled, Open
<1>7. CASE Kept(r)
  BY <1>7 DEF Kept, Final
<1> QED BY <1>1, <1>2, <1>3, <1>4, <1>5, <1>6, <1>7
        DEF Move, Same, Leaves, Turned, Returned, Drained, Counted, Ended

\* persist_unit_outcome, settle_pending_results and the ways to settle write open
\* rows only: a closed row and a settled run are final.
THEOREM ClosedRowsAreFinal == Spec => ResultsAreFinal
<1>1. Inv /\ Agreed /\ [Next]_vars => [\A r \in Run : Final(r)]_vars
  BY Moves, FinalStep DEF Agreed
<1>2. Spec => [][\A r \in Run : Final(r)]_vars
  BY <1>1, Invariance, AgreedInvariance, PTL DEF Spec
<1> QED BY <1>2 DEF ResultsAreFinal, Final
-----------------------------------------------------------------------------
(* The order of the waves.                                                    *)

Ordered(r) ==
    \A u, v \in Unit :
        /\ result[r][v] \in Started
        /\ action[r][u] # "skip"
        /\ Wave(r, u) < Wave(r, v)
        => result[r][u] = "success"

\* rows that have not started before, and successes, stay so
LEMMA OrderedKept ==
    ASSUME NEW r \in Run, Ordered(r), action'[r] = action[r],
           \A u \in Unit : /\ result'[r][u] \in Started => result[r][u] \in Started
                           /\ result[r][u] = "success" => result'[r][u] = "success"
    PROVE  Ordered(r)'
BY DEF Ordered, Wave

LEMMA OrderedStep ==
    ASSUME Inv, NEW r \in Run, Agrees(r), Ordered(r), Move(r)
    PROVE  Ordered(r)'
<1>1. CASE Created(r)
  BY <1>1 DEF Created, Ordered, Started
<1>2. CASE Kept(r) \/ Asked(r) \/ Confirmed(r) \/ Begun(r) \/ Finished(r)
  BY <1>2, OrderedKept DEF Kept, Asked, Confirmed, Begun, Finished, PlanKept
<1>3. CASE Withdrawn(r) \/ Dropped(r) \/ Failed(r) \/ Restarted(r)
  BY <1>3, OrderedKept DEF Withdrawn, Dropped, Failed, Restarted, PlanKept, Close, Started
<1>4. CASE Joined(r)
  <2>1. action'[r] = action[r]
    BY <1>4 DEF Joined
  <2>2. \A u \in Unit : /\ result'[r][u] \in Started => result[r][u] \in Started
                        /\ result[r][u] = "success" => result'[r][u] = "success"
    BY <1>4 DEF Joined, Cell, Started
  <2> QED BY <2>1, <2>2, OrderedKept
<1>5. CASE Launched(r)
  <2>1. WavesAgree(r) /\ action'[r] = action[r]
    BY <1>5 DEF Launched, Agrees, ExecutorAgrees
  <2>2. PICK w \in exec[r].pending :
           result[r][w] = "pending" /\ Cell(result'[r], result[r], w, "running")
    BY <1>5 DEF Launched
  <2>3. w \in Unit /\ action[r][w] # "skip" /\ w \in Taken(r)
    BY <2>1, <2>2, RowTyped DEF WavesAgree, Taken, Agrees, RowsAgree
  <2>4. \A u, v \in Unit : Wave(r, u)' = Wave(r, u) /\ Wave(r, u) \in Int
    BY <2>1, WaveType DEF Wave
  <2>5. ASSUME NEW u \in Unit, NEW v \in Unit, result'[r][v] \in Started, action[r][u] # "skip",
               Wave(r, u) < Wave(r, v)
        PROVE  result'[r][u] = "success"
    <3>1. result[r][u] = "success"
      <4>1. CASE v = w
        <5>1. u \notin exec[r].todo
          BY <2>1, <2>3, <2>4, <2>5, <4>1 DEF WavesAgree
        <5>2. u \in Taken(r)
          BY <2>5, <5>1 DEF Taken
        <5> QED BY <2>1, <2>3, <2>5, <4>1, <5>2 DEF WavesAgree
      <4>2. CASE v # w
        BY <2>2, <2>5, <4>2 DEF Ordered, Cell
      <4> QED BY <4>1, <4>2
    <3> QED BY <2>2, <3>1 DEF Cell
  <2> QED BY <2>1, <2>4, <2>5 DEF Ordered
<1> QED BY <1>1, <1>2, <1>3, <1>4, <1>5
        DEF Move, Same, Leaves, Turned, Returned, Drained, Counted, Ended

\* execution_waves and the wave loop: no unit starts before every unit of the
\* earlier waves has succeeded, and nothing that happens later unsays it.
THEOREM WavesInOrder == Spec => []StagesInOrder
<1> DEFINE AllOrdered == \A r \in Run : Ordered(r)
<1>1. Init => AllOrdered
  BY DEF Init, Ordered, Started
<1>2. Inv /\ Agreed /\ AllOrdered /\ [Next]_vars => AllOrdered'
  BY Moves, OrderedStep DEF Agreed
<1>3. AllOrdered => StagesInOrder
  BY DEF Ordered, StagesInOrder
<1> QED BY <1>1, <1>2, <1>3, Invariance, AgreedInvariance, PTL DEF Spec
-----------------------------------------------------------------------------
(* Units in flight.                                                           *)

InFlight(r) == {u \in Unit : result[r][u] = "running"}
Limited(r) == IsFiniteSet(InFlight(r)) /\ Cardinality(InFlight(r)) <= MaxParallel

LEMMA InFlightShrinks ==
    ASSUME Inv, NEW r \in Run, Move(r), ~Launched(r)
    PROVE  InFlight(r)' \subseteq InFlight(r)
<1>1. CASE Created(r)
  BY <1>1 DEF Created, InFlight
<1>2. CASE Kept(r) \/ Asked(r) \/ Confirmed(r) \/ Begun(r) \/ Finished(r)
  BY <1>2 DEF Kept, Asked, Confirmed, Begun, Finished, InFlight
<1>3. CASE Withdrawn(r) \/ Dropped(r) \/ Failed(r) \/ Restarted(r)
  BY <1>3 DEF Withdrawn, Dropped, Failed, Restarted, Close, InFlight
<1>4. CASE Joined(r)
  BY <1>4 DEF Joined, Cell, InFlight
<1> QED BY <1>1, <1>2, <1>3, <1>4
        DEF Move, Same, Leaves, Turned, Returned, Drained, Counted, Ended

LEMMA LimitedStep ==
    ASSUME Inv, NEW r \in Run, Agrees(r), Limited(r), Move(r)
    PROVE  Limited(r)'
<1>1. CASE ~Launched(r)
  BY <1>1, InFlightShrinks, FS_Subset, FS_CardinalityType, ConstantsAssumption DEF Limited
<1>2. CASE Launched(r)
  <2>1. InFlight(r) = Live(r)
    BY <1>2 DEF Launched, Agrees, ExecutorAgrees, WavesAgree, InFlight, Live
  <2>2. PICK u : Cell(result'[r], result[r], u, "running")
    BY <1>2 DEF Launched
  <2>3. InFlight(r)' \subseteq InFlight(r) \cup {u}
    BY <2>2 DEF InFlight, Cell
  <2>4. /\ IsFiniteSet(InFlight(r) \cup {u})
        /\ Cardinality(InFlight(r) \cup {u}) <= Cardinality(InFlight(r)) + 1
    BY FS_AddElement, FS_CardinalityType DEF Limited
  <2>5. Cardinality(InFlight(r)) < MaxParallel
    BY <1>2, <2>1 DEF Launched
  <2>6. /\ IsFiniteSet(InFlight(r)')
        /\ Cardinality(InFlight(r)') <= Cardinality(InFlight(r) \cup {u})
    BY <2>3, <2>4, FS_Subset
  <2>7. /\ Cardinality(InFlight(r)) \in Nat /\ Cardinality(InFlight(r)') \in Nat
        /\ Cardinality(InFlight(r) \cup {u}) \in Nat
    BY <2>4, <2>6, FS_CardinalityType DEF Limited
  <2> QED BY <2>4, <2>5, <2>6, <2>7, ConstantsAssumption DEF Limited
<1> QED BY <1>1, <1>2

\* execute_wave fills the JoinSet up to max_parallel_units and not further, and no
\* unit row is left running by an executor that is gone.
THEOREM WithinParallelLimit == Spec => []ParallelLimit
<1> DEFINE AllLimited == \A r \in Run : Limited(r)
<1>1. Init => AllLimited
  <2> SUFFICES ASSUME Init, NEW r \in Run PROVE Limited(r)
    OBVIOUS
  <2>1. InFlight(r) = {}
    BY DEF Init, InFlight
  <2> QED BY <2>1, FS_EmptySet, ConstantsAssumption DEF Limited
<1>2. Inv /\ Agreed /\ AllLimited /\ [Next]_vars => AllLimited'
  BY Moves, LimitedStep DEF Agreed
<1>3. AllLimited => ParallelLimit
  BY DEF Limited, InFlight, ParallelLimit
<1> QED BY <1>1, <1>2, <1>3, Invariance, AgreedInvariance, PTL DEF Spec
-----------------------------------------------------------------------------
(* Rows and targets.                                                          *)

\* a unit that reports success has left nothing on its target
Truthful(r) ==
    \A u \in Unit :
        /\ job[r][u] = "success" => remote[r][u] = "none"
        /\ remote[r][u] # "none" => result[r][u] \in {"running", "failed", "canceled_unknown"}

LEMMA TruthfulStep ==
    ASSUME Inv, NEW r \in Run, Agrees(r), Truthful(r), Move(r)
    PROVE  Truthful(r)'
<1>1. CASE Same(r) \/ Turned(r) \/ Drained(r) \/ Counted(r) \/ Asked(r) \/ Confirmed(r)
           \/ Begun(r) \/ Finished(r)
  <2>1. result'[r] = result[r] /\ job'[r] = job[r] /\ remote'[r] = remote[r]
    BY <1>1 DEF Same, Turned, Drained, Counted, Asked, Confirmed, Begun, Finished, Kept, Aside
  <2> QED BY <2>1 DEF Truthful
<1>2. CASE Created(r)
  BY <1>2 DEF Created, Truthful, Agrees, RowsAgree
<1>3. CASE Leaves(r)
  BY <1>3 DEF Leaves, Kept, Truthful
<1>4. CASE Withdrawn(r) \/ Dropped(r)
  BY <1>4 DEF Withdrawn, Dropped, Aside, Truthful
<1>5. CASE Failed(r) \/ Restarted(r)
  BY <1>5 DEF Failed, Restarted, Aside, Close, Truthful
<1>6. CASE Launched(r)
  BY <1>6 DEF Launched, Cell, Truthful
<1>7. CASE Returned(r)
  <2>1. PICK u \in Unit, outcome \in Outcomes, left \in {"none", "stray"} :
           /\ job[r][u] = "busy" /\ (outcome = "success" => left = "none")
           /\ Cell(job'[r], job[r], u, outcome) /\ Cell(remote'[r], remote[r], u, left)
    BY <1>7 DEF Returned
  <2>2. result[r][u] = "running" /\ result'[r] = result[r]
    BY <1>7, <2>1, RowTyped DEF Returned, Kept, Agrees, ExecutorAgrees, WavesAgree
  <2> QED BY <2>1, <2>2 DEF Truthful, Cell
<1>8. CASE Joined(r)
  BY <1>8 DEF Joined, Cell, Outcomes, Truthful
<1>9. CASE Ended(r)
  BY <1>9 DEF Ended, Kept, Cell, Truthful
<1> QED BY <1>1, <1>2, <1>3, <1>4, <1>5, <1>6, <1>7, <1>8, <1>9 DEF Move

\* persist_unit_outcome records what the executor was told, the closing of rows
\* turns what was in flight into canceled_unknown: no row claims more about a target
\* than is known.
THEOREM ReportsAreTrue == Spec => []NoFalseReport
<1> DEFINE AllTruthful == \A r \in Run : Truthful(r)
<1>1. Init => AllTruthful
  BY DEF Init, Truthful
<1>2. Inv /\ Agreed /\ AllTruthful /\ [Next]_vars => AllTruthful'
  BY Moves, TruthfulStep DEF Agreed
<1>3. AllTruthful => NoFalseReport
  BY DEF Truthful, NoFalseReport
<1> QED BY <1>1, <1>2, <1>3, Invariance, AgreedInvariance, PTL DEF Spec
=============================================================================
