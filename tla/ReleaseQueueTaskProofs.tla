----------------------- MODULE ReleaseQueueTaskProofs -----------------------
(***************************************************************************)
(* Proofs about ReleaseQueue: who carries out a task, and what its item may *)
(* say meanwhile.                                                          *)
(*                                                                         *)
(* Held: a task that is not over is with one worker, one request or one job of *)
(* the channel, never with two (Distinct); its holder has it in the state that *)
(* fits the holder's statement, and the items bound to it are exactly those *)
(* the holder knows of (BoundTo). A task that recovery failed behind its   *)
(* holder's back is the exception, and only a restart makes one (Failed).  *)
(*                                                                         *)
(* OneActive and Matched say what the trigger on operation_tasks is worth: of *)
(* the tasks of an application one at most is active, and a task is bound to *)
(* one item, of its own application.                                       *)
(*                                                                         *)
(* Backed ties the success of an item to that of its task: without BoundTo *)
(* another worker could close the item. CarriedOn says of an item that runs *)
(* that its task is in the channel, at work, lost with it to a restart, or that *)
(* the recovery which will close it has not run yet.                       *)
(***************************************************************************)
EXTENDS ReleaseQueueProofs
-----------------------------------------------------------------------------
(* Who has a task: a worker, a request or a job, and one of them only. *)

Failed(t) == crashes > 0 /\ task[t].status = "failed"
Unstarted(t) == task[t].status \in {"queued", "canceled"} \/ Failed(t)
Started(t) == task[t].status = "running" \/ Failed(t)
BoundTo(j, t) == \A i \in Item : item[i].task = t <=> i = j

ItemFor(d) == IF d.at \in {"mark", "undo"} THEN 0 ELSE d.item
Owned(d) ==
    d.at \in Owning => /\ BoundTo(ItemFor(d), d.task)
                       /\ d.at \in Pending => Unstarted(d.task)
                       /\ d.at \in Working => Started(d.task)
                       /\ d.at = "item" => task[d.task].status = d.outcome
Submitted(d) == d.at = "job" => BoundTo(0, d.id) /\ Unstarted(d.id)
Waits(job) == BoundTo(job.item, job.task) /\ Unstarted(job.task)

Distinct ==
    /\ \A p, q \in Proc : p # q /\ proc[p].at \in Owning /\ proc[q].at \in Owning
                          => proc[p].task # proc[q].task
    /\ \A c, d \in Client : c # d /\ client[c].at = "job" /\ client[d].at = "job"
                            => client[c].id # client[d].id
    /\ \A k, l \in DOMAIN jobs : k # l => jobs[k].task # jobs[l].task
    /\ \A p \in Proc, c \in Client : proc[p].at \in Owning /\ client[c].at = "job"
                                     => proc[p].task # client[c].id
    /\ \A p \in Proc, k \in DOMAIN jobs : proc[p].at \in Owning => proc[p].task # jobs[k].task
    /\ \A c \in Client, k \in DOMAIN jobs : client[c].at = "job" => client[c].id # jobs[k].task

Held ==
    /\ \A p \in Proc : Owned(proc[p])
    /\ \A c \in Client : Submitted(client[c])
    /\ \A k \in DOMAIN jobs : Waits(jobs[k])
    /\ Distinct


\* the same, of the rows after the step
FailedThen(t) == crashes' > 0 /\ task'[t].status = "failed"
UnstartedThen(t) == task'[t].status \in {"queued", "canceled"} \/ FailedThen(t)
StartedThen(t) == task'[t].status = "running" \/ FailedThen(t)
BoundThen(j, t) == \A i \in Item : item'[i].task = t <=> i = j
OwnedThen(d) ==
    d.at \in Owning => /\ BoundThen(ItemFor(d), d.task)
                       /\ d.at \in Pending => UnstartedThen(d.task)
                       /\ d.at \in Working => StartedThen(d.task)
                       /\ d.at = "item" => task'[d.task].status = d.outcome
SubmittedThen(d) == d.at = "job" => BoundThen(0, d.id) /\ UnstartedThen(d.id)
WaitsThen(job) == BoundThen(job.item, job.task) /\ UnstartedThen(job.task)

LEMMA HeldThen ==
    ASSUME \A p \in Proc : OwnedThen(proc'[p]),
           \A c \in Client : SubmittedThen(client'[c]),
           \A k \in DOMAIN jobs' : WaitsThen(jobs'[k]),
           Distinct'
    PROVE  Held'
<1>1. \A p \in Proc : Owned(proc[p])'
  BY DEF OwnedThen, Owned, BoundThen, BoundTo, UnstartedThen, Unstarted, StartedThen, Started,
         FailedThen, Failed, ItemFor
<1>2. \A c \in Client : Submitted(client[c])'
  BY DEF SubmittedThen, Submitted, BoundThen, BoundTo, UnstartedThen, Unstarted, FailedThen, Failed
<1>3. \A k \in DOMAIN jobs' : Waits(jobs[k])'
  BY DEF WaitsThen, Waits, BoundThen, BoundTo, UnstartedThen, Unstarted, FailedThen, Failed
<1> QED BY <1>1, <1>2, <1>3 DEF Held

\* a task that the step does not touch, a worker and a request that keep theirs
Keeps(t) ==
    \/ task'[t].status = task[t].status
    \/ task[t].status = "queued" /\ task'[t].status = "canceled"
    \/ task[t].status \in {"queued", "running"} /\ FailedThen(t)
Holding(t) ==
    \A i \in Item :
        item'[i].task = item[i].task \/ (item'[i].task # t /\ item[i].task # t)
Calm(t) == Keeps(t) /\ Holding(t)
SameTask(p) == proc'[p].at \in Owning => proc[p].at \in Owning /\ proc'[p].task = proc[p].task
Stays(p) ==
    proc'[p].at \in Owning =>
        /\ proc[p].at \in Owning /\ proc'[p].task = proc[p].task
        /\ ItemFor(proc'[p]) = ItemFor(proc[p])
        /\ proc'[p].at \in Pending => proc[p].at \in Pending
        /\ proc'[p].at \in Working => proc[p].at \in Working
        /\ proc'[p].at = "item" => proc'[p] = proc[p]
Asks(c) == client'[c].at = "job" => client'[c] = client[c]

LEMMA CrashesGrow ==
    ASSUME Inv, [Next]_vars
    PROVE  crashes > 0 => crashes' > 0
<1>1. crashes \in 0 .. MaxCrashes /\ MaxCrashes \in Nat
  BY QueueAssumption DEF Inv, TypeOK
<1> QED BY <1>1, RestartMoves

LEMMA CalmTask ==
    ASSUME Inv, [Next]_vars, NEW t \in Task, Calm(t)
    PROVE  /\ Unstarted(t) => UnstartedThen(t)
           /\ Started(t) => StartedThen(t)
           /\ task[t].status \in {"success", "failed"} => task'[t].status = task[t].status
           /\ \A j \in Item \cup {0} : BoundTo(j, t) => BoundThen(j, t)
<1>1. Unstarted(t) => UnstartedThen(t)
  BY CrashesGrow DEF Calm, Keeps, Unstarted, UnstartedThen, Failed, FailedThen
<1>2. Started(t) => StartedThen(t)
  BY CrashesGrow DEF Calm, Keeps, Started, StartedThen, Failed, FailedThen
<1>3. task[t].status \in {"success", "failed"} => task'[t].status = task[t].status
  BY DEF Calm, Keeps
<1>4. \A j \in Item \cup {0} : BoundTo(j, t) => BoundThen(j, t)
  BY DEF Calm, Holding, BoundTo, BoundThen
<1> QED BY <1>1, <1>2, <1>3, <1>4

LEMMA CalmProc ==
    ASSUME Inv, Held, [Next]_vars, NEW p \in Proc, Stays(p),
           proc[p].at \in Owning => Calm(proc[p].task)
    PROVE  OwnedThen(proc'[p])
<1> SUFFICES ASSUME proc'[p].at \in Owning
             PROVE  OwnedThen(proc'[p])
  BY DEF OwnedThen
<1> DEFINE d == proc[p]
           t == d.task
<1>1. d \in ProcRow /\ ProcKnown(p, d) /\ Owned(d) /\ d.at \in Owning
  BY Typed DEF Inv, Held, Stays
<1>2. t \in Task /\ ItemFor(d) \in Item \cup {0} /\ Calm(t)
  BY <1>1 DEF ProcKnown, ProcRow, ItemFor
<1>3. BoundThen(ItemFor(d), t) /\ (d.at \in Pending => UnstartedThen(t))
      /\ (d.at \in Working => StartedThen(t))
  BY <1>1, <1>2, CalmTask DEF Owned
<1>4. d.at = "item" => task'[t].status = d.outcome
  BY <1>1, <1>2, CalmTask DEF Owned, ProcKnown
<1> QED BY <1>3, <1>4 DEF Stays, OwnedThen

LEMMA CalmClient ==
    ASSUME Inv, Held, [Next]_vars, NEW c \in Client, Asks(c),
           client[c].at = "job" => Calm(client[c].id)
    PROVE  SubmittedThen(client'[c])
<1> SUFFICES ASSUME client'[c].at = "job"
             PROVE  SubmittedThen(client'[c])
  BY DEF SubmittedThen
<1>1. client'[c] = client[c] /\ client[c].id \in Task /\ Submitted(client[c])
  BY DEF Inv, Held, Asks, ClientKnown
<1> QED BY <1>1, CalmTask DEF Submitted, SubmittedThen

LEMMA CalmJob ==
    ASSUME Inv, Held, [Next]_vars, NEW k \in DOMAIN jobs, Calm(jobs[k].task)
    PROVE  WaitsThen(jobs[k])
<1>1. jobs[k].task \in Task /\ jobs[k].item \in Item \cup {0} /\ Waits(jobs[k])
  BY JobsTyped DEF Job, Held
<1> QED BY <1>1, CalmTask DEF Waits, WaitsThen

LEMMA SameDistinct ==
    ASSUME Distinct, \A p \in Proc : SameTask(p), \A c \in Client : Asks(c),
           jobs' = jobs \/ DOMAIN jobs' = {}
    PROVE  Distinct'
<1>1. \A p, q \in Proc : p # q /\ proc'[p].at \in Owning /\ proc'[q].at \in Owning
                          => proc'[p].task # proc'[q].task
  BY DEF Distinct, SameTask
<1>2. \A c, d \in Client : c # d /\ client'[c].at = "job" /\ client'[d].at = "job"
                            => client'[c].id # client'[d].id
  BY DEF Distinct, Asks
<1>3. \A k, l \in DOMAIN jobs' : k # l => jobs'[k].task # jobs'[l].task
  BY DEF Distinct
<1>4. \A p \in Proc, c \in Client : proc'[p].at \in Owning /\ client'[c].at = "job"
                                     => proc'[p].task # client'[c].id
  BY DEF Distinct, SameTask, Asks
<1>5. \A p \in Proc, k \in DOMAIN jobs' : proc'[p].at \in Owning => proc'[p].task # jobs'[k].task
  BY DEF Distinct, SameTask
<1>6. \A c \in Client, k \in DOMAIN jobs' : client'[c].at = "job" => client'[c].id # jobs'[k].task
  BY DEF Distinct, Asks
<1> QED BY <1>1, <1>2, <1>3, <1>4, <1>5, <1>6 DEF Distinct
-----------------------------------------------------------------------------
(* The steps that leave the holders of tasks as they are. *)

LEMMA RowsHold ==
    ASSUME Inv, [Next]_vars, \A p \in Proc : ~MarkRunning(p)
    PROVE  \A i \in Item : item'[i].task = item[i].task
<1> SUFFICES ASSUME NEW i \in Item
             PROVE  item'[i].task = item[i].task
  OBVIOUS
<1>1. RowStep(i) /\ ~Bind(i)
  BY ItemMoves DEF ItemsStep, Bind
<1>2. Enqueued(i) => item'[i].task = 0 /\ item[i].task = 0
  BY DEF Enqueued, NewItem, Inv, ItemKnown
<1> QED BY <1>1, <1>2 DEF RowStep, Due, Closed, Kept

LEMMA TasksKeep ==
    ASSUME Inv, [Next]_vars,
           \A p \in Proc : ~CreateTask(p) /\ ~UndoTask(p),
           \A c \in Client, app \in App : ~SubmitCompose(c, app),
           ~TakeJob, ~FinishTask, ~FailTask
    PROVE  \A t \in Task : Keeps(t)
<1>0. CASE task' = task
  BY <1>0 DEF Keeps
<1>1. ASSUME NEW c \in Client, NEW rel \in Release,
             Receive(c, rel) \/ PublishRead(c, rel) \/ ScheduleRead(c, rel) \/ CancelScheduled(c, rel)
      PROVE  task' = task
  BY <1>1 DEF Receive, PublishRead, ScheduleRead, CancelScheduled, dbVars
<1>2. ASSUME NEW c \in Client, Handler(c) \/ \E i \in Item : CancelItemRead(c, i)
      PROVE  task' = task
  BY <1>2
  DEF Handler, PublishCommit, ScheduleCommit, Notify, CancelItemCommit, CancelTaskCommit, SendJob,
      CancelItemRead, dbVars
<1>3. ASSUME NEW c \in Client, NEW t \in Task, CancelTask(c, t)
      PROVE  \A u \in Task : Keeps(u)
  <2>1. task' = [task EXCEPT ![t].status = "canceled"] /\ task[t].status = "queued"
    BY <1>3 DEF CancelTask, Cancelable
  <2>2. task \in [Task -> TaskRow]
    BY Typed DEF Inv
  <2>3. task'[t].status = "canceled" /\ \A u \in Task \ {t} : task'[u] = task[u]
    BY <2>1, <2>2 DEF TaskRow
  <2> QED BY <2>1, <2>3 DEF Keeps
<1>4. CASE Recover
  <2>1. task' = [t \in Task |-> IF task[t].status \in Active
                               THEN [task[t] EXCEPT !.status = "failed"] ELSE task[t]]
    BY <1>4 DEF Recover
  <2>2. task \in [Task -> TaskRow] /\ crashes' > 0
    BY <1>4, Typed, RestartMoves DEF Inv, Recover
  <2> QED BY <2>1, <2>2 DEF Keeps, FailedThen, TaskRow, Active
<1>5. CASE Timer \/ (\E due \in SUBSET Scheduled : TimerReads(due)) \/ TakeDispatch \/ Crash
           \/ UNCHANGED vars
  <2>1. task' = task
    BY <1>5
    DEF Timer, TimerQueues, TimerReads, TimerNotifies, TakeDispatch, Crash, dbVars, vars
  <2> QED BY <1>0, <2>1
<1>6. CASE Recovery
  BY <1>0, <1>4, <1>6 DEF Recovery, Start, Announce, Serve, Tell, dbVars
<1>7. ASSUME NEW p \in Proc, Dispatch(p)
      PROVE  task' = task
  BY <1>7
  DEF Dispatch, CheckRunning, SelectItem, MarkRunning, MarkDeploying, SendDispatched, dbVars
<1>8. CASE Worker
  <2>1. task' = task
    BY <1>8
    DEF Worker, FinishItem, FailPreflight, FinishRelease, FailRelease, NextJob, Deploy, dbVars
  <2> QED BY <1>0, <2>1
<1> QED BY <1>0, <1>1, <1>2, <1>3, <1>5, <1>6, <1>7, <1>8 DEF Next

\* a worker that goes on or rests
LEMMA OneStays ==
    ASSUME Inv, NEW p \in Proc, NEW d \in ProcRow, proc' = [proc EXCEPT ![p] = d],
           d.at \notin Owning
    PROVE  \A q \in Proc : Stays(q)
BY Typed DEF Inv, Stays

LEMMA GoesOnHolding ==
    ASSUME Inv, NEW p \in Proc, NEW at \in Steps \ {"item"}, Goto(p, at),
           at \in Owning => proc[p].at \in Owning /\ (at \in {"mark", "undo"} <=> proc[p].at \in {"mark", "undo"}),
           at \in Pending => proc[p].at \in Pending,
           at \in Working => proc[p].at \in Working
    PROVE  \A q \in Proc : Stays(q)
<1>1. proc \in [Proc -> ProcRow]
  BY Typed DEF Inv
<1>2. proc'[p].at = at /\ proc'[p].task = proc[p].task /\ proc'[p].item = proc[p].item
      /\ \A q \in Proc \ {p} : proc'[q] = proc[q]
  BY <1>1 DEF Goto, ProcRow
<1> QED BY <1>2 DEF Stays, ItemFor

LEMMA RestsHolding ==
    ASSUME Inv, NEW p \in Proc, Rest(p)
    PROVE  \A q \in Proc : Stays(q)
BY IdleFits, OneStays DEF Rest, IdleProc, Owning, Pending, Working

LEMMA SameStays ==
    ASSUME proc' = proc
    PROVE  \A q \in Proc : Stays(q)
BY DEF Stays

LEMMA DispatchStays ==
    ASSUME Inv, NEW p \in Proc, Dispatch(p), ~CreateTask(p), ~MarkRunning(p)
    PROVE  \A q \in Proc : Stays(q)
<1>1. CASE CheckRunning(p)
  BY <1>1, RestsHolding, GoesOnHolding DEF CheckRunning, Steps, Owning, Pending, Working
<1>2. CASE SelectItem(p)
  <2>1. ASSUME NEW i \in Candidates(proc[p].app),
               proc' = [proc EXCEPT ![p] = [@ EXCEPT !.at = "create", !.item = i]]
        PROVE  \A q \in Proc : Stays(q)
    <3> DEFINE c == proc[p]
               d == [c EXCEPT !.at = "create", !.item = i]
    <3>1. i \in Item /\ c \in ProcRow /\ proc' = [proc EXCEPT ![p] = d]
      BY <2>1, Typed DEF Inv, Candidates, ItemsOf
    <3>2. d \in ProcRow /\ d.at = "create"
      BY <3>1 DEF ProcRow, Steps
    <3> HIDE DEF d, c
    <3> QED BY <3>1, <3>2, OneStays DEF Owning, Pending, Working
  <2> QED BY <1>2, <2>1, RestsHolding DEF SelectItem
<1>3. CASE UndoTask(p) \/ SendDispatched(p)
  BY <1>3, RestsHolding DEF UndoTask, SendDispatched
<1>4. CASE MarkDeploying(p)
  BY <1>4, GoesOnHolding DEF MarkDeploying, Steps, Owning, Pending, Working
<1> QED BY <1>1, <1>2, <1>3, <1>4 DEF Dispatch

LEMMA WorkerStays ==
    ASSUME Inv, Worker, ~TakeJob, ~FinishTask
    PROVE  \A q \in Proc : Stays(q)
<1>0. /\ W \in ProcRow /\ proc \in [Proc -> ProcRow] /\ "worker" \in Proc
  BY Typed DEF Inv, Proc, W
<1>1. ASSUME NEW outcome \in Outcomes, Deploy(outcome)
      PROVE  \A q \in Proc : Stays(q)
  <2>1. PICK at \in {"task", "preflight"} :
            proc' = [proc EXCEPT !["worker"] = [W EXCEPT !.at = at, !.outcome = outcome]]
    BY <1>1 DEF Deploy
  <2>2. /\ proc'["worker"].at = at /\ proc'["worker"].task = W.task
        /\ proc'["worker"].item = W.item
        /\ \A q \in Proc \ {"worker"} : proc'[q] = proc[q]
    BY <1>0, <2>1 DEF ProcRow
  <2>3. proc["worker"].at = "run"
    BY <1>1 DEF Deploy, W
  <2> QED BY <2>2, <2>3 DEF Stays, ItemFor, Owning, Pending, Working, W
<1>2. CASE FinishItem \/ FailPreflight \/ FailRelease \/ FailTask
  BY <1>0, <1>2, GoesOnHolding
  DEF FinishItem, FailPreflight, FailRelease, FailTask, W, Steps, Owning, Pending, Working
<1>3. CASE FinishRelease
  <2>1. Goto("worker", "check") \/ Goto("worker", "rest")
    BY <1>3 DEF FinishRelease
  <2> QED BY <1>0, <2>1, GoesOnHolding DEF Steps, Owning, Pending, Working
<1>4. CASE NextJob
  BY <1>0, <1>4, RestsHolding DEF NextJob
<1> QED BY <1>1, <1>2, <1>3, <1>4 DEF Worker

LEMMA ProcsStay ==
    ASSUME Inv, [Next]_vars, \A p \in Proc : ~CreateTask(p) /\ ~MarkRunning(p),
           ~TakeJob, ~FinishTask
    PROVE  \A p \in Proc : Stays(p)
<1>1. CASE TakeDispatch
  <2> DEFINE d == [IdleProc EXCEPT !.at = "check", !.app = Head(dispatches)]
  <2>1. Head(dispatches) \in App
    BY <1>1, Typed, HeadTailProperties DEF Inv, TakeDispatch
  <2>2. d \in ProcRow /\ d.at = "check"
    BY <2>1 DEF IdleProc, ProcRow, Steps
  <2>3. proc' = [proc EXCEPT !["dispatcher"] = d] /\ "dispatcher" \in Proc
    BY <1>1 DEF TakeDispatch, Proc
  <2> HIDE DEF d
  <2> QED BY <2>2, <2>3, OneStays DEF Owning, Pending, Working
<1>2. CASE Crash
  BY <1>2 DEF Crash, Stays, IdleProc, Owning, Pending, Working
<1>3. ASSUME NEW c \in Client,
             \/ \E rel \in Release : \/ Receive(c, rel) \/ PublishRead(c, rel)
                                     \/ ScheduleRead(c, rel) \/ CancelScheduled(c, rel)
             \/ \E i \in Item : CancelItemRead(c, i)
             \/ \E t \in Task : CancelTask(c, t)
             \/ \E app \in App : SubmitCompose(c, app)
             \/ Handler(c)
      PROVE  proc' = proc
  BY <1>3
  DEF Receive, PublishRead, ScheduleRead, CancelScheduled, CancelItemRead, CancelTask, SubmitCompose,
      Handler, PublishCommit, ScheduleCommit, Notify, CancelItemCommit, CancelTaskCommit, SendJob
<1>4. CASE Timer \/ (\E due \in SUBSET Scheduled : TimerReads(due)) \/ Recovery \/ UNCHANGED vars
  <2>1. proc' = proc
    BY <1>4
    DEF Timer, TimerQueues, TimerReads, TimerNotifies, Recovery, Start, Recover, Announce, Serve,
        Tell, vars
  <2> QED BY <2>1, SameStays
<1> QED BY <1>1, <1>2, <1>3, <1>4, SameStays, DispatchStays, WorkerStays DEF Next

LEMMA ClientsAsk ==
    ASSUME Inv, [Next]_vars, \A c \in Client, app \in App : ~SubmitCompose(c, app)
    PROVE  \A c \in Client : Asks(c)
<1>0. client \in [Client -> ClientRow]
  BY Typed DEF Inv
<1>1. ASSUME NEW c \in Client, NEW rel, NEW id,
             NEW at \in {"publish", "schedule", "notify", "cancel", "cancel task"},
             Continue(c, at, rel, id)
      PROVE  \A d \in Client : Asks(d)
  BY <1>0, <1>1 DEF Continue, Asks
<1>2. ASSUME NEW c \in Client, client' = [client EXCEPT ![c] = IdleClient]
      PROVE  \A d \in Client : Asks(d)
  BY <1>0, <1>2 DEF IdleClient, Asks
<1>3. CASE client' = client
  BY <1>3 DEF Asks
<1>4. ASSUME NEW c \in Client, NEW rel \in Release,
             Receive(c, rel) \/ PublishRead(c, rel) \/ ScheduleRead(c, rel) \/ CancelScheduled(c, rel)
      PROVE  \A d \in Client : Asks(d)
  BY <1>1, <1>3, <1>4 DEF Receive, PublishRead, ScheduleRead, CancelScheduled
<1>5. ASSUME NEW c \in Client,
             (\E i \in Item : CancelItemRead(c, i)) \/ (\E t \in Task : CancelTask(c, t))
      PROVE  \A d \in Client : Asks(d)
  BY <1>1, <1>5 DEF CancelItemRead, CancelTask
<1>6. ASSUME NEW c \in Client, Handler(c)
      PROVE  \A d \in Client : Asks(d)
  <2>1. CASE PublishCommit(c) \/ CancelItemCommit(c)
    BY <1>1, <2>1 DEF PublishCommit, CancelItemCommit
  <2>2. CASE ScheduleCommit(c) \/ Notify(c) \/ CancelTaskCommit(c) \/ SendJob(c)
    BY <1>2, <2>2 DEF ScheduleCommit, Notify, CancelTaskCommit, SendJob
  <2> QED BY <1>6, <2>1, <2>2 DEF Handler
<1>7. CASE Crash
  BY <1>7 DEF Crash, IdleClient, Asks
<1>8. CASE Timer \/ (\E due \in SUBSET Scheduled : TimerReads(due)) \/ TakeDispatch
           \/ UNCHANGED vars
  BY <1>3, <1>8 DEF Timer, TimerQueues, TimerReads, TimerNotifies, TakeDispatch, vars
<1>9. ASSUME NEW p \in Proc, Dispatch(p)
      PROVE  client' = client
  BY <1>9
  DEF Dispatch, CheckRunning, SelectItem, CreateTask, MarkRunning, UndoTask, MarkDeploying, SendDispatched
<1>10. CASE Worker \/ Recovery
  <2>1. client' = client
    BY <1>10
    DEF Worker, TakeJob, FinishTask, FinishItem, FinishRelease, FailPreflight, FailRelease, FailTask,
        NextJob, Deploy, Recovery, Start, Recover, Announce, Serve, Tell
  <2> QED BY <1>3, <2>1
<1> QED BY <1>3, <1>4, <1>5, <1>6, <1>7, <1>8, <1>9, <1>10 DEF Next

\* as Held, the part that is about the rows
HoldersThen ==
    /\ \A p \in Proc : OwnedThen(proc'[p])
    /\ \A c \in Client : SubmittedThen(client'[c])
    /\ \A k \in DOMAIN jobs' : WaitsThen(jobs'[k])

\* One task is touched, which is nobody's any more or is seen to apart.
LEMMA CalmHolders ==
    ASSUME Inv, Held, [Next]_vars, NEW s, \A t \in Task \ {s} : Calm(t),
           \A p \in Proc : Stays(p) \/ OwnedThen(proc'[p]),
           \A c \in Client : Asks(c) \/ SubmittedThen(client'[c]),
           \A p \in Proc : proc'[p].at \in Owning /\ Stays(p) => proc'[p].task # s,
           \A c \in Client : client'[c].at = "job" /\ Asks(c) => client'[c].id # s,
           \A k \in DOMAIN jobs' : \/ WaitsThen(jobs'[k])
                                   \/ /\ jobs'[k].task # s
                                     /\ \E l \in DOMAIN jobs : jobs'[k] = jobs[l]
    PROVE  HoldersThen
<1>1. ASSUME NEW p \in Proc, Stays(p), proc'[p].at \in Owning
      PROVE  OwnedThen(proc'[p])
  <2>1. proc[p].at \in Owning /\ proc'[p].task = proc[p].task
    BY <1>1 DEF Stays
  <2>2. proc[p].task \in Task /\ proc[p].task # s
    BY <1>1, <2>1 DEF Inv, ProcKnown
  <2> QED BY <1>1, <2>2, CalmProc
<1>2. ASSUME NEW c \in Client, Asks(c), client'[c].at = "job"
      PROVE  SubmittedThen(client'[c])
  <2>1. client'[c] = client[c] /\ client[c].id \in Task /\ client[c].id # s
    BY <1>2 DEF Asks, Inv, ClientKnown
  <2> QED BY <1>2, <2>1, CalmClient
<1>3. ASSUME NEW k \in DOMAIN jobs'
      PROVE  WaitsThen(jobs'[k])
  <2>1. CASE WaitsThen(jobs'[k])
    BY <2>1
  <2>2. ASSUME NEW l \in DOMAIN jobs, jobs'[k] = jobs[l], jobs'[k].task # s
        PROVE  WaitsThen(jobs'[k])
    <3>1. jobs[l].task \in Task
      BY JobsTyped DEF Job
    <3> QED BY <2>2, <3>1, CalmJob
  <2> QED BY <2>1, <2>2
<1>4. \A p \in Proc : OwnedThen(proc'[p])
  BY <1>1 DEF OwnedThen
<1>5. \A c \in Client : SubmittedThen(client'[c])
  BY <1>2 DEF SubmittedThen
<1> QED BY <1>3, <1>4, <1>5 DEF HoldersThen

LEMMA HeldFromParts ==
    ASSUME HoldersThen, Distinct'
    PROVE  Held'
BY HeldThen DEF HoldersThen

LEMMA StaysSameTask ==
    ASSUME NEW p \in Proc, Stays(p)
    PROVE  SameTask(p)
BY DEF Stays, SameTask

\* Nothing happens to a task, or it is dropped by the one who had it.
LEMMA HeldDropped ==
    ASSUME Inv, Held, [Next]_vars, NEW s,
           \A t \in Task \ {s} : Keeps(t), \A t \in Task : Holding(t),
           \A p \in Proc : Stays(p), \A c \in Client : Asks(c),
           jobs' = jobs \/ DOMAIN jobs' = {},
           \/ s = 0
           \/ \E p \in Proc : /\ proc[p].at \in Owning /\ proc[p].task = s
                              /\ proc'[p].at \notin Owning
    PROVE  Held'
<1>1. Distinct'
  BY SameDistinct, StaysSameTask DEF Held
<1>2. /\ \A p \in Proc : proc'[p].at \in Owning => proc'[p].task # s
      /\ \A c \in Client : client'[c].at = "job" => client'[c].id # s
      /\ \A k \in DOMAIN jobs' : jobs'[k].task # s
  <2>1. CASE s = 0
    <3>1. 0 \notin Task
      BY DEF Task
    <3>2. \A p \in Proc : proc'[p].at \in Owning => proc'[p].task \in Task
      BY DEF Stays, Inv, ProcKnown
    <3>3. \A c \in Client : client'[c].at = "job" => client'[c].id \in Task
      BY DEF Asks, Inv, ClientKnown
    <3>4. \A k \in DOMAIN jobs' : jobs'[k].task \in Task
      BY JobsTyped DEF Job
    <3> QED BY <2>1, <3>1, <3>2, <3>3, <3>4
  <2>2. ASSUME NEW p \in Proc, proc[p].at \in Owning, proc[p].task = s, proc'[p].at \notin Owning
        PROVE  <1>2!1 /\ <1>2!2 /\ <1>2!3
    <3>1. \A q \in Proc : proc'[q].at \in Owning => proc'[q].task # s
      BY <2>2 DEF Held, Distinct, Stays
    <3>2. \A c \in Client : client'[c].at = "job" => client'[c].id # s
      BY <2>2 DEF Held, Distinct, Asks
    <3>3. \A k \in DOMAIN jobs' : jobs'[k].task # s
      BY <2>2 DEF Held, Distinct
    <3> QED BY <3>1, <3>2, <3>3
  <2> QED BY <2>1, <2>2
<1>3. HoldersThen
  <2>1. \A t \in Task \ {s} : Calm(t)
    BY DEF Calm
  <2>2. \A k \in DOMAIN jobs' : jobs'[k].task # s /\ \E l \in DOMAIN jobs : jobs'[k] = jobs[l]
    BY <1>2
  <2> QED BY <1>2, <2>1, <2>2, CalmHolders
<1> QED BY <1>1, <1>3, HeldFromParts

LEMMA HeldQuiet ==
    ASSUME Inv, Held, [Next]_vars,
           \A p \in Proc : ~CreateTask(p) /\ ~MarkRunning(p) /\ ~UndoTask(p) /\ ~SendDispatched(p),
           \A c \in Client, app \in App : ~SubmitCompose(c, app),
           \A c \in Client : ~SendJob(c),
           ~TakeJob, ~FinishTask, ~FailTask
    PROVE  Held'
<1>1. \A t \in Task : Keeps(t) /\ Holding(t)
  BY TasksKeep, RowsHold DEF Holding
<1>2. (\A p \in Proc : Stays(p)) /\ (\A c \in Client : Asks(c))
  BY ProcsStay, ClientsAsk
<1>3. jobs' = jobs \/ DOMAIN jobs' = {}
  BY JobMoves
<1> QED BY <1>1, <1>2, <1>3, HeldDropped

LEMMA OtherTasksKeep ==
    ASSUME Inv, NEW s \in Task, NEW st, TaskIs(s, st)
    PROVE  task'[s].status = st /\ \A t \in Task \ {s} : Keeps(t)
<1>1. task \in [Task -> TaskRow]
  BY Typed DEF Inv
<1>2. task'[s].status = st /\ \A t \in Task \ {s} : task'[t] = task[t]
  BY <1>1 DEF TaskIs, TaskRow
<1> QED BY <1>2 DEF Keeps

LEMMA SameRows ==
    ASSUME item' = item
    PROVE  \A t \in Task : Holding(t)
BY DEF Holding

LEMMA HeldUndo ==
    ASSUME Inv, Held, [Next]_vars, NEW p \in Proc, UndoTask(p)
    PROVE  Held'
<1> DEFINE s == proc[p].task
<1>1. proc[p].at = "undo" /\ Rest(p) /\ TaskIs(s, "failed")
      /\ item' = item /\ client' = client /\ jobs' = jobs
  BY DEF UndoTask, TaskIs
<1>2. s \in Task /\ proc \in [Proc -> ProcRow] /\ proc[p].at \in Owning
  BY <1>1, Typed DEF Inv, ProcKnown, Owning, Pending
<1>3. proc'[p].at \notin Owning
  BY <1>1, <1>2 DEF Rest, IdleProc, Owning, Pending, Working
<1>4. (\A q \in Proc : Stays(q)) /\ (\A c \in Client : Asks(c))
  BY <1>1, RestsHolding DEF Asks
<1>5. (\A t \in Task \ {s} : Keeps(t)) /\ (\A t \in Task : Holding(t))
  BY <1>1, <1>2, OtherTasksKeep, SameRows
<1> QED BY <1>1, <1>2, <1>3, <1>4, <1>5, HeldDropped

LEMMA HeldFailTask ==
    ASSUME Inv, Held, [Next]_vars, FailTask
    PROVE  Held'
<1> DEFINE p == "worker"
           s == proc[p].task
<1>1. proc[p].at = "fail task" /\ Goto(p, "rest") /\ TaskIs(s, "failed")
      /\ item' = item /\ client' = client /\ jobs' = jobs /\ p \in Proc
  BY DEF FailTask, TaskIs, W, Proc
<1>2. s \in Task /\ proc \in [Proc -> ProcRow] /\ proc[p].at \in Owning
  BY <1>1, Typed DEF Inv, ProcKnown, Owning, Working
<1>3. proc'[p].at \notin Owning
  BY <1>1, <1>2 DEF Goto, ProcRow, Owning, Pending, Working
<1>4. (\A q \in Proc : Stays(q)) /\ (\A c \in Client : Asks(c))
  BY <1>1, GoesOnHolding DEF Asks, Steps, Owning, Pending, Working
<1>5. (\A t \in Task \ {s} : Keeps(t)) /\ (\A t \in Task : Holding(t))
  BY <1>1, <1>2, OtherTasksKeep, SameRows
<1> QED BY <1>1, <1>2, <1>3, <1>4, <1>5, HeldDropped

\* A job is sent by the one who had the task.
LEMMA SentDistinct ==
    ASSUME Inv, Distinct, NEW job \in Job, jobs' = Append(jobs, job),
           \A p \in Proc : SameTask(p) /\ (proc'[p].at \in Owning => proc'[p].task # job.task),
           \A c \in Client : Asks(c) /\ (client'[c].at = "job" => client'[c].id # job.task),
           \A k \in DOMAIN jobs : jobs[k].task # job.task
    PROVE  Distinct'
<1>0. ASSUME NEW k \in DOMAIN jobs'
      PROVE  (k \in DOMAIN jobs /\ jobs'[k] = jobs[k]) \/ (k = Len(jobs) + 1 /\ jobs'[k] = job)
  <2>1. DOMAIN jobs = 1 .. Len(jobs) /\ DOMAIN jobs' = 1 .. Len(jobs) + 1 /\ Len(jobs) \in Nat
    BY SentJob, JobsTyped
  <2>2. k \in DOMAIN jobs \/ k = Len(jobs) + 1
    BY <2>1
  <2> QED BY <2>2, SentJob
<1>1. \A p, q \in Proc : p # q /\ proc'[p].at \in Owning /\ proc'[q].at \in Owning
                          => proc'[p].task # proc'[q].task
  BY DEF Distinct, SameTask
<1>2. \A c, d \in Client : c # d /\ client'[c].at = "job" /\ client'[d].at = "job"
                            => client'[c].id # client'[d].id
  BY DEF Distinct, Asks
<1>3. \A k, l \in DOMAIN jobs' : k # l => jobs'[k].task # jobs'[l].task
  BY <1>0 DEF Distinct
<1>4. \A p \in Proc, c \in Client : proc'[p].at \in Owning /\ client'[c].at = "job"
                                     => proc'[p].task # client'[c].id
  BY DEF Distinct, SameTask, Asks
<1>5. \A p \in Proc, k \in DOMAIN jobs' : proc'[p].at \in Owning => proc'[p].task # jobs'[k].task
  BY <1>0 DEF Distinct, SameTask
<1>6. \A c \in Client, k \in DOMAIN jobs' : client'[c].at = "job" => client'[c].id # jobs'[k].task
  BY <1>0 DEF Distinct, Asks
<1> QED BY <1>1, <1>2, <1>3, <1>4, <1>5, <1>6 DEF Distinct

LEMMA HeldSent ==
    ASSUME Inv, Held, [Next]_vars, NEW job \in Job, jobs' = Append(jobs, job), Waits(job),
           task' = task, item' = item,
           \A p \in Proc : Stays(p) /\ (proc'[p].at \in Owning => proc'[p].task # job.task),
           \A c \in Client : Asks(c) /\ (client'[c].at = "job" => client'[c].id # job.task),
           \A k \in DOMAIN jobs : jobs[k].task # job.task
    PROVE  Held'
<1>1. Distinct'
  BY SentDistinct, StaysSameTask DEF Held
<1>2. \A t \in Task : Calm(t)
  BY DEF Calm, Keeps, Holding
<1>3. WaitsThen(job)
  BY CrashesGrow DEF Waits, WaitsThen, BoundTo, BoundThen, Unstarted, UnstartedThen, Failed, FailedThen
<1>4. \A k \in DOMAIN jobs' : WaitsThen(jobs'[k]) \/ (k \in DOMAIN jobs /\ jobs'[k] = jobs[k])
  BY <1>3, SentJob, JobsTyped
<1>5. /\ \A p \in Proc : proc'[p].at \in Owning => proc'[p].task \in Task
      /\ \A c \in Client : client'[c].at = "job" => client'[c].id \in Task
      /\ \A k \in DOMAIN jobs : jobs[k].task \in Task
  BY JobsTyped DEF Stays, Asks, Inv, ProcKnown, ClientKnown, Job
<1>6. /\ \A p \in Proc : proc'[p].at \in Owning /\ Stays(p) => proc'[p].task # 0
      /\ \A c \in Client : client'[c].at = "job" /\ Asks(c) => client'[c].id # 0
      /\ \A k \in DOMAIN jobs : jobs[k].task # 0
  BY <1>5 DEF Task
<1>7. \A k \in DOMAIN jobs' : \/ WaitsThen(jobs'[k])
                               \/ /\ jobs'[k].task # 0
                                  /\ \E l \in DOMAIN jobs : jobs'[k] = jobs[l]
  BY <1>4, <1>6
<1>8. /\ \A t \in Task \ {0} : Calm(t)
      /\ \A p \in Proc : Stays(p) \/ OwnedThen(proc'[p])
      /\ \A c \in Client : Asks(c) \/ SubmittedThen(client'[c])
  BY <1>2
<1>9. HoldersThen
  BY <1>6, <1>7, <1>8, CalmHolders
<1> QED BY <1>1, <1>9, HeldFromParts

LEMMA HeldSendDispatched ==
    ASSUME Inv, Held, [Next]_vars, NEW p \in Proc, SendDispatched(p)
    PROVE  Held'
<1> DEFINE s == proc[p].task
<1>1. proc[p].at = "send" /\ Rest(p) /\ jobs' = Append(jobs, JobOf(p))
      /\ item' = item /\ task' = task /\ client' = client
  BY DEF SendDispatched, JobOf, dbVars
<1>2. /\ JobOf(p) \in Job /\ JobOf(p).task = s /\ JobOf(p).item = proc[p].item
      /\ proc \in [Proc -> ProcRow] /\ proc[p].at \in Owning
  BY <1>1, Typed, JobOfTyped DEF Inv, JobOf, Owning, Pending
<1>3. Waits(JobOf(p))
  BY <1>1, <1>2 DEF Held, Owned, Waits, ItemFor, Owning, Pending
<1>4. \A q \in Proc : Stays(q)
  BY <1>1, RestsHolding
<1>5. proc'[p].at \notin Owning
  BY <1>1, <1>2 DEF Rest, IdleProc, Owning, Pending, Working
<1>6. \A q \in Proc : proc'[q].at \in Owning => proc'[q].task # s
  BY <1>2, <1>4, <1>5 DEF Held, Distinct, Stays
<1>7. /\ \A c \in Client : Asks(c) /\ (client'[c].at = "job" => client'[c].id # s)
      /\ \A k \in DOMAIN jobs : jobs[k].task # s
  BY <1>1, <1>2 DEF Held, Distinct, Asks
<1> QED BY <1>1, <1>2, <1>3, <1>4, <1>6, <1>7, HeldSent

LEMMA HeldSendJob ==
    ASSUME Inv, Held, [Next]_vars, NEW c \in Client, SendJob(c)
    PROVE  Held'
<1> DEFINE s == client[c].id
<1>1. client[c].at = "job" /\ client' = [client EXCEPT ![c] = IdleClient]
      /\ jobs' = Append(jobs, JobFor(c)) /\ item' = item /\ task' = task /\ proc' = proc
  BY DEF SendJob, JobFor, dbVars
<1>2. /\ JobFor(c) \in Job /\ JobFor(c).task = s /\ JobFor(c).item = 0
      /\ client \in [Client -> ClientRow]
  BY <1>1, Typed, JobForTyped DEF Inv, JobFor
<1>3. Waits(JobFor(c))
  BY <1>1, <1>2 DEF Held, Submitted, Waits
<1>4. client'[c].at # "job" /\ \A d \in Client \ {c} : client'[d] = client[d]
  BY <1>1, <1>2 DEF IdleClient
<1>5. \A d \in Client : Asks(d) /\ (client'[d].at = "job" => client'[d].id # s)
  BY <1>1, <1>4 DEF Held, Distinct, Asks
<1>6. \A q \in Proc : Stays(q) /\ (proc'[q].at \in Owning => proc'[q].task # s)
  BY <1>1 DEF Held, Distinct, Stays
<1>7. \A k \in DOMAIN jobs : jobs[k].task # s
  BY <1>1 DEF Held, Distinct
<1> QED BY <1>1, <1>2, <1>3, <1>5, <1>6, <1>7, HeldSent

\* The worker takes the first job.
LEMMA TakenDistinct ==
    ASSUME Inv, Distinct, jobs # <<>>, jobs' = Tail(jobs),
           \A c \in Client : Asks(c),
           \A p \in Proc : \/ SameTask(p)
                           \/ p = "worker" /\ proc[p].at \notin Owning /\ proc'[p].task = jobs[1].task
    PROVE  Distinct'
<1>0. 1 \in DOMAIN jobs /\ \A k \in DOMAIN jobs' : /\ k + 1 \in DOMAIN jobs /\ k + 1 # 1
                                                   /\ jobs'[k] = jobs[k + 1]
  <2>1. Tail(jobs) \in Seq(Job)
    BY FirstJob
  <2>2. DOMAIN jobs' = 1 .. Len(jobs')
    BY <2>1, LenProperties
  <2> QED BY <2>2, FirstJob
<1>1. \A p, q \in Proc : p # q /\ proc'[p].at \in Owning /\ proc'[q].at \in Owning
                          => proc'[p].task # proc'[q].task
  BY <1>0 DEF Distinct, SameTask
<1>2. \A c, d \in Client : c # d /\ client'[c].at = "job" /\ client'[d].at = "job"
                            => client'[c].id # client'[d].id
  BY DEF Distinct, Asks
<1>3. \A k, l \in DOMAIN jobs' : k # l => jobs'[k].task # jobs'[l].task
  <2> SUFFICES ASSUME NEW k \in DOMAIN jobs', NEW l \in DOMAIN jobs', k # l
               PROVE  jobs'[k].task # jobs'[l].task
    OBVIOUS
  <2>1. k + 1 \in DOMAIN jobs /\ l + 1 \in DOMAIN jobs
        /\ jobs'[k] = jobs[k + 1] /\ jobs'[l] = jobs[l + 1]
    BY <1>0
  <2>2. k + 1 # l + 1
    <3>1. Tail(jobs) \in Seq(Job)
      BY FirstJob
    <3>2. DOMAIN jobs' = 1 .. Len(jobs') /\ Len(jobs') \in Nat
      BY <3>1, LenProperties
    <3> QED BY <3>2
  <2> QED BY <2>1, <2>2 DEF Distinct
<1>4. \A p \in Proc, c \in Client : proc'[p].at \in Owning /\ client'[c].at = "job"
                                     => proc'[p].task # client'[c].id
  BY <1>0 DEF Distinct, SameTask, Asks
<1>5. \A p \in Proc, k \in DOMAIN jobs' : proc'[p].at \in Owning => proc'[p].task # jobs'[k].task
  BY <1>0 DEF Distinct, SameTask
<1>6. \A c \in Client, k \in DOMAIN jobs' : client'[c].at = "job" => client'[c].id # jobs'[k].task
  BY <1>0 DEF Distinct, Asks
<1> QED BY <1>1, <1>2, <1>3, <1>4, <1>5, <1>6 DEF Distinct

LEMMA HeldTakeJob ==
    ASSUME Inv, Held, [Next]_vars, TakeJob
    PROVE  Held'
<1> DEFINE job == jobs[1]
           s == job.task
<1>1. /\ jobs # <<>> /\ jobs' = Tail(jobs) /\ item' = item /\ client' = client
      /\ proc["worker"].at = "idle"
  BY DEF TakeJob, W
<1>2. /\ job \in Job /\ Head(jobs) = job /\ 1 \in DOMAIN jobs
      /\ \A k \in DOMAIN jobs' : /\ k + 1 \in DOMAIN jobs /\ k + 1 # 1
                                  /\ jobs'[k] = jobs[k + 1]
  <2>1. Tail(jobs) \in Seq(Job)
    BY <1>1, FirstJob
  <2>2. DOMAIN jobs' = 1 .. Len(jobs')
    BY <1>1, <2>1, LenProperties
  <2> QED BY <1>1, <2>2, FirstJob
<1>3. s \in Task /\ Waits(job) /\ "worker" \in Proc /\ proc \in [Proc -> ProcRow]
  BY <1>2, Typed DEF Inv, Held, Job, Proc
<1>4. proc["worker"].at \notin Owning
  BY <1>1 DEF Owning, Pending, Working
<1>5. /\ \A c \in Client : Asks(c) /\ (client'[c].at = "job" => client'[c].id # s)
      /\ \A p \in Proc : proc[p].at \in Owning => proc[p].task # s
      /\ \A k \in DOMAIN jobs' : /\ jobs'[k].task # s
                                  /\ \E l \in DOMAIN jobs : jobs'[k] = jobs[l]
  BY <1>1, <1>2 DEF Held, Distinct, Asks
<1>6. CASE task' = task /\ proc' = proc
  <2>1. \A p \in Proc : Stays(p)
    BY <1>6, SameStays
  <2>2. Distinct'
    BY <1>1, <1>5, <2>1, TakenDistinct, StaysSameTask DEF Held
  <2>3. \A t \in Task : Calm(t)
    BY <1>1, <1>6 DEF Calm, Keeps, Holding
  <2>4. HoldersThen
    BY <1>5, <1>6, <2>1, <2>3, CalmHolders
  <2> QED BY <2>2, <2>4, HeldFromParts
<1>7. CASE /\ task[s].status = "queued" /\ TaskIs(s, "running")
           /\ proc' = [proc EXCEPT !["worker"] = [at |-> "run", app |-> job.app, item |-> job.item,
                                                 task |-> s, outcome |-> "none"]]
  <2>1. /\ proc'["worker"].at = "run" /\ proc'["worker"].task = s /\ proc'["worker"].item = job.item
        /\ \A p \in Proc \ {"worker"} : proc'[p] = proc[p]
    BY <1>3, <1>7
  <2>2. \A p \in Proc \ {"worker"} : Stays(p)
    BY <2>1 DEF Stays
  <2>3. Distinct'
    BY <1>1, <1>4, <1>5, <2>1, <2>2, TakenDistinct, StaysSameTask DEF Held
  <2>4. (\A t \in Task \ {s} : Calm(t)) /\ task'[s].status = "running"
    BY <1>1, <1>3, <1>7, OtherTasksKeep, SameRows DEF Calm
  <2>5. BoundThen(job.item, s)
    BY <1>1, <1>3 DEF Waits, BoundTo, BoundThen
  <2>6. OwnedThen(proc'["worker"])
    BY <2>1, <2>4, <2>5 DEF OwnedThen, StartedThen, ItemFor, Pending
  <2>7. \A p \in Proc : Stays(p) \/ OwnedThen(proc'[p])
    BY <2>2, <2>6
  <2>8. \A p \in Proc : proc'[p].at \in Owning /\ Stays(p) => proc'[p].task # s
    BY <1>4, <1>5 DEF Stays
  <2>9. HoldersThen
    BY <1>5, <2>4, <2>7, <2>8, CalmHolders
  <2> QED BY <2>3, <2>9, HeldFromParts
<1>8. \/ task' = task /\ proc' = proc
      \/ /\ task[s].status = "queued" /\ TaskIs(s, "running")
         /\ proc' = [proc EXCEPT !["worker"] = [at |-> "run", app |-> job.app, item |-> job.item,
                                               task |-> s, outcome |-> "none"]]
  BY <1>2 DEF TakeJob, TaskIs
<1> QED BY <1>6, <1>7, <1>8

\* A task that is made is nobody's yet.
LEMMA FreshTask ==
    ASSUME Inv, Held, NEW s \in NewTask
    PROVE  /\ s \in Task
           /\ \A p \in Proc : proc[p].at \in Owning => proc[p].task # s
           /\ \A c \in Client : client[c].at = "job" => client[c].id # s
           /\ \A k \in DOMAIN jobs : jobs[k].task # s
           /\ BoundTo(0, s)
<1>1. s \in Task /\ task[s].status = "none"
  BY DEF NewTask
<1>2. \A p \in Proc : proc[p].at \in Owning => proc[p].task # s
  BY <1>1 DEF Inv, ProcKnown
<1>3. \A c \in Client : client[c].at = "job" => client[c].id # s
  BY <1>1 DEF Inv, ClientKnown
<1>4. \A k \in DOMAIN jobs : jobs[k].task # s
  BY <1>1 DEF Held, Waits, Unstarted, Failed
<1>5. \A i \in Item : item[i].task # s
  BY <1>1 DEF Inv, ItemKnown, Task
<1>6. BoundTo(0, s)
  BY <1>5 DEF BoundTo, Item
<1> QED BY <1>1, <1>2, <1>3, <1>4, <1>6

LEMMA OtherTasksStay ==
    ASSUME Inv, NEW s \in Task, NEW app, TaskMade(s, app), item' = item
    PROVE  /\ task'[s].status = "queued" /\ \A t \in Task \ {s} : Calm(t)
           /\ BoundTo(0, s) => BoundThen(0, s)
<1>1. task \in [Task -> TaskRow]
  BY Typed DEF Inv
<1>2. task'[s].status = "queued" /\ \A t \in Task \ {s} : task'[t] = task[t]
  BY <1>1 DEF TaskMade
<1> QED BY <1>2 DEF Calm, Keeps, Holding, BoundTo, BoundThen

LEMMA HeldSubmit ==
    ASSUME Inv, Held, [Next]_vars, NEW c \in Client, NEW app \in App, SubmitCompose(c, app)
    PROVE  Held'
<1>1. PICK s \in NewTask : TaskMade(s, app) /\ Continue(c, "job", "none", s)
  BY DEF SubmitCompose, TaskMade
<1>2. item' = item /\ jobs' = jobs /\ proc' = proc /\ client[c].at = "idle"
      /\ client \in [Client -> ClientRow]
  BY Typed DEF SubmitCompose, Request, Inv
<1>3. client'[c].at = "job" /\ client'[c].id = s /\ \A d \in Client \ {c} : client'[d] = client[d]
  BY <1>1, <1>2 DEF Continue
<1>4. /\ s \in Task /\ task'[s].status = "queued" /\ BoundThen(0, s)
      /\ \A t \in Task \ {s} : Calm(t)
  BY <1>1, <1>2, FreshTask, OtherTasksStay
<1>5. SubmittedThen(client'[c])
  BY <1>3, <1>4 DEF SubmittedThen, UnstartedThen
<1>6. (\A p \in Proc : Stays(p)) /\ (\A d \in Client \ {c} : Asks(d))
  BY <1>2, <1>3, SameStays DEF Asks
<1>7. HoldersThen
  <2>1. \A p \in Proc : proc'[p].at \in Owning => proc'[p].task # s
    BY <1>2, FreshTask
  <2>2. \A d \in Client : client'[d].at = "job" /\ Asks(d) => client'[d].id # s
    BY <1>2, FreshTask DEF Asks
  <2>3. \A k \in DOMAIN jobs' : jobs'[k].task # s /\ \E l \in DOMAIN jobs : jobs'[k] = jobs[l]
    BY <1>2, FreshTask
  <2> QED BY <1>4, <1>5, <1>6, <2>1, <2>2, <2>3, CalmHolders
<1>8. Distinct'
  <2>1. \A d, e \in Client : d # e /\ client'[d].at = "job" /\ client'[e].at = "job"
                            => client'[d].id # client'[e].id
    BY <1>3, FreshTask DEF Held, Distinct
  <2>2. \A p \in Proc, d \in Client : proc'[p].at \in Owning /\ client'[d].at = "job"
                                      => proc'[p].task # client'[d].id
    BY <1>2, <1>3, FreshTask DEF Held, Distinct
  <2>3. \A d \in Client, k \in DOMAIN jobs' : client'[d].at = "job" => client'[d].id # jobs'[k].task
    BY <1>2, <1>3, FreshTask DEF Held, Distinct
  <2> QED BY <1>2, <2>1, <2>2, <2>3 DEF Held, Distinct
<1> QED BY <1>7, <1>8, HeldFromParts

LEMMA HeldCreateTask ==
    ASSUME Inv, Held, [Next]_vars, NEW p \in Proc, CreateTask(p)
    PROVE  Held'
<1>1. item' = item /\ jobs' = jobs /\ client' = client /\ proc[p].at = "create"
      /\ proc \in [Proc -> ProcRow] /\ proc[p].at \notin Owning
  BY Typed DEF CreateTask, Inv, Owning, Pending, Working
<1>2. \A c \in Client : Asks(c)
  BY <1>1 DEF Asks
<1>3. CASE Rest(p) /\ task' = task
  <2>1. \A q \in Proc : Stays(q)
    BY <1>3, RestsHolding
  <2>2. \A t \in Task : Keeps(t) /\ Holding(t)
    BY <1>1, <1>3 DEF Keeps, Holding
  <2> QED BY <1>1, <1>2, <2>1, <2>2, HeldDropped
<1>4. ASSUME NEW s \in NewTask, TaskMade(s, proc[p].app),
             proc' = [proc EXCEPT ![p] = [@ EXCEPT !.at = "mark", !.task = s]]
      PROVE  Held'
  <2>1. proc'[p].at = "mark" /\ proc'[p].task = s /\ \A q \in Proc \ {p} : proc'[q] = proc[q]
    BY <1>1, <1>4 DEF ProcRow
  <2>2. /\ s \in Task /\ task'[s].status = "queued" /\ BoundThen(0, s)
        /\ \A t \in Task \ {s} : Calm(t)
    BY <1>1, <1>4, FreshTask, OtherTasksStay
  <2>3. OwnedThen(proc'[p])
    BY <2>1, <2>2 DEF OwnedThen, UnstartedThen, ItemFor, Working
  <2>4. \A q \in Proc \ {p} : Stays(q)
    BY <2>1 DEF Stays
  <2>5. HoldersThen
    <3>1. \A q \in Proc : proc'[q].at \in Owning /\ Stays(q) => proc'[q].task # s
      BY <1>1, <2>1, FreshTask DEF Stays
    <3>2. \A c \in Client : client'[c].at = "job" => client'[c].id # s
      BY <1>1, FreshTask
    <3>3. \A k \in DOMAIN jobs' : jobs'[k].task # s /\ \E l \in DOMAIN jobs : jobs'[k] = jobs[l]
      BY <1>1, FreshTask
    <3>4. \A q \in Proc : Stays(q) \/ OwnedThen(proc'[q])
      BY <2>3, <2>4
    <3> QED BY <1>2, <2>2, <3>1, <3>2, <3>3, <3>4, CalmHolders
  <2>6. Distinct'
    <3>1. \A q, r \in Proc : q # r /\ proc'[q].at \in Owning /\ proc'[r].at \in Owning
                            => proc'[q].task # proc'[r].task
      BY <2>1, FreshTask DEF Held, Distinct
    <3>2. \A q \in Proc, c \in Client : proc'[q].at \in Owning /\ client'[c].at = "job"
                                        => proc'[q].task # client'[c].id
      BY <1>1, <2>1, FreshTask DEF Held, Distinct
    <3>3. \A q \in Proc, k \in DOMAIN jobs' : proc'[q].at \in Owning => proc'[q].task # jobs'[k].task
      BY <1>1, <2>1, FreshTask DEF Held, Distinct
    <3> QED BY <1>1, <3>1, <3>2, <3>3 DEF Held, Distinct
  <2> QED BY <2>5, <2>6, HeldFromParts
<1> QED BY <1>3, <1>4 DEF CreateTask, TaskMade

LEMMA HeldFinishTask ==
    ASSUME Inv, Held, [Next]_vars, FinishTask
    PROVE  Held'
<1> DEFINE p == "worker"
           s == proc[p].task
<1>1. /\ proc[p].at = "task" /\ TaskIs(s, proc[p].outcome)
      /\ item' = item /\ client' = client /\ jobs' = jobs /\ p \in Proc
  BY DEF FinishTask, TaskIs, W, Proc
<1>2. s \in Task /\ proc \in [Proc -> ProcRow] /\ proc[p].at \in Owning
  BY <1>1, Typed DEF Inv, ProcKnown, Owning, Working
<1>3. /\ \A t \in Task \ {s} : Calm(t)
      /\ task'[s].status = proc[p].outcome
  BY <1>1, <1>2, OtherTasksKeep, SameRows DEF Calm
<1>4. PICK at \in {"item", "check", "rest"} : Goto(p, at)
  BY DEF FinishTask
<1>5. /\ proc'[p].at = at /\ proc'[p].task = s /\ proc'[p].item = proc[p].item
      /\ proc'[p].outcome = proc[p].outcome /\ \A q \in Proc \ {p} : proc'[q] = proc[q]
  BY <1>1, <1>2, <1>4 DEF Goto, ProcRow
<1>6. BoundThen(proc[p].item, s)
  BY <1>1, <1>2 DEF Held, Owned, ItemFor, BoundTo, BoundThen
<1>7. OwnedThen(proc'[p])
  BY <1>3, <1>5, <1>6 DEF OwnedThen, ItemFor, Pending, Working, Owning
<1>8. \A q \in Proc \ {p} : Stays(q) /\ (proc'[q].at \in Owning => proc'[q].task # s)
  BY <1>1, <1>2, <1>5 DEF Stays, Held, Distinct
<1>9. \A q \in Proc : SameTask(q)
  BY <1>2, <1>5 DEF SameTask
<1>10. /\ \A c \in Client : Asks(c) /\ (client'[c].at = "job" => client'[c].id # s)
       /\ \A k \in DOMAIN jobs' : jobs'[k].task # s /\ \E l \in DOMAIN jobs : jobs'[k] = jobs[l]
  BY <1>1, <1>2 DEF Held, Distinct, Asks
<1>11. Distinct'
  BY <1>1, <1>9, <1>10, SameDistinct DEF Held
<1>12. \A q \in Proc : proc'[q].at \in Owning /\ Stays(q) => proc'[q].task # s
  BY <1>1, <1>5, <1>8 DEF Stays, Owning, Pending, Working
<1>13. HoldersThen
  BY <1>3, <1>7, <1>8, <1>10, <1>12, CalmHolders
<1> QED BY <1>11, <1>13, HeldFromParts

LEMMA HeldMark ==
    ASSUME Inv, Held, [Next]_vars, NEW p \in Proc, MarkRunning(p)
    PROVE  Held'
<1> DEFINE s == proc[p].task
           i == proc[p].item
<1>1. task' = task /\ jobs' = jobs /\ client' = client /\ proc[p].at = "mark"
      /\ proc \in [Proc -> ProcRow] /\ proc[p].at \in Owning
  BY Typed DEF MarkRunning, Inv, Owning, Pending
<1>2. \A c \in Client : Asks(c)
  BY <1>1 DEF Asks
<1>3. CASE item' = item /\ Goto(p, "undo")
  <2>1. \A q \in Proc : Stays(q)
    BY <1>1, <1>3, GoesOnHolding DEF Steps, Owning, Pending, Working
  <2>2. \A t \in Task : Keeps(t) /\ Holding(t)
    BY <1>1, <1>3 DEF Keeps, Holding
  <2> QED BY <1>1, <1>2, <2>1, <2>2, HeldDropped
<1>4. CASE /\ item[i].status = "queued" /\ Goto(p, "deploying")
           /\ item' = [item EXCEPT ![i] = [@ EXCEPT !.status = "running", !.task = s]]
  <2>1. /\ s \in Task /\ i \in Item /\ item \in [Item -> ItemRow] /\ item[i].task = 0
    <3>1. ProcKnown(p, proc[p]) /\ proc[p] \in ProcRow /\ item \in [Item -> ItemRow]
      BY Typed DEF Inv
    <3>2. s \in Task /\ i \in Item
      BY <1>1, <3>1 DEF ProcKnown, ProcRow, HasItem
    <3> QED BY <1>4, <3>1, <3>2 DEF Inv, ItemKnown
  <2>2. item'[i].task = s /\ \A j \in Item \ {i} : item'[j] = item[j]
    BY <1>4, <2>1 DEF ItemRow
  <2>3. /\ proc'[p].at = "deploying" /\ proc'[p].task = s /\ proc'[p].item = i
        /\ \A q \in Proc \ {p} : proc'[q] = proc[q]
    BY <1>1, <1>4 DEF Goto, ProcRow
  <2>4. \A t \in Task \ {s} : Calm(t)
    BY <1>1, <2>1, <2>2 DEF Calm, Keeps, Holding, Task
  <2>5. BoundTo(0, s) /\ Unstarted(s)
    BY <1>1 DEF Held, Owned, ItemFor, Pending
  <2>6. BoundThen(i, s)
    BY <2>2, <2>5 DEF BoundTo, BoundThen, Item
  <2>7. UnstartedThen(s)
    BY <1>1, <2>5, CrashesGrow DEF Unstarted, UnstartedThen, Failed, FailedThen
  <2>8. OwnedThen(proc'[p])
    BY <2>3, <2>6, <2>7 DEF OwnedThen, ItemFor, Working
  <2>9. \A q \in Proc \ {p} : Stays(q) /\ (proc'[q].at \in Owning => proc'[q].task # s)
    BY <1>1, <2>3 DEF Stays, Held, Distinct
  <2>10. \A q \in Proc : SameTask(q)
    BY <1>1, <2>3 DEF SameTask
  <2>11. Distinct'
    BY <1>1, <1>2, <2>10, SameDistinct DEF Held
  <2>12. /\ \A c \in Client : client'[c].at = "job" => client'[c].id # s
         /\ \A k \in DOMAIN jobs' : jobs'[k].task # s /\ \E l \in DOMAIN jobs : jobs'[k] = jobs[l]
    BY <1>1 DEF Held, Distinct
  <2>13. \A q \in Proc : proc'[q].at \in Owning /\ Stays(q) => proc'[q].task # s
    <3>1. ~Stays(p)
      BY <1>1, <2>1, <2>3 DEF Stays, ItemFor, Owning, Pending, Item
    <3> QED BY <2>9, <3>1
  <2>14. HoldersThen
    BY <1>2, <2>4, <2>8, <2>9, <2>12, <2>13, CalmHolders
  <2> QED BY <2>11, <2>14, HeldFromParts
<1> QED BY <1>3, <1>4 DEF MarkRunning, Markable

LEMMA HeldStep ==
    ASSUME Inv, Held, [Next]_vars
    PROVE  Held'
BY HeldQuiet, HeldUndo, HeldFailTask, HeldSendDispatched, HeldSendJob, HeldTakeJob, HeldSubmit,
   HeldCreateTask, HeldFinishTask, HeldMark

LEMMA HeldAlways == Spec => []Held
<1>1. Init => Held
  <2> SUFFICES ASSUME Init PROVE Held
    OBVIOUS
  <2>1. DOMAIN jobs = {}
    BY DEF Init
  <2> QED BY <2>1 DEF Init, Held, Owned, Submitted, Distinct, IdleProc, IdleClient, Owning, Pending, Working
<1>2. Inv /\ Held /\ [Next]_vars => Held'
  BY HeldStep
<1> QED BY <1>1, <1>2, Invariance, PTL DEF Spec

\* What the compose worker is doing to the targets is on record as running;
\* recover_interrupted_work alone calls it failed, after a restart.
THEOREM WorkRecorded == Spec => []WorkIsOnRecord
<1>1. Held => WorkIsOnRecord
  BY DEF Held, Owned, WorkIsOnRecord, Started, Failed, W, Proc, Owning, Working
<1> QED BY <1>1, HeldAlways, PTL
-----------------------------------------------------------------------------
(* One deployment of an application at a time. *)

\* what the trigger on operation_tasks keeps
OneActive ==
    \A s, t \in Task : s # t /\ task[s].status \in Active /\ task[t].status \in Active
                      => task[s].app # task[t].app

\* a task is made for the application of its item, and for one item
Matched ==
    /\ \A p \in Proc : proc[p].at = "mark" => task[proc[p].task].app = proc[p].app
    /\ \A i \in Item : item[i].task # 0 => task[item[i].task].app = AppOfItem(i)
    /\ \A i, j \in Item : i # j /\ item[i].task = item[j].task => item[i].task = 0

LEMMA AppStays ==
    ASSUME Inv, [Next]_vars, NEW t \in Task, task[t].status # "none"
    PROVE  task'[t].app = task[t].app
BY TaskMoves DEF TasksStep, TaskStep, Made, NewTask, Moved

\* a task that is still to be carried out was so before, or is the first
NewlyActive(t) ==
    /\ t \in NewTask /\ ~TaskActive(task'[t].app)
    /\ \A s \in Task \ {t} : task'[s] = task[s]

LEMMA ActiveBefore ==
    ASSUME Inv, Held, [Next]_vars, NEW t \in Task, task'[t].status \in Active
    PROVE  \/ task[t].status \in Active
           \/ NewlyActive(t)
<1>1. CASE Keeps(t)
  BY <1>1 DEF Keeps, FailedThen, Active
<1>2. ASSUME NEW s \in Task, NEW st, TaskIs(s, st),
             st \notin Active \/ task[s].status \in Active
      PROVE  task[t].status \in Active
  BY <1>1, <1>2, OtherTasksKeep DEF Keeps, FailedThen, Active
<1>3. ASSUME NEW p \in Proc, UndoTask(p)
      PROVE  task[t].status \in Active
  <2>1. proc[p].task \in Task /\ TaskIs(proc[p].task, "failed")
    BY <1>3 DEF UndoTask, TaskIs, Inv, ProcKnown, Owning, Pending
  <2> QED BY <1>2, <2>1 DEF Active
<1>4. CASE FailTask \/ FinishTask
  <2>1. W.task \in Task /\ (FinishTask => W.outcome \in {"success", "failed"})
    BY <1>4 DEF FailTask, FinishTask, Inv, ProcKnown, Owning, Working, W, Proc
  <2>2. TaskIs(W.task, "failed") \/ (TaskIs(W.task, W.outcome) /\ FinishTask)
    BY <1>4 DEF FailTask, FinishTask, TaskIs
  <2> QED BY <1>2, <2>1, <2>2 DEF Active
<1>5. CASE TakeJob
  <2> DEFINE s == Head(jobs).task
  <2>1. s \in Task
    BY <1>5, FirstJob DEF TakeJob, Job
  <2>2. task' = task \/ (task[s].status = "queued" /\ TaskIs(s, "running"))
    BY <1>5 DEF TakeJob, TaskIs
  <2> HIDE DEF s
  <2> QED BY <1>1, <1>2, <2>1, <2>2 DEF Keeps, Active
<1>6. ASSUME NEW s \in NewTask, NEW app \in App, TaskMade(s, app), ~TaskActive(app)
      PROVE  task[t].status \in Active \/ NewlyActive(t)
  <2>1. s \in Task /\ task \in [Task -> TaskRow]
    BY Typed DEF Inv, NewTask
  <2>2. task'[s].app = app /\ \A u \in Task \ {s} : task'[u] = task[u]
    BY <1>6, <2>1 DEF TaskMade
  <2>3. CASE t = s
    BY <1>6, <2>2, <2>3 DEF NewlyActive
  <2>4. CASE t # s
    BY <2>2, <2>4
  <2> QED BY <2>3, <2>4
<1>7. ASSUME NEW p \in Proc, CreateTask(p)
      PROVE  task[t].status \in Active \/ NewlyActive(t)
  <2>1. proc[p].app \in App
    BY <1>7 DEF CreateTask, Inv, ProcKnown
  <2>2. task' = task \/ (~TaskActive(proc[p].app) /\ \E s \in NewTask : TaskMade(s, proc[p].app))
    BY <1>7 DEF CreateTask, TaskMade
  <2> QED BY <1>6, <2>1, <2>2
<1>8. ASSUME NEW c \in Client, NEW app \in App, SubmitCompose(c, app)
      PROVE  task[t].status \in Active \/ NewlyActive(t)
  BY <1>6, <1>8 DEF SubmitCompose, TaskMade
<1> QED BY <1>1, <1>3, <1>4, <1>5, <1>7, <1>8, TasksKeep

LEMMA OneActiveStep ==
    ASSUME Inv, Held, OneActive, [Next]_vars
    PROVE  OneActive'
<1> SUFFICES ASSUME NEW s \in Task, NEW t \in Task, s # t,
                    task'[s].status \in Active, task'[t].status \in Active
             PROVE  task'[s].app # task'[t].app
  BY DEF OneActive
<1>1. CASE task[s].status \in Active /\ task[t].status \in Active
  BY <1>1, AppStays DEF OneActive, Active
<1>2. CASE NewlyActive(s)
  BY <1>2 DEF NewlyActive, TaskActive
<1>3. CASE NewlyActive(t)
  BY <1>3 DEF NewlyActive, TaskActive
<1> QED BY <1>1, <1>2, <1>3, ActiveBefore

LEMMA MatchedStep ==
    ASSUME Inv, Held, Ordered, Matched, [Next]_vars
    PROVE  Matched'
<1>0. ItemsStep
  BY ItemMoves
<1>1. ASSUME NEW p \in Proc, proc'[p].at = "mark"
      PROVE  task'[proc'[p].task].app = proc'[p].app
  <2>0. proc \in [Proc -> ProcRow] /\ task \in [Task -> TaskRow]
    BY Typed DEF Inv
  <2>1. CASE SelectItem(p)
    <3>1. ~Rest(p)
      BY <1>1, <2>0 DEF Rest, IdleProc
    <3>2. PICK i : proc' = [proc EXCEPT ![p] = [@ EXCEPT !.at = "create", !.item = i]]
      BY <2>1, <3>1 DEF SelectItem
    <3>3. proc[p] \in ProcRow /\ proc'[p] = [proc[p] EXCEPT !.at = "create", !.item = i]
      BY <2>0, <3>2
    <3>4. proc'[p].at = "create"
      BY <3>3 DEF ProcRow
    <3> QED BY <1>1, <3>4
  <2>2. CASE CreateTask(p) /\ proc'[p].app = proc[p].app
    <3>1. ~Rest(p)
      BY <1>1, <2>0 DEF Rest, IdleProc
    <3>2. PICK t \in NewTask :
             /\ TaskMade(t, proc[p].app)
             /\ proc' = [proc EXCEPT ![p] = [@ EXCEPT !.at = "mark", !.task = t]]
      BY <2>2, <3>1 DEF CreateTask, TaskMade
    <3>3. proc'[p].task = t /\ t \in Task
      BY <2>0, <3>2 DEF ProcRow, NewTask
    <3>4. task'[t].app = proc[p].app
      BY <2>0, <3>2, <3>3 DEF TaskMade
    <3> QED BY <2>2, <3>3, <3>4
  <2>3. CASE proc'[p] = proc[p]
    <3>1. proc[p].task \in Task /\ task[proc[p].task].status # "none"
      BY <1>1, <2>3 DEF Inv, ProcKnown, Owning, Pending
    <3> QED BY <1>1, <2>3, <3>1, AppStays DEF Matched
  <2> QED BY <1>1, <2>1, <2>2, <2>3, ChoiceMoves
<1>2. ASSUME NEW i \in Item, ~Bind(i), item'[i].task # 0
      PROVE  /\ item'[i].task = item[i].task
             /\ task'[item'[i].task].app = AppOf[item'[i].rel]
  <2>1. item'[i].task = item[i].task /\ item'[i].rel = item[i].rel
    BY <1>0, <1>2 DEF ItemsStep, RowStep, Enqueued, Due, Closed, Kept
  <2>2. item[i].task \in Task /\ task[item[i].task].status # "none"
    BY <1>2, <2>1, Typed DEF Inv, ItemKnown, ItemRow
  <2> QED BY <1>2, <2>1, <2>2, AppStays DEF Matched, AppOfItem
<1>3. ASSUME NEW i \in Item, Bind(i)
      PROVE  /\ task'[item'[i].task].app = AppOf[item'[i].rel]
             /\ \A j \in Item \ {i} : item'[j] = item[j] /\ item[j].task # item'[i].task
  <2>1. PICK p \in Proc : /\ MarkRunning(p) /\ proc[p].at = "mark" /\ proc[p].item = i
                          /\ item'[i].task = proc[p].task
    BY <1>3 DEF Bind
  <2>2. task' = task /\ item'[i].rel = item[i].rel
    BY <1>3, <2>1 DEF MarkRunning, Bind
  <2>3. task[proc[p].task].app = AppOfItem(i)
    BY <2>1 DEF Matched, Ordered, Chosen
  <2>4. BoundTo(0, proc[p].task)
    BY <2>1 DEF Held, Owned, ItemFor, Owning, Pending
  <2>5. \A j \in Item : item[j].task # proc[p].task
    BY <2>4 DEF BoundTo, Item
  <2>6. \A j \in Item \ {i} : item'[j] = item[j]
    BY <2>1, Typed DEF MarkRunning, Inv
  <2> QED BY <2>1, <2>2, <2>3, <2>5, <2>6 DEF AppOfItem
<1>4. \A i \in Item : item'[i].task # 0 => task'[item'[i].task].app = AppOf[item'[i].rel]
  BY <1>2, <1>3
<1>5. ASSUME NEW i \in Item, NEW j \in Item, i # j, item'[i].task = item'[j].task
      PROVE  item'[i].task = 0
  <2>1. CASE Bind(i)
    BY <1>3, <1>5, <2>1
  <2>2. CASE Bind(j)
    BY <1>3, <1>5, <2>2
  <2>3. CASE ~Bind(i) /\ ~Bind(j)
    BY <1>2, <1>5, <2>3 DEF Matched
  <2> QED BY <2>1, <2>2, <2>3
<1> QED BY <1>1, <1>4, <1>5 DEF Matched, AppOfItem

\* Whatever the queue has on record as running, at most one deployment of an
\* application is still to be carried out: the trigger that guards create_task is
\* enough, although mark_release_queue_running looks at its own row only.
THEOREM OneDeployment == Spec => []OneDeploymentAtATime
<1>1. Init => OneActive /\ Matched
  BY DEF Init, OneActive, Matched, IdleProc, Active
<1>2. Inv /\ Held /\ Ordered /\ OneActive /\ Matched /\ [Next]_vars => (OneActive /\ Matched)'
  BY OneActiveStep, MatchedStep
<1>3. Spec => [](Inv /\ OneActive /\ Matched)
  BY <1>1, <1>2, Invariance, HeldAlways, OrderedAlways, PTL DEF Spec
<1>4. Inv /\ OneActive /\ Matched => OneDeploymentAtATime
  <2> SUFFICES ASSUME Inv, OneActive, Matched, NEW i \in Item, NEW j \in Item, i # j,
                      item[i].status = "running", item[j].status = "running",
                      AppOfItem(i) = AppOfItem(j)
               PROVE  \/ task[item[i].task].status \notin Active
                      \/ task[item[j].task].status \notin Active
    BY DEF OneDeploymentAtATime
  <2>1. item[i].task \in Task /\ item[j].task \in Task /\ item[i].task # 0 /\ item[j].task # 0
    BY Typed DEF Inv, ItemKnown, ItemRow
  <2> QED BY <2>1 DEF OneActive, Matched
<1> QED BY <1>3, <1>4, PTL
-----------------------------------------------------------------------------
(* Success, and the items that run. *)

\* as SuccessIsBacked; the item has a task
Backed ==
    \A i \in Item : item[i].status = "success" =>
        item[i].task \in Task /\ task[item[i].task].status = "success"

LEMMA SuccessStays ==
    ASSUME Inv, Held, [Next]_vars, NEW t \in Task, task[t].status = "success"
    PROVE  task'[t].status = "success"
<1>1. CASE Keeps(t)
  BY <1>1 DEF Keeps
<1>2. ASSUME NEW p \in Proc, UndoTask(p)
      PROVE  Keeps(t)
  <2>1. proc[p].at = "undo" /\ TaskIs(proc[p].task, "failed")
    BY <1>2 DEF UndoTask, TaskIs
  <2>2. proc[p].task \in Task /\ Unstarted(proc[p].task)
    BY <2>1 DEF Inv, ProcKnown, Held, Owned, Owning, Pending
  <2> QED BY <2>1, <2>2, OtherTasksKeep DEF Unstarted, Failed
<1>3. CASE FailTask \/ FinishTask
  <2>1. (W.at = "fail task" \/ W.at = "task") /\ \E st : TaskIs(W.task, st)
    BY <1>3 DEF FailTask, FinishTask, TaskIs
  <2>2. W.task \in Task /\ Started(W.task)
    BY <2>1 DEF Inv, ProcKnown, Held, Owned, Owning, Working, W, Proc
  <2> QED BY <1>1, <2>1, <2>2, OtherTasksKeep DEF Started, Failed
<1>4. CASE TakeJob
  <2> DEFINE s == Head(jobs).task
  <2>1. s \in Task
    BY <1>4, FirstJob DEF TakeJob, Job
  <2>2. task' = task \/ (task[s].status = "queued" /\ TaskIs(s, "running"))
    BY <1>4 DEF TakeJob, TaskIs
  <2> HIDE DEF s
  <2> QED BY <1>1, <2>1, <2>2, OtherTasksKeep
<1>5. ASSUME NEW s \in NewTask, NEW app, TaskMade(s, app)
      PROVE  task'[t].status = "success"
  <2>1. task \in [Task -> TaskRow] /\ s # t
    BY Typed DEF Inv, NewTask
  <2> QED BY <1>5, <2>1 DEF TaskMade
<1>6. ASSUME NEW p \in Proc, CreateTask(p)
      PROVE  task'[t].status = "success"
  BY <1>5, <1>6 DEF CreateTask, TaskMade
<1>7. ASSUME NEW c \in Client, NEW app \in App, SubmitCompose(c, app)
      PROVE  task'[t].status = "success"
  BY <1>5, <1>7 DEF SubmitCompose, TaskMade
<1> QED BY <1>1, <1>2, <1>3, <1>4, <1>6, <1>7, TasksKeep

LEMMA BackedStep ==
    ASSUME Inv, Held, Backed, [Next]_vars
    PROVE  Backed'
<1> SUFFICES ASSUME NEW i \in Item, item'[i].status = "success"
             PROVE  item'[i].task \in Task /\ task'[item'[i].task].status = "success"
  BY DEF Backed
<1>1. RowStep(i)
  BY ItemMoves DEF ItemsStep
<1>2. CASE item'[i] = item[i]
  BY <1>2, SuccessStays DEF Backed
<1>3. CASE Closed(i)
  <2>1. FinishItem /\ i = W.item /\ item'[i].task = item[i].task
    BY <1>3 DEF Closed, Kept
  <2>2. W.at = "item" /\ task' = task /\ item' = [item EXCEPT ![i].status = W.outcome]
    BY <2>1 DEF FinishItem
  <2>3. item \in [Item -> ItemRow]
    BY Typed DEF Inv
  <2>4. W.outcome = "success"
    BY <2>2, <2>3 DEF ItemRow
  <2>5. /\ BoundTo(W.item, W.task) /\ task[W.task].status = W.outcome /\ W.task \in Task
    BY <2>2 DEF Held, Owned, ItemFor, Owning, W, Proc, Inv, ProcKnown
  <2>6. item[i].task = W.task
    BY <2>1, <2>5 DEF BoundTo
  <2> QED BY <2>1, <2>2, <2>4, <2>5, <2>6
<1> QED BY <1>1, <1>2, <1>3 DEF RowStep, Enqueued, Due, Bind

\* A queue item is called successful only if its task is: finish_task comes first,
\* and no cancellation, dispatch or recovery turns a successful task into another.
THEOREM SuccessBacked == Spec => []SuccessIsBacked
<1>1. Init => Backed
  BY DEF Init, Backed
<1>2. Inv /\ Held /\ Backed /\ [Next]_vars => Backed'
  BY BackedStep
<1>3. Spec => []Backed
  BY <1>1, <1>2, Invariance, HeldAlways, PTL DEF Spec
<1>4. Backed => SuccessIsBacked
  BY DEF Backed, SuccessIsBacked
<1> QED BY <1>3, <1>4, PTL

\* who carries a running item, named
Carrying == {"deploying", "send", "run", "task", "item", "preflight"}
InJobs(t) == \E k \in DOMAIN jobs : jobs[k].task = t
AtWork(t) == \E p \in Proc : proc[p].at \in Carrying /\ proc[p].task = t
Lost(t) == task[t].status = "canceled" \/ Failed(t)
Starting == up \in {"down", "recover"}
CarriedOn ==
    \A i \in Item : item[i].status = "running" =>
        InJobs(item[i].task) \/ AtWork(item[i].task) \/ Lost(item[i].task) \/ Starting

LEMMA StartingStays ==
    ASSUME Inv, [Next]_vars, Starting
    PROVE  Starting' \/ Recover
<1>1. CASE Crash
  BY <1>1 DEF Crash, Starting
<1>2. CASE Recovery
  BY <1>2 DEF Recovery, Start, Announce, Serve, Tell, Starting
<1>3. ASSUME NEW c \in Client,
             \/ \E rel \in Release : \/ Receive(c, rel) \/ PublishRead(c, rel)
                                     \/ ScheduleRead(c, rel) \/ CancelScheduled(c, rel)
             \/ \E i \in Item : CancelItemRead(c, i)
             \/ \E t \in Task : CancelTask(c, t)
             \/ \E app \in App : SubmitCompose(c, app)
             \/ Handler(c)
      PROVE  up' = up
  BY <1>3
  DEF Receive, PublishRead, ScheduleRead, CancelScheduled, CancelItemRead, CancelTask, SubmitCompose,
      Handler, PublishCommit, ScheduleCommit, Notify, CancelItemCommit, CancelTaskCommit, SendJob
<1>4. CASE Timer \/ (\E due \in SUBSET Scheduled : TimerReads(due)) \/ TakeDispatch
           \/ UNCHANGED vars
  BY <1>4 DEF Timer, TimerQueues, TimerReads, TimerNotifies, TakeDispatch, vars, Starting
<1>5. CASE Worker \/ \E p \in Proc : Dispatch(p)
  <2>1. up' = up
    BY <1>5
    DEF Worker, TakeJob, FinishTask, FinishItem, FinishRelease, FailPreflight, FailRelease, FailTask,
        NextJob, Deploy, Dispatch, CheckRunning, SelectItem, CreateTask, MarkRunning, UndoTask,
        MarkDeploying, SendDispatched
  <2> QED BY <2>1 DEF Starting
<1> QED BY <1>1, <1>2, <1>3, <1>4, <1>5 DEF Next, Starting

\* the worker that has the task of a running item goes on with it, hands it over, or
\* closes the item
LEMMA CarrierMoves ==
    ASSUME Inv, [Next]_vars, NEW p \in Proc, proc[p].at \in Carrying
    PROVE  \/ proc'[p].at \in Carrying /\ proc'[p].task = proc[p].task
           \/ Crash \/ SendDispatched(p)
           \/ p = "worker" /\ (FinishItem \/ FailPreflight)
           \/ p = "worker" /\ FinishTask /\ W.item = 0
<1>0. proc \in [Proc -> ProcRow]
  BY Typed DEF Inv
<1>1. ASSUME NEW q \in Proc, Dispatch(q)
      PROVE  (proc'[p].at \in Carrying /\ proc'[p].task = proc[p].task) \/ SendDispatched(p)
  <2>1. \A r \in Proc \ {q} : proc'[r] = proc[r]
    BY <1>0, <1>1
    DEF Dispatch, CheckRunning, SelectItem, CreateTask, MarkRunning, UndoTask, MarkDeploying,
        SendDispatched, Rest, Goto
  <2>2. CASE MarkDeploying(q)
    BY <1>0, <2>1, <2>2 DEF MarkDeploying, Goto, ProcRow, Carrying
  <2>3. CASE CheckRunning(q) \/ SelectItem(q) \/ CreateTask(q) \/ MarkRunning(q) \/ UndoTask(q)
    <3>1. proc[q].at \notin Carrying
      BY <2>3 DEF CheckRunning, SelectItem, CreateTask, MarkRunning, UndoTask, Carrying
    <3> QED BY <2>1, <3>1
  <2>4. CASE SendDispatched(q)
    BY <2>1, <2>4
  <2> QED BY <1>1, <2>2, <2>3, <2>4 DEF Dispatch
<1>2. ASSUME Worker, p # "worker"
      PROVE  proc'[p] = proc[p]
  BY <1>0, <1>2
  DEF Worker, TakeJob, FinishTask, FinishItem, FinishRelease, FailPreflight, FailRelease, FailTask,
      NextJob, Deploy, Rest, Goto
<1>3. ASSUME Worker, p = "worker"
      PROVE  \/ proc'[p].at \in Carrying /\ proc'[p].task = proc[p].task
             \/ FinishItem \/ FailPreflight
             \/ FinishTask /\ W.item = 0
  <2>1. ASSUME NEW outcome \in Outcomes, Deploy(outcome)
        PROVE  proc'[p].at \in Carrying /\ proc'[p].task = proc[p].task
    <3>1. PICK at \in {"task", "preflight"} :
              proc' = [proc EXCEPT !["worker"] = [W EXCEPT !.at = at, !.outcome = outcome]]
      BY <2>1 DEF Deploy
    <3>2. proc'[p].at = at /\ proc'[p].task = proc[p].task
      BY <1>0, <1>3, <3>1 DEF ProcRow, W
    <3> QED BY <3>2 DEF Carrying
  <2>2. CASE FinishTask /\ W.item # 0
    <3>1. Goto(p, "item")
      BY <1>3, <2>2 DEF FinishTask
    <3> QED BY <1>0, <3>1 DEF Goto, ProcRow, Carrying
  <2>3. CASE TakeJob \/ FinishRelease \/ FailRelease \/ FailTask \/ NextJob
    BY <1>3, <2>3 DEF TakeJob, FinishRelease, FailRelease, FailTask, NextJob, W, Carrying
  <2> QED BY <1>3, <2>1, <2>2, <2>3 DEF Worker
<1>4. CASE TakeDispatch
  <2>1. proc[p].at # "idle"
    BY DEF Carrying
  <2>2. p # "dispatcher" /\ proc'[p] = proc[p]
    BY <1>0, <1>4, <2>1 DEF TakeDispatch
  <2> QED BY <2>2
<1>5. ASSUME NEW c \in Client,
             \/ \E rel \in Release : \/ Receive(c, rel) \/ PublishRead(c, rel)
                                     \/ ScheduleRead(c, rel) \/ CancelScheduled(c, rel)
             \/ \E i \in Item : CancelItemRead(c, i)
             \/ \E t \in Task : CancelTask(c, t)
             \/ \E app \in App : SubmitCompose(c, app)
             \/ Handler(c)
      PROVE  proc' = proc
  BY <1>5
  DEF Receive, PublishRead, ScheduleRead, CancelScheduled, CancelItemRead, CancelTask, SubmitCompose,
      Handler, PublishCommit, ScheduleCommit, Notify, CancelItemCommit, CancelTaskCommit, SendJob
<1>6. CASE Timer \/ (\E due \in SUBSET Scheduled : TimerReads(due)) \/ Recovery \/ UNCHANGED vars
  <2>1. proc' = proc
    BY <1>6
    DEF Timer, TimerQueues, TimerReads, TimerNotifies, Recovery, Start, Recover, Announce, Serve,
        Tell, vars
  <2> QED BY <2>1
<1> QED BY <1>1, <1>2, <1>3, <1>4, <1>5, <1>6 DEF Next

\* a task that is not worked on any more is not revived
LEMMA LostMoves ==
    ASSUME Inv, Held, [Next]_vars, NEW i \in Item, NEW t \in Task, item[i].task = t, Lost(t)
    PROVE  Lost(t)' \/ (FinishTask /\ W.task = t)
<1>0. crashes > 0 => crashes' > 0
  BY CrashesGrow
<1>1. ASSUME Keeps(t)
      PROVE  Lost(t)'
  BY <1>0, <1>1 DEF Keeps, FailedThen, Lost, Failed
<1>2. ASSUME NEW p \in Proc, UndoTask(p)
      PROVE  Keeps(t)
  <2>1. proc[p].at = "undo" /\ TaskIs(proc[p].task, "failed")
    BY <1>2 DEF UndoTask, TaskIs
  <2>2. proc[p].task \in Task /\ BoundTo(0, proc[p].task)
    BY <2>1 DEF Inv, ProcKnown, Held, Owned, ItemFor, Owning, Pending
  <2>3. proc[p].task # t
    BY <2>2 DEF BoundTo, Item
  <2> QED BY <2>1, <2>2, <2>3, OtherTasksKeep
<1>3. ASSUME FailTask
      PROVE  Lost(t)'
  <2>1. W.at = "fail task" /\ TaskIs(W.task, "failed")
    BY <1>3 DEF FailTask, TaskIs
  <2>2. W.task \in Task /\ Started(W.task)
    BY <2>1 DEF Inv, ProcKnown, Held, Owned, Owning, Working, W, Proc
  <2>3. CASE W.task = t
    <3>1. crashes > 0
      BY <2>2, <2>3 DEF Lost, Started, Failed
    <3>2. task'[t].status = "failed"
      BY <2>1, <2>2, <2>3, OtherTasksKeep
    <3> QED BY <1>0, <3>1, <3>2 DEF Lost, Failed
  <2>4. CASE W.task # t
    <3>1. Keeps(t)
      BY <2>1, <2>2, <2>4, OtherTasksKeep
    <3> QED BY <1>1, <3>1
  <2> QED BY <2>3, <2>4
<1>4. ASSUME FinishTask, W.task # t
      PROVE  Lost(t)'
  <2>1. W.at = "task" /\ TaskIs(W.task, W.outcome)
    BY <1>4 DEF FinishTask, TaskIs
  <2>2. W.task \in Task
    BY <2>1 DEF Inv, ProcKnown, Owning, Working, W, Proc
  <2>3. Keeps(t)
    BY <1>4, <2>1, <2>2, OtherTasksKeep
  <2> QED BY <1>1, <2>3
<1>5. ASSUME TakeJob
      PROVE  Keeps(t)
  <2> DEFINE s == Head(jobs).task
  <2>1. s \in Task
    BY <1>5, FirstJob DEF TakeJob, Job
  <2>2. task' = task \/ (task[s].status = "queued" /\ TaskIs(s, "running"))
    BY <1>5 DEF TakeJob, TaskIs
  <2> HIDE DEF s
  <2>3. task' = task \/ s # t
    BY <2>2 DEF Lost, Failed
  <2> QED BY <2>1, <2>2, <2>3, OtherTasksKeep DEF Keeps
<1>6. ASSUME NEW s \in NewTask, NEW app, TaskMade(s, app)
      PROVE  Lost(t)'
  <2>1. task \in [Task -> TaskRow] /\ s # t
    BY Typed DEF Inv, NewTask, Lost, Failed
  <2>2. task'[t] = task[t]
    BY <1>6, <2>1 DEF TaskMade
  <2> QED BY <1>0, <2>2 DEF Lost, Failed
<1>7. ASSUME NEW p \in Proc, CreateTask(p)
      PROVE  Lost(t)'
  <2>1. task' = task => Keeps(t)
    BY DEF Keeps
  <2> QED BY <1>1, <1>6, <1>7, <2>1 DEF CreateTask, TaskMade
<1>8. ASSUME NEW c \in Client, NEW app \in App, SubmitCompose(c, app)
      PROVE  Lost(t)'
  BY <1>6, <1>8 DEF SubmitCompose, TaskMade
<1> QED BY <1>1, <1>2, <1>3, <1>4, <1>5, <1>7, <1>8, TasksKeep

\* as CarriedOn, of one item after the step
CarriedThen(i) ==
    InJobs(item[i].task)' \/ AtWork(item[i].task)' \/ Lost(item[i].task)' \/ Starting'

LEMMA NewlyCarried ==
    ASSUME Inv, NEW i \in Item, Bind(i)
    PROVE  CarriedThen(i)
<1>1. PICK p \in Proc : MarkRunning(p) /\ proc[p].item = i /\ item'[i].task = proc[p].task
  BY DEF Bind
<1>2. item'[i] # item[i]
  BY DEF Bind
<1>3. Goto(p, "deploying")
  BY <1>1, <1>2 DEF MarkRunning
<1>4. proc \in [Proc -> ProcRow]
  BY Typed DEF Inv
<1>5. proc'[p].at = "deploying" /\ proc'[p].task = proc[p].task
  BY <1>3, <1>4 DEF Goto, ProcRow
<1>6. AtWork(item[i].task)'
  BY <1>1, <1>5 DEF AtWork, Carrying
<1> QED BY <1>6 DEF CarriedThen

LEMMA JobCarries ==
    ASSUME Inv, Held, [Next]_vars, NEW i \in Item, item'[i] = item[i], InJobs(item[i].task)
    PROVE  CarriedThen(i)
<1> DEFINE t == item[i].task
<1>1. PICK k \in DOMAIN jobs : jobs[k].task = t
  BY DEF InJobs
<1>2. CASE jobs' = jobs
  BY <1>1, <1>2 DEF CarriedThen, InJobs
<1>3. CASE Crash
  BY <1>3 DEF Crash, CarriedThen, Starting
<1>4. ASSUME NEW job \in Job, jobs' = Append(jobs, job)
      PROVE  CarriedThen(i)
  <2>1. k \in DOMAIN jobs' /\ jobs'[k] = jobs[k]
    BY <1>4, SentJob, JobsTyped
  <2> QED BY <1>1, <2>1 DEF CarriedThen, InJobs
<1>5. ASSUME NEW c \in Client, SendJob(c)
      PROVE  CarriedThen(i)
  <2>1. JobFor(c) \in Job /\ jobs' = Append(jobs, JobFor(c))
    BY <1>5, JobForTyped DEF SendJob, JobFor
  <2> QED BY <1>4, <2>1
<1>6. ASSUME NEW p \in Proc, SendDispatched(p)
      PROVE  CarriedThen(i)
  <2>1. JobOf(p) \in Job /\ jobs' = Append(jobs, JobOf(p))
    BY <1>6, JobOfTyped DEF SendDispatched, JobOf
  <2> QED BY <1>4, <2>1
<1>7. CASE TakeJob /\ k = 1
  <2>1. Head(jobs) = jobs[1] /\ Unstarted(t)
    BY <1>1, <1>7, FirstJob DEF TakeJob, Held, Waits
  <2>2. CASE task[t].status = "queued"
    <3>1. proc \in [Proc -> ProcRow] /\ "worker" \in Proc
      BY Typed DEF Inv, Proc
    <3>2. proc' = [proc EXCEPT !["worker"] = [at |-> "run", app |-> jobs[1].app, item |-> jobs[1].item,
                                             task |-> t, outcome |-> "none"]]
      BY <1>1, <1>7, <2>1, <2>2 DEF TakeJob
    <3>3. proc'["worker"].at = "run" /\ proc'["worker"].task = t
      BY <3>1, <3>2
    <3>4. AtWork(item[i].task)'
      BY <3>1, <3>3 DEF AtWork, Carrying
    <3> QED BY <3>4 DEF CarriedThen
  <2>3. CASE task[t].status # "queued"
    <3>1. task' = task /\ Lost(t)
      BY <1>1, <1>7, <2>1, <2>3 DEF TakeJob, Unstarted, Lost
    <3> QED BY <3>1, CrashesGrow DEF CarriedThen, Lost, Failed
  <2> QED BY <2>2, <2>3
<1>8. CASE TakeJob /\ k # 1
  <2>1. jobs # <<>> /\ jobs' = Tail(jobs)
    BY <1>8 DEF TakeJob
  <2>2. /\ Tail(jobs) \in Seq(Job) /\ Len(Tail(jobs)) = Len(jobs) - 1
        /\ \A l \in DOMAIN Tail(jobs) : Tail(jobs)[l] = jobs[l + 1]
    BY <2>1, FirstJob
  <2>3. DOMAIN jobs' = 1 .. Len(jobs) - 1 /\ DOMAIN jobs = 1 .. Len(jobs) /\ Len(jobs) \in Nat
    BY <2>1, <2>2, LenProperties, JobsTyped
  <2>4. k - 1 \in DOMAIN jobs' /\ (k - 1) + 1 = k
    BY <1>8, <2>3
  <2>5. jobs'[k - 1] = jobs[k]
    BY <2>1, <2>2, <2>4
  <2> QED BY <1>1, <2>4, <2>5 DEF CarriedThen, InJobs
<1> QED BY <1>2, <1>3, <1>5, <1>6, <1>7, <1>8, JobMoves

LEMMA WorkCarries ==
    ASSUME Inv, Held, [Next]_vars, NEW i \in Item, item'[i] = item[i],
           item[i].status = "running", AtWork(item[i].task)
    PROVE  CarriedThen(i)
<1> DEFINE t == item[i].task
<1>0. item \in [Item -> ItemRow]
  BY Typed DEF Inv
<1>1. PICK p \in Proc : proc[p].at \in Carrying /\ proc[p].task = t
  BY DEF AtWork
<1>2. proc[p].at \in Owning /\ BoundTo(ItemFor(proc[p]), t) /\ ItemFor(proc[p]) = proc[p].item
  BY <1>1 DEF Held, Owned, ItemFor, Carrying, Owning, Pending, Working
<1>3. CASE proc'[p].at \in Carrying /\ proc'[p].task = proc[p].task
  BY <1>1, <1>3 DEF CarriedThen, AtWork
<1>4. CASE Crash
  BY <1>4 DEF Crash, CarriedThen, Starting
<1>5. CASE SendDispatched(p)
  <2>1. JobOf(p) \in Job /\ jobs' = Append(jobs, JobOf(p)) /\ JobOf(p).task = t
    BY <1>1, <1>5, JobOfTyped DEF SendDispatched, JobOf
  <2>2. Len(jobs) + 1 \in DOMAIN jobs' /\ jobs'[Len(jobs) + 1].task = t
    BY <2>1, SentJob, JobsTyped
  <2> QED BY <2>2 DEF CarriedThen, InJobs
<1>6. CASE p = "worker" /\ FinishItem
  <2>1. W.item = i
    BY <1>2, <1>6 DEF BoundTo, W
  <2>2. W.outcome \in {"success", "failed"}
    BY <1>6 DEF FinishItem, Inv, ProcKnown, W, Proc
  <2>3. item'[i].status = W.outcome
    BY <1>0, <1>6, <2>1 DEF FinishItem, ItemRow
  <2> QED BY <2>2, <2>3
<1>7. CASE p = "worker" /\ FailPreflight
  <2>1. i \in Bound(W.task)
    BY <1>1, <1>7 DEF Bound, Active, W
  <2>2. item'[i].status = "failed"
    BY <1>0, <1>7, <2>1 DEF FailPreflight, ItemRow
  <2> QED BY <2>2
<1>8. CASE p = "worker" /\ FinishTask /\ W.item = 0
  BY <1>2, <1>8 DEF BoundTo, W, Item
<1> QED BY <1>1, <1>3, <1>4, <1>5, <1>6, <1>7, <1>8, CarrierMoves

LEMMA LostCarries ==
    ASSUME Inv, Held, [Next]_vars, NEW i \in Item, item'[i] = item[i],
           item[i].status = "running", Lost(item[i].task)
    PROVE  CarriedThen(i)
<1> DEFINE t == item[i].task
<1>0. proc \in [Proc -> ProcRow] /\ "worker" \in Proc /\ t \in Task
  BY Typed DEF Inv, Proc, ItemRow, ItemKnown
<1>1. CASE Lost(t)'
  BY <1>1 DEF CarriedThen, Lost
<1>2. CASE FinishTask /\ W.task = t
  <2>1. BoundTo(W.item, t)
    BY <1>2 DEF FinishTask, W, Proc, Held, Owned, ItemFor, Owning, Working
  <2>2. W.item # 0
    BY <2>1 DEF BoundTo, Item
  <2>3. Goto("worker", "item")
    BY <1>2, <2>2 DEF FinishTask
  <2>4. proc'["worker"].at = "item" /\ proc'["worker"].task = t
    BY <1>0, <1>2, <2>3 DEF Goto, ProcRow, W
  <2>5. AtWork(item[i].task)'
    BY <1>0, <2>4 DEF AtWork, Carrying
  <2> QED BY <2>5 DEF CarriedThen
<1> QED BY <1>0, <1>1, <1>2, LostMoves

LEMMA StartingCarries ==
    ASSUME Inv, [Next]_vars, NEW i \in Item, item'[i] = item[i],
           item[i].status = "running", Starting
    PROVE  CarriedThen(i)
<1>1. CASE Recover
  <2>1. Interrupted(i) /\ item \in [Item -> ItemRow]
    BY Typed DEF Inv, Interrupted
  <2>2. item'[i].status = "failed"
    BY <1>1, <2>1 DEF Recover, AfterRestart, ItemRow
  <2> QED BY <2>2
<1> QED BY <1>1, StartingStays DEF CarriedThen

LEMMA CarriedStep ==
    ASSUME Inv, Held, CarriedOn, [Next]_vars
    PROVE  CarriedOn'
<1> SUFFICES ASSUME NEW i \in Item, item'[i].status = "running"
             PROVE  CarriedThen(i)
  BY DEF CarriedOn, CarriedThen
<1>1. RowStep(i)
  BY ItemMoves DEF ItemsStep
<1>2. item'[i] = item[i] \/ Bind(i)
  BY <1>1 DEF RowStep, Enqueued, Due, Closed
<1> QED BY <1>2, NewlyCarried, JobCarries, WorkCarries, LostCarries, StartingCarries DEF CarriedOn

\* A running item, which keeps the others of its application waiting, has its task in
\* the channel of the compose worker or at work there, or is one of the two kinds of
\* item that the code leaves behind (LeftBehind).
THEOREM RunningCarried == Spec => []RunningIsCarried
<1>1. Init => CarriedOn
  BY DEF Init, CarriedOn
<1>2. Inv /\ Held /\ CarriedOn /\ [Next]_vars => CarriedOn'
  BY CarriedStep
<1>3. Spec => []CarriedOn
  BY <1>1, <1>2, Invariance, HeldAlways, PTL DEF Spec
<1>4. CarriedOn => RunningIsCarried
  BY DEF CarriedOn, RunningIsCarried, CarriedBy, LeftBehind, InJobs, AtWork, Lost, Failed, Starting
<1> QED BY <1>3, <1>4, PTL
=============================================================================
