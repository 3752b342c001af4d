------------------------- MODULE ReleaseQueueProofs -------------------------
(***************************************************************************)
(* Proofs about ReleaseQueue, for every value of its constants: its types, and *)
(* when an item of the queue may start.                                    *)
(*                                                                         *)
(* Inv adds to TypeOK what is known of a row once it is written (an item has a *)
(* release, and a task only after it has left the queue), what a request and a *)
(* worker carry from one statement to the next (an item that exists, a task *)
(* that was created), and what a job on the channel names.                 *)
(*                                                                         *)
(* ItemsStep lists what one step may do to one item: it is enqueued, falls *)
(* due, is started with the task of its worker, or is closed. Every action is *)
(* shown to be one of these, and the theorems are proved from the list.    *)
(*                                                                         *)
(* Ordered adds to StartedInOrder that ids are given in order and that nothing *)
(* which waits is before the item a worker has selected: the worker starts it *)
(* some statements after it read the queue.                                *)
(***************************************************************************)
EXTENDS ReleaseQueue, SequenceTheorems, TLAPS

ItemStatus == {"none", "scheduled", "queued", "running", "success", "failed", "canceled"}
TaskStatus == {"none", "queued", "running", "success", "failed", "canceled"}
ItemRow == [rel : Release \cup {"none"}, task : Task \cup {0}, timed : BOOLEAN, status : ItemStatus]
TaskRow == [app : App \cup {"none"}, status : TaskStatus]
ClientRow == [at : {"idle", "publish", "schedule", "notify", "cancel", "cancel task", "job"},
              rel : Release \cup {"none"}, id : Item \cup Task \cup {0}]
ProcRow == [at : Steps, app : App \cup {"none"}, item : Item \cup {0},
            task : Task \cup {0}, outcome : {"none", "success", "failed"}]
Job == [app : App, item : Item \cup {0}, task : Task]

\* where a worker is: it has an item, it has a task, it has a job that is started
HasItem == {"create", "mark", "undo", "deploying", "send", "item", "release"}
Pending == {"mark", "undo", "deploying", "send"}
Working == {"run", "task", "preflight", "fail release", "fail task"}
Owning == Pending \cup Working \cup {"item"}
OfWorker == Working \cup {"item", "release", "rest"}

\* What a row says once it is written.
ItemKnown(i) ==
    /\ item[i].status # "none" => item[i].rel \in Release
    /\ item[i].status = "scheduled" => item[i].timed
    /\ item[i].status = "running" => item[i].task # 0
    /\ item[i].task # 0 => /\ item[i].status \notin {"none", "scheduled", "queued"}
                           /\ task[item[i].task].status # "none"
TaskKnown(t) == task[t].status # "none" => task[t].app \in App

\* What a request and a worker carry between two statements.
ClientKnown(d) ==
    /\ d.at \in {"publish", "schedule", "notify", "cancel"} => d.rel \in Release
    /\ d.at = "cancel" => d.id \in Item /\ item[d.id].status # "none"
    /\ d.at \in {"cancel task", "job"} => d.id \in Task
    /\ d.at = "job" => task[d.id].status # "none"
ProcKnown(p, d) ==
    /\ d.at # "idle" => d.app \in App
    /\ d.at \in HasItem => d.item # 0
    /\ d.item # 0 => item[d.item].status # "none"
    /\ d.at \in Owning => d.task \in Task /\ task[d.task].status # "none"
    /\ d.at \in {"task", "item", "release"} => d.outcome \in {"success", "failed"}
    /\ d.at \in OfWorker => p = "worker"
JobKnown(job) == job.item # 0 => item[job.item].status # "none"

Inv ==
    /\ TypeOK
    /\ \A i \in Item : ItemKnown(i)
    /\ \A t \in Task : TaskKnown(t)
    /\ \A c \in Client : ClientKnown(client[c])
    /\ \A p \in Proc : ProcKnown(p, proc[p])
    /\ \A k \in DOMAIN jobs : JobKnown(jobs[k])
    /\ up # "up" => crashes > 0

-----------------------------------------------------------------------------
(* One step of a row of the queue. *)

LEMMA Typed ==
    ASSUME TypeOK
    PROVE  /\ item \in [Item -> ItemRow] /\ task \in [Task -> TaskRow]
           /\ client \in [Client -> ClientRow] /\ proc \in [Proc -> ProcRow]
           /\ jobs \in Seq(Job) /\ dispatches \in Seq(App)
BY DEF TypeOK, ItemRow, TaskRow, ClientRow, ProcRow, Job, ItemStatus, TaskStatus, Active

\* how a row of the queue is written, kept, queued, started and closed
Kept(i) == /\ item'[i].rel = item[i].rel /\ item'[i].task = item[i].task
           /\ item'[i].timed = item[i].timed
Enqueued(i) ==
    /\ i \in NewItem
    /\ item'[i].rel \in Release /\ item'[i].task = 0
    /\ item'[i].status \in {"queued", "scheduled"}
    /\ item'[i].timed <=> item'[i].status = "scheduled"
Due(i) == item[i].status = "scheduled" /\ item'[i].status = "queued" /\ Kept(i)
Bind(i) ==
    /\ item[i].status = "queued" /\ item'[i].status = "running"
    /\ item'[i].rel = item[i].rel /\ item'[i].timed = item[i].timed
    /\ \E p \in Proc : /\ MarkRunning(p) /\ proc[p].at = "mark" /\ proc[p].item = i
                       /\ item'[i].task = proc[p].task
Closed(i) ==
    /\ item[i].status # "none" /\ Kept(i)
    /\ item'[i].status \in {"success", "failed", "canceled"}
    /\ item'[i].status = "success" => FinishItem /\ i = W.item

RowStep(i) == item'[i] = item[i] \/ Enqueued(i) \/ Due(i) \/ Bind(i) \/ Closed(i)
ItemsStep == item' \in [Item -> ItemRow] /\ \A i \in Item : RowStep(i)

LEMMA SomeEnqueued ==
    ASSUME Inv, NEW i \in NewItem, NEW rel \in Release, NEW st \in {"queued", "scheduled"},
           item' = Enqueue(i, rel, st)
    PROVE  ItemsStep
<1>1. i \in Item /\ item \in [Item -> ItemRow]
  BY Typed DEF Inv, NewItem
<1>2. item' \in [Item -> ItemRow]
  BY <1>1 DEF Enqueue, ItemRow, ItemStatus
<1>3. Enqueued(i)
  BY <1>1 DEF Enqueued, Enqueue
<1>4. \A j \in Item \ {i} : item'[j] = item[j]
  BY <1>1 DEF Enqueue
<1> QED BY <1>2, <1>3, <1>4 DEF ItemsStep, RowStep

\* some rows get another status, and nothing else
Restated(I, st) ==
    item' = [i \in Item |-> IF i \in I THEN [item[i] EXCEPT !.status = st] ELSE item[i]]

LEMMA SomeRestated ==
    ASSUME Inv, NEW st \in ItemStatus, NEW I \in SUBSET Item, Restated(I, st),
           st = "success" => FinishItem /\ I = {W.item},
           \A i \in I : \/ st \in {"success", "failed", "canceled"} /\ item[i].status # "none"
                        \/ st = "queued" /\ item[i].status = "scheduled"
    PROVE  ItemsStep
<1>1. item \in [Item -> ItemRow]
  BY Typed DEF Inv
<1>2. item' \in [Item -> ItemRow]
  BY <1>1 DEF ItemRow, Restated
<1>3. ASSUME NEW i \in Item \ I
      PROVE  RowStep(i)
  BY <1>1 DEF RowStep, Restated
<1>4. ASSUME NEW i \in I
      PROVE  RowStep(i)
  <2>1. item'[i] = [item[i] EXCEPT !.status = st] /\ item[i] \in ItemRow
    BY <1>1 DEF Restated
  <2>2. item'[i].status = st /\ Kept(i)
    BY <2>1 DEF ItemRow, Kept
  <2> QED BY <2>2 DEF RowStep, Due, Closed
<1> QED BY <1>2, <1>3, <1>4 DEF ItemsStep

LEMMA OneRestated ==
    ASSUME Inv, NEW st \in ItemStatus, NEW j \in Item,
           item' = [item EXCEPT ![j].status = st], st = "success" => FinishItem /\ j = W.item,
           \/ st \in {"success", "failed", "canceled"} /\ item[j].status # "none"
           \/ st = "queued" /\ item[j].status = "scheduled"
    PROVE  ItemsStep
<1>1. item \in [Item -> ItemRow]
  BY Typed DEF Inv
<1>2. Restated({j}, st)
  BY <1>1 DEF Restated
<1> QED BY <1>2, SomeRestated

LEMMA SameItems ==
    ASSUME Inv, item' = item
    PROVE  ItemsStep
BY Typed DEF Inv, ItemsStep, RowStep

LEMMA MarkMoves ==
    ASSUME Inv, NEW p \in Proc, MarkRunning(p)
    PROVE  ItemsStep
<1> DEFINE i == proc[p].item
<1>0. item \in [Item -> ItemRow] /\ proc \in [Proc -> ProcRow] /\ i \in Item
      /\ proc[p].task \in Task
  BY Typed DEF Inv, MarkRunning, ProcKnown, ProcRow, HasItem, Owning, Pending
<1>1. CASE item' = item
  BY <1>1, SameItems
<1>2. CASE /\ item[i].status = "queued"
           /\ item' = [item EXCEPT ![i] = [@ EXCEPT !.status = "running", !.task = proc[p].task]]
  <2>1. item' \in [Item -> ItemRow]
    <3> DEFINE row == [item[i] EXCEPT !.status = "running", !.task = proc[p].task]
    <3>1. row \in ItemRow
      BY <1>0 DEF ItemRow, ItemStatus
    <3>2. item' = [item EXCEPT ![i] = row]
      BY <1>2
    <3> HIDE DEF row
    <3> QED BY <1>0, <3>1, <3>2
  <2>2. Bind(i)
    <3>1. proc[p].at = "mark"
      BY DEF MarkRunning
    <3>2. item'[i] = [item[i] EXCEPT !.status = "running", !.task = proc[p].task]
      BY <1>0, <1>2
    <3>3. /\ item'[i].status = "running" /\ item'[i].task = proc[p].task
          /\ item'[i].rel = item[i].rel /\ item'[i].timed = item[i].timed
      BY <1>0, <3>2 DEF ItemRow
    <3> QED BY <1>2, <3>1, <3>3 DEF Bind
  <2>3. \A j \in Item \ {i} : item'[j] = item[j]
    BY <1>0, <1>2
  <2> QED BY <2>1, <2>2, <2>3 DEF ItemsStep, RowStep
<1> QED BY <1>1, <1>2 DEF MarkRunning, Markable

LEMMA ClientItems ==
    ASSUME Inv, NEW c \in Client, Handler(c) \/ (\E rel \in Release : Receive(c, rel) \/ CancelScheduled(c, rel))
    PROVE  ItemsStep
<1>0. item \in [Item -> ItemRow] /\ client \in [Client -> ClientRow] /\ ClientKnown(client[c])
  BY Typed DEF Inv
<1>1. ASSUME NEW rel \in Release, Receive(c, rel)
      PROVE  ItemsStep
  BY <1>1, SameItems, SomeEnqueued DEF Receive
<1>2. CASE PublishCommit(c)
  BY <1>0, <1>2, SameItems, SomeEnqueued DEF PublishCommit, ClientKnown
<1>3. CASE ScheduleCommit(c)
  BY <1>0, <1>3, SameItems, SomeEnqueued DEF ScheduleCommit, ClientKnown
<1>4. CASE CancelItemCommit(c)
  BY <1>0, <1>4, OneRestated DEF CancelItemCommit, ClientKnown, ItemStatus
<1>5. CASE CancelTaskCommit(c)
  <2> DEFINE I == Bound(client[c].id)
  <2>1. Restated(I, "canceled")
    BY <1>5 DEF CancelTaskCommit, Restated
  <2>2. I \subseteq Item /\ \A i \in I : item[i].status # "none"
    BY DEF Bound, Active
  <2> HIDE DEF I
  <2> QED BY <2>1, <2>2, SomeRestated DEF ItemStatus
<1>6. ASSUME NEW rel \in Release, CancelScheduled(c, rel)
      PROVE  ItemsStep
  <2> DEFINE I == {i \in Item : item[i].rel = rel /\ item[i].status = "scheduled"}
  <2>1. Restated(I, "canceled")
    BY <1>6 DEF CancelScheduled, Restated
  <2>2. I \subseteq Item /\ \A i \in I : item[i].status # "none"
    OBVIOUS
  <2> HIDE DEF I
  <2> QED BY <2>1, <2>2, SomeRestated DEF ItemStatus
<1>7. CASE Notify(c) \/ SendJob(c)
  BY <1>7, SameItems DEF Notify, SendJob, dbVars
<1> QED BY <1>1, <1>2, <1>3, <1>4, <1>5, <1>6, <1>7 DEF Handler

LEMMA WorkerItems ==
    ASSUME Inv, Worker
    PROVE  ItemsStep
<1>0. proc \in [Proc -> ProcRow] /\ ProcKnown("worker", W)
  BY Typed DEF Inv, Proc, W
<1>1. CASE FinishItem
  <2>1. W.item \in Item /\ item[W.item].status # "none" /\ W.outcome \in {"success", "failed"}
    BY <1>0, <1>1 DEF FinishItem, ProcKnown, ProcRow, HasItem, W, Proc
  <2>2. item' = [item EXCEPT ![W.item].status = W.outcome]
    BY <1>1 DEF FinishItem
  <2> QED BY <1>1, <2>1, <2>2, OneRestated DEF ItemStatus
<1>2. CASE FailPreflight
  <2> DEFINE I == Bound(W.task)
  <2>1. Restated(I, "failed")
    BY <1>2 DEF FailPreflight, Restated
  <2>2. I \subseteq Item /\ \A i \in I : item[i].status # "none"
    BY DEF Bound, Active
  <2> HIDE DEF I
  <2> QED BY <2>1, <2>2, SomeRestated DEF ItemStatus
<1>3. CASE TakeJob \/ FinishTask \/ FinishRelease \/ FailRelease \/ FailTask \/ NextJob
           \/ \E outcome \in Outcomes : Deploy(outcome)
  BY <1>3, SameItems
  DEF TakeJob, FinishTask, FinishRelease, FailRelease, FailTask, NextJob, Deploy, dbVars
<1> QED BY <1>1, <1>2, <1>3 DEF Worker

LEMMA RecoverItems ==
    ASSUME Inv, Recover
    PROVE  ItemsStep
<1> DEFINE I == {i \in Item : Interrupted(i)}
<1>1. Restated(I, "failed")
  BY DEF Recover, AfterRestart, Restated
<1>2. I \subseteq Item /\ \A i \in I : item[i].status # "none"
  BY DEF Interrupted
<1> HIDE DEF I
<1> QED BY <1>1, <1>2, SomeRestated DEF ItemStatus

LEMMA TimerItems ==
    ASSUME Inv, NEW i \in Item, TimerQueues(i)
    PROVE  ItemsStep
BY SameItems, OneRestated DEF TimerQueues, ItemStatus

LEMMA ItemMoves ==
    ASSUME Inv, [Next]_vars
    PROVE  ItemsStep
<1>1. ASSUME NEW c \in Client,
             \/ \E rel \in Release : PublishRead(c, rel) \/ ScheduleRead(c, rel)
             \/ \E i \in Item : CancelItemRead(c, i)
             \/ \E t \in Task : CancelTask(c, t)
             \/ \E app \in App : SubmitCompose(c, app)
      PROVE  ItemsStep
  BY <1>1, SameItems
  DEF PublishRead, ScheduleRead, CancelItemRead, CancelTask, SubmitCompose, dbVars
<1>2. CASE \/ \E due \in SUBSET Scheduled : TimerReads(due)
           \/ \E app \in App : TimerNotifies(app)
           \/ TakeDispatch
           \/ Crash
           \/ UNCHANGED vars
  BY <1>2, SameItems DEF TimerReads, TimerNotifies, TakeDispatch, Crash, dbVars, vars
<1>3. ASSUME NEW p \in Proc, Dispatch(p)
      PROVE  ItemsStep
  BY <1>3, SameItems, MarkMoves
  DEF Dispatch, CheckRunning, SelectItem, CreateTask, UndoTask, MarkDeploying, SendDispatched, dbVars
<1>4. CASE Recovery
  BY <1>4, SameItems, RecoverItems DEF Recovery, Start, Announce, Serve, Tell, dbVars
<1> QED BY <1>1, <1>2, <1>3, <1>4, ClientItems, WorkerItems, TimerItems DEF Next, Timer

\* A row that is written stays written.
LEMMA ItemsStay ==
    ASSUME Inv, ItemsStep, NEW i \in Item, item[i].status # "none"
    PROVE  item'[i].status # "none" /\ item'[i].rel = item[i].rel
BY DEF ItemsStep, RowStep, Enqueued, NewItem, Due, Bind, Closed, Kept
-----------------------------------------------------------------------------
(* One step of a task. *)

Made(t) == /\ t \in NewTask
           /\ task'[t].status = "queued" /\ task'[t].app \in App
Moved(t) == /\ task'[t].app = task[t].app
            /\ task[t].status # "none" /\ task'[t].status # "none"
TaskStep(t) == task'[t] = task[t] \/ Made(t) \/ Moved(t)
TasksStep == task' \in [Task -> TaskRow] /\ \A t \in Task : TaskStep(t)

LEMMA SameTasks ==
    ASSUME Inv, task' = task
    PROVE  TasksStep
BY Typed DEF Inv, TasksStep, TaskStep

TaskIs(t, st) == task' = [task EXCEPT ![t].status = st]
TaskMade(t, app) == task' = [task EXCEPT ![t] = [app |-> app, status |-> "queued"]]

LEMMA SomeMade ==
    ASSUME Inv, NEW t \in NewTask, NEW app \in App, TaskMade(t, app)
    PROVE  TasksStep
<1>1. t \in Task /\ task \in [Task -> TaskRow]
  BY Typed DEF Inv, NewTask
<1>2. task' \in [Task -> TaskRow] /\ Made(t)
  BY <1>1 DEF TaskRow, TaskStatus, Made, TaskMade
<1>3. \A s \in Task \ {t} : task'[s] = task[s]
  BY <1>1 DEF TaskMade
<1> QED BY <1>2, <1>3 DEF TasksStep, TaskStep

LEMMA SomeMoved ==
    ASSUME Inv, NEW t \in Task, NEW st \in TaskStatus \ {"none"},
           task[t].status # "none", TaskIs(t, st)
    PROVE  TasksStep
<1>1. task \in [Task -> TaskRow]
  BY Typed DEF Inv
<1>2. task' \in [Task -> TaskRow] /\ Moved(t)
  BY <1>1 DEF TaskRow, Moved, TaskIs
<1>3. \A s \in Task \ {t} : task'[s] = task[s]
  BY <1>1 DEF TaskIs
<1> QED BY <1>2, <1>3 DEF TasksStep, TaskStep

LEMMA RecoverTasks ==
    ASSUME Inv, Recover
    PROVE  TasksStep
<1>1. task \in [Task -> TaskRow]
  BY Typed DEF Inv
<1>2. task' = [t \in Task |-> IF task[t].status \in Active
                             THEN [task[t] EXCEPT !.status = "failed"] ELSE task[t]]
  BY DEF Recover
<1>3. task' \in [Task -> TaskRow]
  BY <1>1, <1>2 DEF TaskRow, TaskStatus
<1>4. \A t \in Task : TaskStep(t)
  BY <1>1, <1>2 DEF TaskStep, Moved, TaskRow, Active
<1> QED BY <1>3, <1>4 DEF TasksStep

\* the head of the channel, and what is left of it
LEMMA FirstJob ==
    ASSUME Inv, jobs # <<>>
    PROVE  /\ Head(jobs) \in Job /\ Head(jobs) = jobs[1] /\ 1 \in DOMAIN jobs
           /\ Tail(jobs) \in Seq(Job) /\ Len(Tail(jobs)) = Len(jobs) - 1
           /\ \A k \in DOMAIN Tail(jobs) : k + 1 \in DOMAIN jobs /\ Tail(jobs)[k] = jobs[k + 1]
<1>1. jobs \in Seq(Job)
  BY Typed DEF Inv
<1>2. Len(jobs) \in Nat \ {0} /\ DOMAIN jobs = 1 .. Len(jobs)
  BY <1>1, EmptySeq, LenProperties
<1>3. /\ Head(jobs) \in Job /\ Tail(jobs) \in Seq(Job)
  BY <1>1, HeadTailProperties
<1>4. Head(jobs) = jobs[1] /\ Len(Tail(jobs)) = Len(jobs) - 1
      /\ \A k \in 1 .. Len(Tail(jobs)) : Tail(jobs)[k] = jobs[k + 1]
  BY <1>1, <1>2
<1>5. DOMAIN Tail(jobs) = 1 .. Len(Tail(jobs))
  BY <1>3, LenProperties
<1> QED BY <1>2, <1>3, <1>4, <1>5

LEMMA WorkerTasks ==
    ASSUME Inv, Worker
    PROVE  TasksStep
<1>0. proc \in [Proc -> ProcRow] /\ ProcKnown("worker", W) /\ W \in ProcRow
  BY Typed DEF Inv, Proc, W
<1>1. CASE FinishTask
  BY <1>0, <1>1, SomeMoved DEF TaskIs, FinishTask, ProcKnown, Owning, Working, TaskStatus
<1>2. CASE FailTask
  BY <1>0, <1>2, SomeMoved DEF TaskIs, FailTask, ProcKnown, Owning, Working, TaskStatus
<1>3. CASE TakeJob
  <2>1. CASE task' = task
    BY <2>1, SameTasks
  <2> DEFINE t == Head(jobs).task
  <2>2. t \in Task
    BY <1>3, FirstJob DEF TakeJob, Job
  <2>3. \/ task' = task
        \/ task[t].status = "queued" /\ TaskIs(t, "running")
    BY <1>3 DEF TakeJob, TaskIs
  <2> HIDE DEF t
  <2> QED BY <2>1, <2>2, <2>3, SomeMoved DEF TaskStatus
<1>4. CASE FinishItem \/ FailPreflight \/ FinishRelease \/ FailRelease \/ NextJob
           \/ \E outcome \in Outcomes : Deploy(outcome)
  BY <1>4, SameTasks DEF FinishItem, FailPreflight, FinishRelease, FailRelease, NextJob, Deploy, dbVars
<1> QED BY <1>1, <1>2, <1>3, <1>4 DEF Worker

LEMMA DispatchTasks ==
    ASSUME Inv, NEW p \in Proc, Dispatch(p)
    PROVE  TasksStep
<1>0. ProcKnown(p, proc[p])
  BY DEF Inv
<1>1. CASE CreateTask(p)
  <2> DEFINE app == proc[p].app
  <2>1. app \in App
    BY <1>0, <1>1 DEF CreateTask, ProcKnown
  <2>2. \/ task' = task
        \/ \E t \in NewTask : TaskMade(t, app)
    BY <1>1 DEF CreateTask, TaskMade
  <2> HIDE DEF app
  <2> QED BY <2>1, <2>2, SameTasks, SomeMade
<1>2. CASE UndoTask(p)
  <2>1. proc[p].task \in Task /\ task[proc[p].task].status # "none"
    BY <1>0, <1>2 DEF UndoTask, ProcKnown, Owning, Pending
  <2>2. TaskIs(proc[p].task, "failed")
    BY <1>2 DEF UndoTask, TaskIs
  <2> QED BY <2>1, <2>2, SomeMoved DEF TaskStatus
<1>3. CASE CheckRunning(p) \/ SelectItem(p) \/ MarkRunning(p) \/ MarkDeploying(p) \/ SendDispatched(p)
  BY <1>3, SameTasks DEF CheckRunning, SelectItem, MarkRunning, MarkDeploying, SendDispatched, dbVars
<1> QED BY <1>1, <1>2, <1>3 DEF Dispatch

LEMMA TaskMoves ==
    ASSUME Inv, [Next]_vars
    PROVE  TasksStep
<1>1. ASSUME NEW c \in Client, NEW rel \in Release,
             Receive(c, rel) \/ PublishRead(c, rel) \/ ScheduleRead(c, rel) \/ CancelScheduled(c, rel)
      PROVE  TasksStep
  BY <1>1, SameTasks DEF Receive, PublishRead, ScheduleRead, CancelScheduled, dbVars
<1>2. ASSUME NEW c \in Client, Handler(c) \/ \E i \in Item : CancelItemRead(c, i)
      PROVE  TasksStep
  BY <1>2, SameTasks
  DEF Handler, PublishCommit, ScheduleCommit, Notify, CancelItemCommit, CancelTaskCommit, SendJob,
      CancelItemRead, dbVars
<1>3. ASSUME NEW c \in Client, NEW t \in Task, CancelTask(c, t)
      PROVE  TasksStep
  BY <1>3, SomeMoved DEF TaskIs, CancelTask, Cancelable, TaskStatus
<1>4. ASSUME NEW c \in Client, NEW app \in App, SubmitCompose(c, app)
      PROVE  TasksStep
  BY <1>4, SomeMade DEF SubmitCompose, TaskMade
<1>5. CASE Timer \/ (\E due \in SUBSET Scheduled : TimerReads(due)) \/ TakeDispatch \/ Crash
           \/ UNCHANGED vars
  BY <1>5, SameTasks
  DEF Timer, TimerQueues, TimerReads, TimerNotifies, TakeDispatch, Crash, dbVars, vars
<1>6. CASE Recovery
  BY <1>6, SameTasks, RecoverTasks DEF Recovery, Start, Announce, Serve, Tell, dbVars
<1> QED BY <1>1, <1>2, <1>3, <1>4, <1>5, <1>6, WorkerTasks, DispatchTasks DEF Next

LEMMA TasksStay ==
    ASSUME Inv, TasksStep, NEW t \in Task, task[t].status # "none"
    PROVE  task'[t].status # "none"
BY DEF TasksStep, TaskStep, Made, NewTask, Moved
-----------------------------------------------------------------------------
(* What a request carries. *)

\* as ClientKnown, of the rows after the step
Ready(d) ==
    /\ d.at \in {"publish", "schedule", "notify", "cancel"} => d.rel \in Release
    /\ d.at = "cancel" => d.id \in Item /\ item'[d.id].status # "none"
    /\ d.at \in {"cancel task", "job"} => d.id \in Task
    /\ d.at = "job" => task'[d.id].status # "none"
ClientsReady == client' \in [Client -> ClientRow] /\ \A c \in Client : Ready(client'[c])

LEMMA StillReady ==
    ASSUME Inv, ItemsStep, TasksStep, NEW c \in Client
    PROVE  Ready(client[c])
BY ItemsStay, TasksStay DEF Inv, ClientKnown, Ready

LEMMA SameClients ==
    ASSUME Inv, ItemsStep, TasksStep, client' = client
    PROVE  ClientsReady
BY StillReady, Typed DEF ClientsReady, Inv

LEMMA OneClient ==
    ASSUME Inv, ItemsStep, TasksStep, NEW c \in Client, NEW d \in ClientRow, Ready(d),
           client' = [client EXCEPT ![c] = d]
    PROVE  ClientsReady
BY StillReady, Typed DEF ClientsReady, Inv

LEMMA IdleIsReady == IdleClient \in ClientRow /\ Ready(IdleClient)
BY DEF IdleClient, ClientRow, Ready

LEMMA ClientContinues ==
    ASSUME Inv, ItemsStep, TasksStep, NEW c \in Client,
           NEW at \in {"publish", "schedule", "notify", "cancel", "cancel task", "job"},
           NEW rel \in Release \cup {"none"}, NEW id \in Item \cup Task \cup {0},
           Continue(c, at, rel, id), Ready([at |-> at, rel |-> rel, id |-> id])
    PROVE  ClientsReady
<1> DEFINE d == [at |-> at, rel |-> rel, id |-> id]
<1>1. d \in ClientRow /\ Ready(d) /\ client' = [client EXCEPT ![c] = d]
  BY DEF ClientRow, Continue
<1> HIDE DEF d
<1> QED BY <1>1, OneClient

\* a request that goes on with a release, or with an item or a task
LEMMA ContinuesWithRelease ==
    ASSUME Inv, ItemsStep, TasksStep, NEW c \in Client, NEW rel \in Release,
           NEW at \in {"publish", "schedule", "notify"}, Continue(c, at, rel, 0)
    PROVE  ClientsReady
BY ClientContinues DEF Ready

LEMMA ContinuesWithTask ==
    ASSUME Inv, ItemsStep, TasksStep, NEW c \in Client, NEW t \in Task,
           NEW at \in {"cancel task", "job"}, task'[t].status # "none",
           Continue(c, at, "none", t)
    PROVE  ClientsReady
BY ClientContinues DEF Ready

LEMMA ClientMoves ==
    ASSUME Inv, ItemsStep, TasksStep, [Next]_vars
    PROVE  ClientsReady
<1>1. ASSUME NEW c \in Client, NEW rel \in Release,
             Receive(c, rel) \/ PublishRead(c, rel) \/ ScheduleRead(c, rel) \/ CancelScheduled(c, rel)
      PROVE  ClientsReady
  BY <1>1, SameClients, ContinuesWithRelease DEF Receive, PublishRead, ScheduleRead, CancelScheduled
<1>2. ASSUME NEW c \in Client, NEW i \in Item, CancelItemRead(c, i)
      PROVE  ClientsReady
  <2> DEFINE rel == item[i].rel
  <2>1. item[i].status # "none" /\ Continue(c, "cancel", rel, i)
    BY <1>2 DEF CancelItemRead
  <2>2. rel \in Release
    BY <2>1 DEF Inv, ItemKnown
  <2> HIDE DEF rel
  <2>3. Ready([at |-> "cancel", rel |-> rel, id |-> i])
    BY <2>1, <2>2, ItemsStay DEF Ready
  <2> QED BY <2>1, <2>2, <2>3, ClientContinues
<1>3. ASSUME NEW c \in Client, NEW t \in Task, CancelTask(c, t)
      PROVE  ClientsReady
  <2>1. task'[t].status # "none" /\ Continue(c, "cancel task", "none", t)
    BY <1>3, TasksStay DEF CancelTask, Cancelable
  <2> QED BY <2>1, ContinuesWithTask
<1>4. ASSUME NEW c \in Client, NEW app \in App, SubmitCompose(c, app)
      PROVE  ClientsReady
  <2>1. PICK t \in NewTask : /\ task' = [task EXCEPT ![t] = [app |-> app, status |-> "queued"]]
                             /\ Continue(c, "job", "none", t)
    BY <1>4 DEF SubmitCompose
  <2>2. t \in Task /\ task'[t].status = "queued"
    BY <2>1, Typed DEF NewTask, Inv
  <2> QED BY <2>1, <2>2, ContinuesWithTask
<1>5. ASSUME NEW c \in Client, Handler(c)
      PROVE  ClientsReady
  <2> DEFINE d == client[c]
             rel == d.rel
  <2>1. CASE PublishCommit(c) \/ CancelItemCommit(c)
    <3>1. rel \in Release /\ Continue(c, "notify", rel, 0)
      BY <2>1 DEF PublishCommit, CancelItemCommit, Inv, ClientKnown
    <3> HIDE DEF rel
    <3> QED BY <3>1, ContinuesWithRelease
  <2>2. CASE ScheduleCommit(c) \/ Notify(c) \/ CancelTaskCommit(c) \/ SendJob(c)
    BY <2>2, IdleIsReady, OneClient DEF ScheduleCommit, Notify, CancelTaskCommit, SendJob
  <2> QED BY <1>5, <2>1, <2>2 DEF Handler
<1>6. CASE Crash
  BY <1>6, IdleIsReady DEF Crash, ClientsReady
<1>7. CASE Timer \/ (\E due \in SUBSET Scheduled : TimerReads(due)) \/ TakeDispatch
           \/ UNCHANGED vars
  BY <1>7, SameClients DEF Timer, TimerQueues, TimerReads, TimerNotifies, TakeDispatch, vars
<1>8. ASSUME NEW p \in Proc, Dispatch(p)
      PROVE  ClientsReady
  BY <1>8, SameClients
  DEF Dispatch, CheckRunning, SelectItem, CreateTask, MarkRunning, UndoTask, MarkDeploying, SendDispatched
<1>9. CASE Worker \/ Recovery
  BY <1>9, SameClients
  DEF Worker, TakeJob, FinishTask, FinishItem, FinishRelease, FailPreflight, FailRelease, FailTask,
      NextJob, Deploy, Recovery, Start, Recover, Announce, Serve, Tell
<1> QED BY <1>1, <1>2, <1>3, <1>4, <1>5, <1>6, <1>7, <1>8, <1>9 DEF Next
-----------------------------------------------------------------------------
(* What a worker carries. *)

\* as ProcKnown, of the rows after the step
Fit(p, d) ==
    /\ d.at # "idle" => d.app \in App
    /\ d.at \in HasItem => d.item # 0
    /\ d.item # 0 => item'[d.item].status # "none"
    /\ d.at \in Owning => d.task \in Task /\ task'[d.task].status # "none"
    /\ d.at \in {"task", "item", "release"} => d.outcome \in {"success", "failed"}
    /\ d.at \in OfWorker => p = "worker"
ProcsFit == proc' \in [Proc -> ProcRow] /\ \A p \in Proc : Fit(p, proc'[p])

LEMMA StillFit ==
    ASSUME Inv, ItemsStep, TasksStep, NEW p \in Proc
    PROVE  Fit(p, proc[p])
<1>1. proc[p].item \in Item \cup {0}
  BY Typed DEF Inv, ProcRow
<1> QED BY <1>1, ItemsStay, TasksStay DEF Inv, ProcKnown, Fit

LEMMA SameProcs ==
    ASSUME Inv, ItemsStep, TasksStep, proc' = proc
    PROVE  ProcsFit
BY StillFit, Typed DEF ProcsFit, Inv

LEMMA OneProc ==
    ASSUME Inv, ItemsStep, TasksStep, NEW p \in Proc, NEW d \in ProcRow, Fit(p, d),
           proc' = [proc EXCEPT ![p] = d]
    PROVE  ProcsFit
BY StillFit, Typed DEF ProcsFit, Inv

LEMMA IdleFits ==
    ASSUME NEW p \in Proc
    PROVE  IdleProc \in ProcRow /\ Fit(p, IdleProc)
BY DEF IdleProc, ProcRow, Steps, Fit, HasItem, Owning, Pending, Working, OfWorker

LEMMA Rests ==
    ASSUME Inv, ItemsStep, TasksStep, NEW p \in Proc, Rest(p)
    PROVE  ProcsFit
BY IdleFits, OneProc DEF Rest

\* a worker goes on with the item and the task it has
LEMMA GoesOn ==
    ASSUME Inv, ItemsStep, TasksStep, NEW p \in Proc, NEW at \in Steps \ {"idle"}, Goto(p, at),
           proc[p].at # "idle",
           at \in HasItem => proc[p].item # 0,
           at \in Owning => proc[p].at \in Owning,
           at \in {"task", "item", "release"} => proc[p].outcome \in {"success", "failed"},
           at \in OfWorker => p = "worker"
    PROVE  ProcsFit
<1> DEFINE c == proc[p]
           d == [c EXCEPT !.at = at]
<1>0. c \in ProcRow /\ proc \in [Proc -> ProcRow]
  BY Typed DEF Inv
<1>1. d \in ProcRow /\ proc' = [proc EXCEPT ![p] = d]
  BY <1>0 DEF ProcRow, Goto
<1>2. d.at = at /\ d.app = c.app /\ d.item = c.item /\ d.task = c.task /\ d.outcome = c.outcome
  BY <1>0 DEF ProcRow
<1>3. Fit(p, c) /\ ProcKnown(p, c)
  BY StillFit DEF Inv
<1> HIDE DEF c, d
<1>4. Fit(p, d)
  BY <1>2, <1>3 DEF c, Fit
<1> QED BY <1>1, <1>4, OneProc

LEMMA DispatchMoves ==
    ASSUME Inv, ItemsStep, TasksStep, NEW p \in Proc, Dispatch(p)
    PROVE  ProcsFit
<1> DEFINE c == proc[p]
<1>0. /\ c \in ProcRow /\ proc \in [Proc -> ProcRow] /\ Fit(p, c) /\ ProcKnown(p, c)
  BY Typed, StillFit DEF Inv
<1>1. CASE CheckRunning(p)
  BY <1>1, Rests, GoesOn DEF CheckRunning, Steps, HasItem, Owning, Pending, Working, OfWorker
<1>2. CASE SelectItem(p)
  <2>1. ASSUME NEW i \in Candidates(c.app),
               proc' = [proc EXCEPT ![p] = [c EXCEPT !.at = "create", !.item = i]]
        PROVE  ProcsFit
    <3> DEFINE d == [c EXCEPT !.at = "create", !.item = i]
    <3>1. i \in Item /\ item[i].status = "queued" /\ item'[i].status # "none"
      BY ItemsStay DEF Candidates, ItemsOf
    <3>2. d \in ProcRow /\ d.at = "create" /\ d.item = i /\ d.app = c.app
      BY <1>0, <3>1 DEF ProcRow, Steps
    <3>3. c.app \in App /\ i # 0
      <4>1. c.at = "select"
        BY <1>2 DEF SelectItem
      <4> HIDE DEF c
      <4> QED BY <1>0, <3>1, <4>1 DEF ProcKnown, Item
    <3> HIDE DEF d, c
    <3>4. Fit(p, d)
      BY <3>1, <3>2, <3>3 DEF Fit, Owning, Pending, Working, OfWorker
    <3> QED BY <2>1, <3>2, <3>4, OneProc DEF d, c
  <2> QED BY <1>2, <2>1, Rests DEF SelectItem
<1>3. CASE CreateTask(p)
  <2>1. ASSUME NEW t \in NewTask,
               task' = [task EXCEPT ![t] = [app |-> c.app, status |-> "queued"]],
               proc' = [proc EXCEPT ![p] = [c EXCEPT !.at = "mark", !.task = t]]
        PROVE  ProcsFit
    <3> DEFINE d == [c EXCEPT !.at = "mark", !.task = t]
    <3>1. t \in Task /\ task'[t].status = "queued"
      BY <2>1, Typed DEF Inv, NewTask
    <3>2. d \in ProcRow /\ d.at = "mark" /\ d.item = c.item /\ d.app = c.app /\ d.task = t
      BY <1>0, <3>1 DEF ProcRow, Steps
    <3>3. c.at = "create"
      BY <1>3 DEF CreateTask
    <3> HIDE DEF d, c
    <3>4. Fit(p, d)
      BY <1>0, <3>1, <3>2, <3>3 DEF Fit, HasItem, Owning, Pending, Working, OfWorker
    <3> QED BY <2>1, <3>2, <3>4, OneProc DEF d, c
  <2> QED BY <1>3, <2>1, Rests DEF CreateTask
<1>4. CASE MarkRunning(p)
  <2>1. c.at = "mark" /\ (Goto(p, "undo") \/ Goto(p, "deploying"))
    BY <1>4 DEF MarkRunning
  <2> QED BY <1>0, <2>1, GoesOn
    DEF ProcKnown, Steps, HasItem, Owning, Pending, Working, OfWorker
<1>5. CASE MarkDeploying(p)
  BY <1>0, <1>5, GoesOn
  DEF MarkDeploying, ProcKnown, Steps, HasItem, Owning, Pending, Working, OfWorker
<1>6. CASE UndoTask(p) \/ SendDispatched(p)
  BY <1>6, Rests DEF UndoTask, SendDispatched
<1> QED BY <1>1, <1>2, <1>3, <1>4, <1>5, <1>6 DEF Dispatch

LEMMA WorkerMoves ==
    ASSUME Inv, ItemsStep, TasksStep, Worker
    PROVE  ProcsFit
<1>0. /\ W \in ProcRow /\ proc \in [Proc -> ProcRow] /\ "worker" \in Proc
      /\ Fit("worker", W) /\ ProcKnown("worker", W)
  BY Typed, StillFit DEF Inv, Proc, W
<1>1. CASE TakeJob
  <2> DEFINE job == Head(jobs)
  <2>1. job \in Job /\ job = jobs[1] /\ 1 \in DOMAIN jobs
    BY <1>1, FirstJob DEF TakeJob
  <2> DEFINE d == [at |-> "run", app |-> job.app, item |-> job.item, task |-> job.task,
                   outcome |-> "none"]
  <2>2. CASE proc' = proc
    BY <2>2, SameProcs
  <2>3. CASE task[job.task].status = "queued" /\ proc' = [proc EXCEPT !["worker"] = d]
    <3>1. d \in ProcRow
      BY <2>1 DEF ProcRow, Job, Steps
    <3>2. job.item \in Item \cup {0} /\ (job.item # 0 => item[job.item].status # "none")
      BY <2>1 DEF Inv, Job, JobKnown
    <3>3. job.item # 0 => item'[job.item].status # "none"
      BY <3>2, ItemsStay
    <3>4. job.task \in Task /\ task'[job.task].status # "none"
      BY <2>1, <2>3, TasksStay DEF Job
    <3>5. Fit("worker", d)
      BY <2>1, <3>3, <3>4 DEF Fit, Job, HasItem
    <3> HIDE DEF d, job
    <3> QED BY <1>0, <2>3, <3>1, <3>5, OneProc
  <2> QED BY <1>1, <2>2, <2>3 DEF TakeJob
<1>2. ASSUME NEW outcome \in Outcomes, Deploy(outcome)
      PROVE  ProcsFit
  <2>1. outcome \in {"success", "failed"} /\ W.at = "run"
    BY <1>2, QueueAssumption DEF Deploy
  <2>2. PICK at \in {"task", "preflight"} :
            proc' = [proc EXCEPT !["worker"] = [W EXCEPT !.at = at, !.outcome = outcome]]
    BY <1>2 DEF Deploy
  <2> DEFINE c == W
             d == [c EXCEPT !.at = at, !.outcome = outcome]
  <2>3. /\ d \in ProcRow /\ d.at = at /\ d.item = c.item /\ d.app = c.app /\ d.task = c.task
        /\ d.outcome = outcome
    BY <1>0, <2>1 DEF ProcRow, Steps
  <2>4. c.at = "run" /\ Fit("worker", c)
    BY <1>0, <2>1
  <2> HIDE DEF c, d
  <2>5. Fit("worker", d)
    BY <2>1, <2>3, <2>4 DEF Fit, HasItem, Owning, Pending, Working, OfWorker
  <2> QED BY <1>0, <2>2, <2>3, <2>5, OneProc DEF c, d
<1>3. CASE FinishTask
  <2>1. /\ W.at = "task" /\ W.outcome \in {"success", "failed"}
        /\ \/ Goto("worker", "item") /\ W.item # 0
           \/ Goto("worker", "check")
           \/ Goto("worker", "rest")
    BY <1>0, <1>3 DEF FinishTask, ProcKnown
  <2> QED BY <1>0, <2>1, GoesOn DEF W, Steps, HasItem, Owning, Pending, Working, OfWorker
<1>4. CASE FinishItem
  BY <1>0, <1>4, GoesOn
  DEF FinishItem, ProcKnown, W, Steps, HasItem, Owning, Pending, Working, OfWorker
<1>5. CASE FinishRelease
  <2>1. W.at = "release" /\ (Goto("worker", "check") \/ Goto("worker", "rest"))
    BY <1>5 DEF FinishRelease
  <2> QED BY <1>0, <2>1, GoesOn DEF W, Steps, HasItem, Owning, Pending, Working, OfWorker
<1>6. CASE FailPreflight
  <2>1. W.at = "preflight" /\ (Goto("worker", "fail task") \/ Goto("worker", "fail release"))
    BY <1>6 DEF FailPreflight
  <2> QED BY <1>0, <2>1, GoesOn DEF W, Steps, HasItem, Owning, Pending, Working, OfWorker
<1>7. CASE FailRelease \/ FailTask
  BY <1>0, <1>7, GoesOn
  DEF FailRelease, FailTask, W, Steps, HasItem, Owning, Pending, Working, OfWorker
<1>8. CASE NextJob
  BY <1>0, <1>8, Rests DEF NextJob
<1> QED BY <1>1, <1>2, <1>3, <1>4, <1>5, <1>6, <1>7, <1>8 DEF Worker

LEMMA ProcMoves ==
    ASSUME Inv, ItemsStep, TasksStep, [Next]_vars
    PROVE  ProcsFit
<1>1. CASE TakeDispatch
  <2> DEFINE d == [IdleProc EXCEPT !.at = "check", !.app = Head(dispatches)]
  <2>1. Head(dispatches) \in App
    BY <1>1, Typed, HeadTailProperties DEF Inv, TakeDispatch
  <2>2. d \in ProcRow /\ Fit("dispatcher", d)
    BY <2>1 DEF IdleProc, ProcRow, Steps, Fit, HasItem, Owning, Pending, Working, OfWorker
  <2>3. proc' = [proc EXCEPT !["dispatcher"] = d] /\ "dispatcher" \in Proc
    BY <1>1 DEF TakeDispatch, Proc
  <2> HIDE DEF d
  <2> QED BY <2>2, <2>3, OneProc
<1>2. CASE Crash
  BY <1>2, IdleFits DEF Crash, ProcsFit
<1>3. ASSUME NEW c \in Client,
             \/ \E rel \in Release : \/ Receive(c, rel) \/ PublishRead(c, rel)
                                     \/ ScheduleRead(c, rel) \/ CancelScheduled(c, rel)
             \/ \E i \in Item : CancelItemRead(c, i)
             \/ \E t \in Task : CancelTask(c, t)
             \/ \E app \in App : SubmitCompose(c, app)
             \/ Handler(c)
      PROVE  ProcsFit
  BY <1>3, SameProcs
  DEF Receive, PublishRead, ScheduleRead, CancelScheduled, CancelItemRead, CancelTask, SubmitCompose,
      Handler, PublishCommit, ScheduleCommit, Notify, CancelItemCommit, CancelTaskCommit, SendJob
<1>4. CASE Timer \/ (\E due \in SUBSET Scheduled : TimerReads(due)) \/ Recovery \/ UNCHANGED vars
  BY <1>4, SameProcs
  DEF Timer, TimerQueues, TimerReads, TimerNotifies, Recovery, Start, Recover, Announce, Serve, Tell,
      vars
<1> QED BY <1>1, <1>2, <1>3, <1>4, DispatchMoves, WorkerMoves DEF Next
-----------------------------------------------------------------------------
(* The channels, the timer and the releases. *)

\* as JobKnown, of the rows after the step
JobFits(job) == job.item # 0 => item'[job.item].status # "none"
JobsFit == /\ jobs' \in Seq(Job) /\ Len(jobs') <= Capacity
           /\ \A k \in DOMAIN jobs' : JobFits(jobs'[k])

\* how the channel to the compose worker changes
Sent(job) == Len(jobs) < Capacity /\ jobs' = Append(jobs, job)
Received == jobs # <<>> /\ jobs' = Tail(jobs)

LEMMA JobMoves ==
    ASSUME [Next]_vars
    PROVE  \/ jobs' = jobs
           \/ jobs' = <<>> /\ Crash
           \/ \E c \in Client : SendJob(c)
           \/ \E p \in Proc : SendDispatched(p)
           \/ TakeJob
<1>1. ASSUME NEW c \in Client,
             \/ \E rel \in Release : \/ Receive(c, rel) \/ PublishRead(c, rel)
                                     \/ ScheduleRead(c, rel) \/ CancelScheduled(c, rel)
             \/ \E i \in Item : CancelItemRead(c, i)
             \/ \E t \in Task : CancelTask(c, t)
             \/ \E app \in App : SubmitCompose(c, app)
             \/ Handler(c)
      PROVE  jobs' = jobs \/ SendJob(c)
  BY <1>1
  DEF Receive, PublishRead, ScheduleRead, CancelScheduled, CancelItemRead, CancelTask, SubmitCompose,
      Handler, PublishCommit, ScheduleCommit, Notify, CancelItemCommit, CancelTaskCommit
<1>2. CASE Timer \/ (\E due \in SUBSET Scheduled : TimerReads(due)) \/ Recovery \/ TakeDispatch
           \/ UNCHANGED vars
  BY <1>2
  DEF Timer, TimerQueues, TimerReads, TimerNotifies, Recovery, Start, Recover, Announce, Serve, Tell,
      TakeDispatch, vars
<1>3. ASSUME NEW p \in Proc, Dispatch(p)
      PROVE  jobs' = jobs \/ SendDispatched(p)
  BY <1>3 DEF Dispatch, CheckRunning, SelectItem, CreateTask, MarkRunning, UndoTask, MarkDeploying
<1>4. CASE Worker
  BY <1>4
  DEF Worker, FinishTask, FinishItem, FinishRelease, FailPreflight, FailRelease, FailTask,
      NextJob, Deploy
<1>5. CASE Crash
  BY <1>5 DEF Crash
<1> QED BY <1>1, <1>2, <1>3, <1>4, <1>5 DEF Next

LEMMA JobsTyped ==
    ASSUME Inv
    PROVE  jobs \in Seq(Job) /\ Len(jobs) \in Nat /\ DOMAIN jobs = 1 .. Len(jobs)
           /\ Len(jobs) <= Capacity /\ Capacity \in Nat \ {0}
           /\ \A k \in DOMAIN jobs : jobs[k] \in Job
<1>1. jobs \in Seq(Job) /\ Len(jobs) <= Capacity
  BY Typed DEF Inv, TypeOK
<1> QED BY <1>1, LenProperties, ElementOfSeq, QueueAssumption

\* the channel after a job was sent
LEMMA SentJob ==
    ASSUME Inv, NEW job \in Job, jobs' = Append(jobs, job)
    PROVE  /\ jobs' \in Seq(Job) /\ Len(jobs') = Len(jobs) + 1
           /\ DOMAIN jobs' = 1 .. Len(jobs) + 1
           /\ \A k \in DOMAIN jobs : jobs'[k] = jobs[k]
           /\ jobs'[Len(jobs) + 1] = job
<1>1. jobs' \in Seq(Job) /\ Len(jobs') = Len(jobs) + 1
      /\ (\A k \in 1 .. Len(jobs) : jobs'[k] = jobs[k]) /\ jobs'[Len(jobs) + 1] = job
  BY JobsTyped, AppendProperties
<1>2. DOMAIN jobs' = 1 .. Len(jobs')
  BY <1>1, LenProperties
<1> QED BY <1>1, <1>2, JobsTyped

LEMMA StillKnown ==
    ASSUME Inv, ItemsStep, NEW k \in DOMAIN jobs
    PROVE  JobFits(jobs[k])
<1>1. jobs[k].item \in Item \cup {0}
  BY JobsTyped DEF Job
<1> QED BY <1>1, ItemsStay DEF Inv, JobKnown, JobFits

LEMMA SomeSent ==
    ASSUME Inv, ItemsStep, NEW job \in Job, JobFits(job), Sent(job)
    PROVE  JobsFit
<1>1. Len(jobs) < Capacity /\ jobs' = Append(jobs, job)
  BY DEF Sent
<1>2. \A k \in DOMAIN jobs' : k \in DOMAIN jobs \/ k = Len(jobs) + 1
  BY <1>1, SentJob, JobsTyped
<1>3. \A k \in DOMAIN jobs' : JobFits(jobs'[k])
  BY <1>1, <1>2, SentJob, StillKnown
<1> QED BY <1>1, <1>3, SentJob, JobsTyped DEF JobsFit

\* what is sent
JobOf(p) == [app |-> proc[p].app, item |-> proc[p].item, task |-> proc[p].task]
JobFor(c) == [app |-> task[client[c].id].app, item |-> 0, task |-> client[c].id]

LEMMA JobOfTyped ==
    ASSUME Inv, NEW p \in Proc, proc[p].at = "send"
    PROVE  JobOf(p) \in Job /\ proc[p].item \in Item
<1>1. proc[p] \in ProcRow /\ ProcKnown(p, proc[p])
  BY Typed DEF Inv
<1> DEFINE d == proc[p]
<1>2. d.app \in App /\ d.item \in Item /\ d.task \in Task
  BY <1>1 DEF ProcRow, ProcKnown, HasItem, Owning, Pending
<1> QED BY <1>2 DEF JobOf, Job

LEMMA JobForTyped ==
    ASSUME Inv, NEW c \in Client, client[c].at = "job"
    PROVE  JobFor(c) \in Job /\ client[c].id \in Task
<1>1. client[c].id \in Task /\ task[client[c].id].status # "none"
  BY DEF Inv, ClientKnown
<1>2. task[client[c].id].app \in App
  BY <1>1 DEF Inv, TaskKnown
<1> QED BY <1>1, <1>2 DEF JobFor, Job

LEMMA JobsMove ==
    ASSUME Inv, ItemsStep, [Next]_vars
    PROVE  JobsFit
<1>1. CASE jobs' = jobs
  BY <1>1, JobsTyped, StillKnown DEF JobsFit
<1>2. CASE jobs' = <<>>
  <2>1. jobs' \in Seq(Job) /\ Len(jobs') = 0 /\ DOMAIN jobs' = {}
    BY <1>2, EmptySeq
  <2> QED BY <2>1, JobsTyped DEF JobsFit
<1>3. ASSUME NEW c \in Client, SendJob(c)
      PROVE  JobsFit
  <2>1. Sent(JobFor(c)) /\ client[c].at = "job"
    BY <1>3 DEF SendJob, Sent, JobFor
  <2>2. JobFits(JobFor(c))
    BY DEF JobFits, JobFor
  <2> QED BY <2>1, <2>2, JobForTyped, SomeSent
<1>4. ASSUME NEW p \in Proc, SendDispatched(p)
      PROVE  JobsFit
  <2>1. Sent(JobOf(p)) /\ proc[p].at = "send"
    BY <1>4 DEF SendDispatched, Sent, JobOf
  <2>2. proc[p].item \in Item /\ item[proc[p].item].status # "none"
    BY <2>1, JobOfTyped DEF Inv, ProcKnown, Item
  <2>3. JobFits(JobOf(p))
    BY <2>2, ItemsStay DEF JobFits, JobOf
  <2> QED BY <2>1, <2>3, JobOfTyped, SomeSent
<1>5. CASE TakeJob
  <2>1. jobs # <<>> /\ jobs' = Tail(jobs)
    BY <1>5 DEF TakeJob
  <2>2. \A k \in DOMAIN jobs' : JobFits(jobs'[k])
    BY <2>1, FirstJob, StillKnown
  <2> QED BY <2>1, <2>2, FirstJob, JobsTyped DEF JobsFit
<1> QED BY <1>1, <1>2, <1>3, <1>4, <1>5, JobMoves

Statuses == {"none", "received", "queued", "deploying", "deployed", "failed"}

LEMMA ReleaseMoves ==
    ASSUME Inv, [Next]_vars
    PROVE  release' \in [Release -> Statuses]
<1>0. release \in [Release -> Statuses]
  BY DEF Inv, TypeOK, Statuses
<1>1. ASSUME NEW c \in Client, NEW rel \in Release,
             Receive(c, rel) \/ PublishRead(c, rel) \/ ScheduleRead(c, rel) \/ CancelScheduled(c, rel)
      PROVE  release' \in [Release -> Statuses]
  BY <1>0, <1>1 DEF Receive, PublishRead, ScheduleRead, CancelScheduled, dbVars, Statuses
<1>2. ASSUME NEW c \in Client, CancelTaskCommit(c)
      PROVE  release' \in [Release -> Statuses]
  BY <1>0, <1>2 DEF CancelTaskCommit, Statuses
<1>3. ASSUME NEW c \in Client, Handler(c)
      PROVE  release' \in [Release -> Statuses]
  BY <1>0, <1>2, <1>3
  DEF Handler, PublishCommit, ScheduleCommit, Notify, CancelItemCommit, SendJob, dbVars, Statuses
<1>4. CASE Recover
  BY <1>0, <1>4 DEF Recover, Statuses
<1>5. ASSUME NEW p \in Proc, Dispatch(p)
      PROVE  release' \in [Release -> Statuses]
  BY <1>0, <1>5
  DEF Dispatch, CheckRunning, SelectItem, CreateTask, MarkRunning, UndoTask, MarkDeploying,
      SendDispatched, dbVars, Statuses
<1>6. CASE Worker
  <2>1. CASE FinishRelease
    BY <1>0, <2>1 DEF FinishRelease, Statuses
  <2> QED BY <1>0, <1>6, <2>1
    DEF Worker, TakeJob, FinishTask, FinishItem, FailPreflight, FailRelease, FailTask, NextJob,
        Deploy, dbVars, Statuses
<1>7. ASSUME NEW c \in Client,
             \/ \E i \in Item : CancelItemRead(c, i)
             \/ \E t \in Task : CancelTask(c, t)
             \/ \E app \in App : SubmitCompose(c, app)
      PROVE  release' = release
  BY <1>7 DEF CancelItemRead, CancelTask, SubmitCompose, dbVars
<1>8. CASE Timer \/ (\E due \in SUBSET Scheduled : TimerReads(due)) \/ TakeDispatch \/ Crash
           \/ UNCHANGED vars
  BY <1>0, <1>8
  DEF Timer, TimerQueues, TimerReads, TimerNotifies, TakeDispatch, Crash, dbVars, vars
<1>9. CASE Recovery
  BY <1>0, <1>4, <1>9 DEF Recovery, Start, Announce, Serve, Tell, dbVars
<1> QED BY <1>0, <1>1, <1>3, <1>5, <1>6, <1>7, <1>8, <1>9 DEF Next

DispatchesTyped == dispatches' \in Seq(App) /\ Len(dispatches') <= Capacity

LEMMA DispatchSent ==
    ASSUME Inv, NEW app \in App, Len(dispatches) < Capacity,
           dispatches' = Append(dispatches, app)
    PROVE  DispatchesTyped
<1>1. dispatches \in Seq(App) /\ Len(dispatches) \in Nat /\ Capacity \in Nat
  BY Typed, LenProperties, QueueAssumption DEF Inv
<1>2. dispatches' \in Seq(App) /\ Len(dispatches') = Len(dispatches) + 1
  BY <1>1, AppendProperties
<1> QED BY <1>1, <1>2 DEF DispatchesTyped

LEMMA DispatchesMove ==
    ASSUME Inv, [Next]_vars
    PROVE  DispatchesTyped
<1>0. dispatches \in Seq(App) /\ Len(dispatches) <= Capacity /\ Len(dispatches) \in Nat
      /\ Capacity \in Nat \ {0}
  BY Typed, LenProperties, QueueAssumption DEF Inv, TypeOK
<1>1. ASSUME NEW c \in Client, Notify(c)
      PROVE  DispatchesTyped
  <2>1. client[c].rel \in Release
    BY <1>1 DEF Notify, Inv, ClientKnown
  <2> DEFINE app == AppOf[client[c].rel]
  <2>2. app \in App
    BY <2>1, QueueAssumption
  <2>3. Len(dispatches) < Capacity /\ dispatches' = Append(dispatches, app)
    BY <1>1 DEF Notify
  <2> HIDE DEF app
  <2> QED BY <2>2, <2>3, DispatchSent
<1>2. ASSUME NEW app \in App, TimerNotifies(app) \/ Tell(app)
      PROVE  DispatchesTyped
  BY <1>2, DispatchSent DEF TimerNotifies, Tell
<1>3. CASE TakeDispatch
  BY <1>0, <1>3, HeadTailProperties DEF TakeDispatch, DispatchesTyped
<1>4. CASE Crash
  BY <1>0, <1>4, EmptySeq DEF Crash, DispatchesTyped
<1>5. CASE dispatches' = dispatches
  BY <1>0, <1>5 DEF DispatchesTyped
<1>6. ASSUME NEW c \in Client,
             \/ \E rel \in Release : \/ Receive(c, rel) \/ PublishRead(c, rel)
                                     \/ ScheduleRead(c, rel) \/ CancelScheduled(c, rel)
             \/ \E i \in Item : CancelItemRead(c, i)
             \/ \E t \in Task : CancelTask(c, t)
             \/ \E app \in App : SubmitCompose(c, app)
             \/ Handler(c)
      PROVE  dispatches' = dispatches \/ Notify(c)
  BY <1>6
  DEF Receive, PublishRead, ScheduleRead, CancelScheduled, CancelItemRead, CancelTask, SubmitCompose,
      Handler, PublishCommit, ScheduleCommit, CancelItemCommit, CancelTaskCommit, SendJob
<1>7. CASE (\E i \in Item : TimerQueues(i)) \/ (\E due \in SUBSET Scheduled : TimerReads(due))
           \/ Start \/ Recover \/ Announce \/ Serve \/ UNCHANGED vars
  BY <1>5, <1>7 DEF TimerQueues, TimerReads, Start, Recover, Announce, Serve, vars
<1>8. CASE Worker \/ \E p \in Proc : Dispatch(p)
  <2>1. dispatches' = dispatches
    BY <1>8
    DEF Worker, TakeJob, FinishTask, FinishItem, FinishRelease, FailPreflight, FailRelease, FailTask,
        NextJob, Deploy, Dispatch, CheckRunning, SelectItem, CreateTask, MarkRunning, UndoTask,
        MarkDeploying, SendDispatched
  <2> QED BY <1>5, <2>1
<1> QED BY <1>1, <1>2, <1>3, <1>4, <1>5, <1>6, <1>7, <1>8 DEF Next, Timer, Recovery

LEMMA TimerMoves ==
    ASSUME Inv, [Next]_vars
    PROVE  timer' \in [todo : SUBSET Item, apps : SUBSET App]
<1> DEFINE T == [todo : SUBSET Item, apps : SUBSET App]
<1>0. timer \in T
  BY DEF Inv, TypeOK
<1>1. ASSUME NEW due \in SUBSET Scheduled, TimerReads(due)
      PROVE  timer' \in T
  <2>1. due \subseteq Item
    BY DEF Scheduled
  <2> QED BY <1>1, <2>1 DEF TimerReads
<1>2. ASSUME NEW i \in Item, TimerQueues(i)
      PROVE  timer' \in T
  <2>1. item[i].status = "scheduled" => AppOfItem(i) \in App
    BY QueueAssumption DEF Inv, ItemKnown, AppOfItem
  <2>2. \/ timer' = [timer EXCEPT !.todo = timer.todo \ {i}]
        \/ timer' = IdleTimer
        \/ /\ item[i].status = "scheduled"
           /\ timer' = [todo |-> timer.todo \ {i}, apps |-> timer.apps \cup {AppOfItem(i)}]
    BY <1>2 DEF TimerQueues
  <2> QED BY <1>0, <2>1, <2>2 DEF IdleTimer
<1>3. ASSUME NEW app \in App, TimerNotifies(app)
      PROVE  timer' \in T
  BY <1>0, <1>3 DEF TimerNotifies
<1>4. CASE Crash
  BY <1>4 DEF Crash, IdleTimer
<1>5. ASSUME NEW c \in Client,
             \/ \E rel \in Release : \/ Receive(c, rel) \/ PublishRead(c, rel)
                                     \/ ScheduleRead(c, rel) \/ CancelScheduled(c, rel)
             \/ \E i \in Item : CancelItemRead(c, i)
             \/ \E t \in Task : CancelTask(c, t)
             \/ \E app \in App : SubmitCompose(c, app)
             \/ Handler(c)
      PROVE  timer' = timer
  BY <1>5
  DEF Receive, PublishRead, ScheduleRead, CancelScheduled, CancelItemRead, CancelTask, SubmitCompose,
      Handler, PublishCommit, ScheduleCommit, Notify, CancelItemCommit, CancelTaskCommit, SendJob
<1>6. CASE Recovery \/ TakeDispatch \/ UNCHANGED vars
  BY <1>0, <1>6 DEF Recovery, Start, Recover, Announce, Serve, Tell, TakeDispatch, vars
<1>7. CASE Worker \/ \E p \in Proc : Dispatch(p)
  <2>1. timer' = timer
    BY <1>7
    DEF Worker, TakeJob, FinishTask, FinishItem, FinishRelease, FailPreflight, FailRelease, FailTask,
        NextJob, Deploy, Dispatch, CheckRunning, SelectItem, CreateTask, MarkRunning, UndoTask,
        MarkDeploying, SendDispatched
  <2> QED BY <1>0, <2>1
<1> QED BY <1>0, <1>1, <1>2, <1>3, <1>4, <1>5, <1>6, <1>7 DEF Next, Timer

\* The process is down, or starting, only after a restart.
LEMMA RestartMoves ==
    ASSUME Inv, [Next]_vars
    PROVE  /\ up' \in {"down", "recover", "announce", "tell", "up"} /\ tell' \subseteq App
           /\ crashes' \in 0 .. MaxCrashes /\ crashes <= crashes'
           /\ up' # "up" => crashes' > 0
<1>0. /\ up \in {"down", "recover", "announce", "tell", "up"} /\ tell \subseteq App
      /\ crashes \in 0 .. MaxCrashes /\ MaxCrashes \in Nat /\ (up # "up" => crashes > 0)
  BY QueueAssumption DEF Inv, TypeOK
<1>1. CASE Crash
  BY <1>0, <1>1 DEF Crash
<1>2. CASE Recovery
  BY <1>0, <1>2 DEF Recovery, Start, Recover, Announce, Announced, Serve, Tell
<1>3. ASSUME NEW c \in Client,
             \/ \E rel \in Release : \/ Receive(c, rel) \/ PublishRead(c, rel)
                                     \/ ScheduleRead(c, rel) \/ CancelScheduled(c, rel)
             \/ \E i \in Item : CancelItemRead(c, i)
             \/ \E t \in Task : CancelTask(c, t)
             \/ \E app \in App : SubmitCompose(c, app)
             \/ Handler(c)
      PROVE  UNCHANGED <<up, tell, crashes>>
  BY <1>3
  DEF Receive, PublishRead, ScheduleRead, CancelScheduled, CancelItemRead, CancelTask, SubmitCompose,
      Handler, PublishCommit, ScheduleCommit, Notify, CancelItemCommit, CancelTaskCommit, SendJob
<1>4. CASE Timer \/ (\E due \in SUBSET Scheduled : TimerReads(due)) \/ TakeDispatch
           \/ UNCHANGED vars
  BY <1>0, <1>4 DEF Timer, TimerQueues, TimerReads, TimerNotifies, TakeDispatch, vars
<1>5. CASE Worker \/ \E p \in Proc : Dispatch(p)
  <2>1. UNCHANGED <<up, tell, crashes>>
    BY <1>5
    DEF Worker, TakeJob, FinishTask, FinishItem, FinishRelease, FailPreflight, FailRelease, FailTask,
        NextJob, Deploy, Dispatch, CheckRunning, SelectItem, CreateTask, MarkRunning, UndoTask,
        MarkDeploying, SendDispatched
  <2> QED BY <1>0, <2>1
<1> QED BY <1>0, <1>1, <1>2, <1>3, <1>4, <1>5 DEF Next
-----------------------------------------------------------------------------
(* The invariant. *)

LEMMA RowsKnown ==
    ASSUME Inv, ItemsStep, TasksStep
    PROVE  (\A i \in Item : ItemKnown(i)') /\ (\A t \in Task : TaskKnown(t)')
<1>1. ASSUME NEW t \in Task
      PROVE  TaskKnown(t)'
  BY DEF Inv, TasksStep, TaskStep, TaskKnown, Made, Moved
<1>2. ASSUME NEW i \in Item
      PROVE  ItemKnown(i)'
  <2>0. ItemKnown(i) /\ RowStep(i) /\ item[i].task \in Task \cup {0}
    BY Typed DEF Inv, ItemsStep, ItemRow
  <2>1. CASE item'[i] = item[i]
    BY <2>0, <2>1, TasksStay DEF ItemKnown
  <2>2. CASE Enqueued(i)
    BY <2>2 DEF Enqueued, ItemKnown
  <2>3. CASE Due(i)
    BY <2>0, <2>3 DEF Due, Kept, ItemKnown
  <2>4. CASE Bind(i)
    <3>1. PICK p \in Proc : proc[p].at = "mark" /\ proc[p].item = i /\ item'[i].task = proc[p].task
      BY <2>4 DEF Bind
    <3>2. proc[p].task \in Task /\ task[proc[p].task].status # "none"
      BY <3>1 DEF Inv, ProcKnown, Owning, Pending
    <3>3. task'[proc[p].task].status # "none"
      BY <3>2, TasksStay
    <3>4. item'[i].status = "running" /\ item'[i].rel = item[i].rel /\ item[i].status = "queued"
          /\ item'[i].task = proc[p].task /\ item'[i].task # 0
      BY <2>4, <3>1, <3>2 DEF Bind, Task
    <3> QED BY <2>0, <3>3, <3>4 DEF ItemKnown
  <2>5. CASE Closed(i)
    BY <2>0, <2>5, TasksStay DEF Closed, Kept, ItemKnown
  <2> QED BY <2>0, <2>1, <2>2, <2>3, <2>4, <2>5 DEF RowStep
<1> QED BY <1>1, <1>2

LEMMA NextInv ==
    ASSUME Inv, [Next]_vars
    PROVE  Inv'
<1>0. ItemsStep /\ TasksStep
  BY ItemMoves, TaskMoves
<1>1. ClientsReady /\ ProcsFit /\ JobsFit
  BY <1>0, ClientMoves, ProcMoves, JobsMove
<1>2. TypeOK'
  <2>1. /\ item' \in [Item -> ItemRow] /\ task' \in [Task -> TaskRow]
        /\ client' \in [Client -> ClientRow] /\ proc' \in [Proc -> ProcRow]
        /\ jobs' \in Seq(Job) /\ Len(jobs') <= Capacity
    BY <1>0, <1>1 DEF ItemsStep, TasksStep, ClientsReady, ProcsFit, JobsFit
  <2>2. Active \cup {"none", "success", "failed", "canceled"} = TaskStatus
    BY DEF Active, TaskStatus
  <2> QED BY <2>1, <2>2, ReleaseMoves, DispatchesMove, TimerMoves, RestartMoves
    DEF TypeOK, ItemRow, ItemStatus, TaskRow, ClientRow, ProcRow, Job, Statuses, DispatchesTyped
<1>3. \A c \in Client : ClientKnown(client[c])'
  BY <1>1 DEF ClientsReady, Ready, ClientKnown
<1>4. \A p \in Proc : ProcKnown(p, proc[p])'
  BY <1>1 DEF ProcsFit, Fit, ProcKnown
<1>5. \A k \in DOMAIN jobs' : JobKnown(jobs[k])'
  BY <1>1 DEF JobsFit, JobFits, JobKnown
<1>6. (up # "up" => crashes > 0)'
  BY RestartMoves
<1>7. (\A i \in Item : ItemKnown(i)') /\ (\A t \in Task : TaskKnown(t)')
  BY <1>0, RowsKnown
<1> QED BY <1>2, <1>3, <1>4, <1>5, <1>6, <1>7 DEF Inv

LEMMA InitInv == Init => Inv
<1> SUFFICES ASSUME Init PROVE Inv
  OBVIOUS
<1>0. /\ MaxCrashes \in Nat /\ Capacity \in Nat
      /\ <<>> \in Seq(App) /\ <<>> \in Seq(Job) /\ Len(<<>>) = 0
  BY QueueAssumption, EmptySeq
<1>1. TypeOK
  BY <1>0
  DEF Init, TypeOK, IdleClient, IdleTimer, IdleProc, Steps, Job
<1>2. DOMAIN jobs = {}
  BY DEF Init
<1> QED BY <1>1, <1>2
  DEF Init, Inv, ItemKnown, TaskKnown, ClientKnown, ProcKnown, IdleClient, IdleProc, HasItem, Owning,
      Pending, Working, OfWorker

LEMMA Invariance == Spec => []Inv
<1>1. Init => Inv
  BY InitInv
<1>2. Inv /\ [Next]_vars => Inv'
  BY NextInv
<1> QED BY <1>1, <1>2, PTL DEF Spec

\* The rows of the queue and of its tasks, the requests, the workers and the two
\* channels keep the form the code gives them.
THEOREM TypeCorrect == Spec => []TypeOK
<1>1. Inv => TypeOK
  BY DEF Inv
<1> QED BY <1>1, Invariance, PTL

\* A queue item is carried out at most once: mark_running starts it from the
\* queue, with a task of its own, and neither the workers nor the recovery after
\* a restart bring it back there.
THEOREM StartsOnce == Spec => StartedOnce
<1> DEFINE A == \A i \in Item :
          /\ item[i].status # "running" /\ item'[i].status = "running" => item[i].status = "queued"
          /\ item'[i].status \in {"scheduled", "queued"}
                => item[i].status \in {"none", "scheduled", "queued"}
<1>1. Inv /\ [Next]_vars => [A]_vars
  <2> SUFFICES ASSUME Inv, [Next]_vars PROVE A
    OBVIOUS
  <2> SUFFICES ASSUME NEW i \in Item
               PROVE  /\ item[i].status # "running" /\ item'[i].status = "running" => item[i].status = "queued"
                      /\ item'[i].status \in {"scheduled", "queued"}
                            => item[i].status \in {"none", "scheduled", "queued"}
    OBVIOUS
  <2>1. RowStep(i)
    BY ItemMoves DEF ItemsStep
  <2> QED BY <2>1 DEF RowStep, Enqueued, NewItem, Due, Bind, Closed
<1>2. Spec => [][A]_vars
  BY <1>1, Invariance, PTL DEF Spec
<1> QED BY <1>2 DEF StartedOnce
-----------------------------------------------------------------------------
(* The order of the queue. *)

\* rows are written in the order of queue_seq
Prefix == \A i, j \in Item : i < j /\ item[j].status # "none" => item[i].status # "none"

\* an item of the application that waits in its place
Untimed(i, app) == item[i].status = "queued" /\ ~item[i].timed /\ AppOfItem(i) = app

\* what a worker has selected, nothing that waits is before
Chosen(d) ==
    d.at \in {"create", "mark"} =>
        AppOfItem(d.item) = d.app /\ \A i \in Item : Untimed(i, d.app) => d.item <= i

Ordered == Prefix /\ StartedInOrder /\ \A p \in Proc : Chosen(proc[p])

LEMMA PrefixStep ==
    ASSUME Inv, Prefix, ItemsStep
    PROVE  Prefix'
<1> SUFFICES ASSUME NEW i \in Item, NEW j \in Item, i < j, item'[j].status # "none"
             PROVE  item'[i].status # "none"
  BY DEF Prefix
<1>1. CASE item[j].status # "none"
  BY <1>1, ItemsStay DEF Prefix
<1>2. CASE item[j].status = "none"
  <2>1. j \in NewItem
    BY <1>2 DEF ItemsStep, RowStep, Enqueued, Due, Bind, Closed
  <2>2. i \in 1 .. j - 1
    BY DEF Item
  <2> QED BY <2>1, <2>2, ItemsStay DEF NewItem
<1> QED BY <1>1, <1>2

UntimedThen(i, app) == item'[i].status = "queued" /\ ~item'[i].timed /\ AppOf[item'[i].rel] = app

LEMMA StillUntimed ==
    ASSUME Inv, ItemsStep, NEW i \in Item, NEW app, UntimedThen(i, app)
    PROVE  Untimed(i, app) \/ item[i].status = "none"
<1>1. CASE item'[i] = item[i]
  BY <1>1 DEF Untimed, UntimedThen, AppOfItem
<1>2. CASE Enqueued(i)
  BY <1>2 DEF Enqueued, NewItem
<1>3. CASE Due(i)
  BY <1>3 DEF UntimedThen, Due, Kept, Inv, ItemKnown
<1> QED BY <1>1, <1>2, <1>3 DEF ItemsStep, RowStep, Bind, Closed, UntimedThen

LEMMA ChoiceMoves ==
    ASSUME Inv, [Next]_vars, NEW p \in Proc, proc'[p].at \in {"create", "mark"}
    PROVE  \/ SelectItem(p)
           \/ /\ CreateTask(p)
              /\ proc'[p].item = proc[p].item /\ proc'[p].app = proc[p].app
           \/ proc'[p] = proc[p]
<1>0. proc \in [Proc -> ProcRow]
  BY Typed DEF Inv
<1>1. ASSUME NEW q \in Proc, Dispatch(q), q # p
      PROVE  proc'[p] = proc[p]
  BY <1>0, <1>1
  DEF Dispatch, CheckRunning, SelectItem, CreateTask, MarkRunning, UndoTask, MarkDeploying,
      SendDispatched, Rest, Goto
<1>2. CASE CreateTask(p)
  <2>1. \/ proc' = [proc EXCEPT ![p] = IdleProc]
        \/ \E t : proc' = [proc EXCEPT ![p] = [@ EXCEPT !.at = "mark", !.task = t]]
    BY <1>2 DEF CreateTask, Rest
  <2>2. CASE proc' = [proc EXCEPT ![p] = IdleProc]
    BY <1>0, <2>2 DEF IdleProc
  <2>3. ASSUME NEW t, proc' = [proc EXCEPT ![p] = [@ EXCEPT !.at = "mark", !.task = t]]
        PROVE  proc'[p].item = proc[p].item /\ proc'[p].app = proc[p].app
    BY <1>0, <2>3 DEF ProcRow
  <2> QED BY <1>2, <2>1, <2>2, <2>3
<1>3. CASE CheckRunning(p) \/ MarkRunning(p) \/ UndoTask(p) \/ MarkDeploying(p) \/ SendDispatched(p)
  <2>1. Rest(p) \/ \E at \in {"select", "undo", "deploying", "send"} : Goto(p, at)
    BY <1>3 DEF CheckRunning, MarkRunning, UndoTask, MarkDeploying, SendDispatched
  <2> QED BY <1>0, <2>1 DEF Rest, Goto, IdleProc, ProcRow
<1>4. CASE Worker /\ p # "worker"
  <2>1. proc'[p] = proc[p]
    BY <1>0, <1>4
    DEF Worker, TakeJob, FinishTask, FinishItem, FinishRelease, FailPreflight, FailRelease, FailTask,
        NextJob, Deploy, Rest, Goto
  <2> QED BY <2>1
<1>5. CASE Worker /\ p = "worker"
  <2>1. CASE TakeJob
    BY <1>0, <1>5, <2>1 DEF TakeJob, W
  <2>2. ASSUME NEW outcome \in Outcomes, Deploy(outcome)
        PROVE  proc'[p].at \notin {"create", "mark"}
    <3>1. PICK at \in {"task", "preflight"} :
              proc' = [proc EXCEPT !["worker"] = [W EXCEPT !.at = at, !.outcome = outcome]]
      BY <2>2 DEF Deploy
    <3>2. proc'[p].at = at
      BY <1>0, <1>5, <3>1 DEF ProcRow, W
    <3> QED BY <3>2
  <2>3. CASE FinishTask \/ FinishItem \/ FinishRelease \/ FailPreflight \/ FailRelease \/ FailTask
    <3>1. \E at \in {"item", "check", "rest", "release", "fail task", "fail release"} : Goto(p, at)
      BY <1>5, <2>3 DEF FinishTask, FinishItem, FinishRelease, FailPreflight, FailRelease, FailTask
    <3> QED BY <1>0, <3>1 DEF Goto, ProcRow
  <2>4. CASE NextJob
    <3>1. Rest("worker")
      BY <2>4 DEF NextJob
    <3> QED BY <1>0, <1>5, <3>1 DEF Rest, IdleProc
  <2> QED BY <1>5, <2>1, <2>2, <2>3, <2>4 DEF Worker
<1>6. CASE TakeDispatch \/ Crash
  <2>1. CASE TakeDispatch
    <3>1. \E a : proc' = [proc EXCEPT !["dispatcher"] = [IdleProc EXCEPT !.at = "check", !.app = a]]
      BY <2>1 DEF TakeDispatch
    <3>2. proc'["dispatcher"].at = "check" /\ \A q \in Proc \ {"dispatcher"} : proc'[q] = proc[q]
      BY <1>0, <3>1 DEF IdleProc, Proc
    <3>3. p # "dispatcher"
      BY <3>2
    <3>4. proc'[p] = proc[p]
      BY <3>2, <3>3
    <3> QED BY <3>4
  <2>2. CASE Crash
    <3>1. proc'[p] = IdleProc
      BY <2>2 DEF Crash
    <3> QED BY <3>1 DEF IdleProc
  <2> QED BY <1>6, <2>1, <2>2
<1>7. ASSUME NEW c \in Client,
             \/ \E rel \in Release : \/ Receive(c, rel) \/ PublishRead(c, rel)
                                     \/ ScheduleRead(c, rel) \/ CancelScheduled(c, rel)
             \/ \E i \in Item : CancelItemRead(c, i)
             \/ \E t \in Task : CancelTask(c, t)
             \/ \E app \in App : SubmitCompose(c, app)
             \/ Handler(c)
      PROVE  proc' = proc
  BY <1>7
  DEF Receive, PublishRead, ScheduleRead, CancelScheduled, CancelItemRead, CancelTask, SubmitCompose,
      Handler, PublishCommit, ScheduleCommit, Notify, CancelItemCommit, CancelTaskCommit, SendJob
<1>8. CASE Timer \/ (\E due \in SUBSET Scheduled : TimerReads(due)) \/ Recovery \/ UNCHANGED vars
  <2>1. proc' = proc
    BY <1>8
    DEF Timer, TimerQueues, TimerReads, TimerNotifies, Recovery, Start, Recover, Announce, Serve,
        Tell, vars
  <2> QED BY <2>1
<1> QED BY <1>1, <1>2, <1>3, <1>4, <1>5, <1>6, <1>7, <1>8 DEF Next, Dispatch

ChosenThen(p) ==
    proc'[p].at \in {"create", "mark"} =>
        /\ AppOf[item'[proc'[p].item].rel] = proc'[p].app
        /\ \A i \in Item : UntimedThen(i, proc'[p].app) => proc'[p].item <= i

LEMMA ChosenStep ==
    ASSUME Inv, Ordered, [Next]_vars, NEW p \in Proc
    PROVE  ChosenThen(p)
<1> SUFFICES ASSUME proc'[p].at \in {"create", "mark"}
             PROVE  /\ AppOf[item'[proc'[p].item].rel] = proc'[p].app
                    /\ \A i \in Item : UntimedThen(i, proc'[p].app) => proc'[p].item <= i
  BY DEF ChosenThen
<1>0. ItemsStep
  BY ItemMoves
<1>1. CASE SelectItem(p)
  <2>1. proc[p].at = "select" /\ item' = item /\ proc \in [Proc -> ProcRow]
    BY <1>1, Typed DEF SelectItem, dbVars, Inv
  <2>2. ~Rest(p)
    BY <2>1 DEF Rest, IdleProc
  <2>3. PICK j \in Candidates(proc[p].app) :
            proc' = [proc EXCEPT ![p] = [@ EXCEPT !.at = "create", !.item = j]]
    BY <1>1, <2>2 DEF SelectItem
  <2>4. proc'[p].item = j /\ proc'[p].app = proc[p].app
    BY <2>1, <2>3 DEF ProcRow
  <2>5. AppOfItem(j) = proc[p].app /\ \A i \in Item : Untimed(i, proc[p].app) => j <= i
    BY DEF Candidates, ItemsOf, Untimed
  <2>6. \A i \in Item : UntimedThen(i, proc[p].app) => Untimed(i, proc[p].app)
    BY <2>1 DEF Untimed, UntimedThen, AppOfItem
  <2> QED BY <2>1, <2>4, <2>5, <2>6 DEF AppOfItem
<1>2. CASE /\ proc[p].at \in {"create", "mark"}
           /\ proc'[p].item = proc[p].item /\ proc'[p].app = proc[p].app
  <2> DEFINE k == proc[p].item
             app == proc[p].app
  <2>1. /\ AppOfItem(k) = app
        /\ \A i \in Item : Untimed(i, app) => k <= i
    BY <1>2 DEF Ordered, Chosen
  <2>2. k \in Item /\ item[k].status # "none"
    BY <1>2, Typed DEF Inv, ProcRow, ProcKnown, HasItem
  <2>3. item'[k].rel = item[k].rel
    BY <1>0, <2>2, ItemsStay
  <2>4. ASSUME NEW i \in Item, item[i].status = "none"
        PROVE  k <= i
    BY <2>2, <2>4 DEF Ordered, Prefix, Item
  <2>5. ASSUME NEW i \in Item, UntimedThen(i, app)
        PROVE  k <= i
    <3>1. Untimed(i, app) \/ item[i].status = "none"
      BY <1>0, <2>5, StillUntimed
    <3> QED BY <2>1, <2>4, <3>1
  <2>6. AppOf[item'[k].rel] = app
    BY <2>1, <2>3 DEF AppOfItem
  <2> QED BY <1>2, <2>5, <2>6
<1>3. CASE CreateTask(p) /\ proc'[p].item = proc[p].item /\ proc'[p].app = proc[p].app
  BY <1>2, <1>3 DEF CreateTask
<1> QED BY <1>1, <1>2, <1>3, ChoiceMoves

LEMMA OrderStep ==
    ASSUME Inv, Ordered, [Next]_vars
    PROVE  StartedInOrder'
<1>0. ItemsStep
  BY ItemMoves
<1> SUFFICES ASSUME NEW i \in Item, NEW j \in Item,
                    item'[i].status = "queued", ~item'[i].timed, item'[j].status = "running",
                    AppOf[item'[i].rel] = AppOf[item'[j].rel]
             PROVE  j < i
  BY DEF StartedInOrder, AppOfItem
<1> DEFINE app == AppOf[item'[i].rel]
<1>1. Untimed(i, app) \/ item[i].status = "none"
  <2>1. CASE item'[i] = item[i]
    BY <2>1 DEF Untimed, AppOfItem
  <2>2. CASE Enqueued(i)
    BY <2>2 DEF Enqueued, NewItem
  <2>3. CASE Due(i)
    BY <2>3 DEF Due, Kept, Inv, ItemKnown
  <2> QED BY <1>0, <2>1, <2>2, <2>3 DEF ItemsStep, RowStep, Bind, Closed
<1>2. item'[j] = item[j] \/ Bind(j)
  BY <1>0 DEF ItemsStep, RowStep, Enqueued, Due, Closed
<1>3. item[j].status \in {"queued", "running"} /\ i # j /\ item'[j].rel = item[j].rel
  BY <1>2 DEF Bind
<1>4. CASE item[i].status = "none"
  BY <1>3, <1>4 DEF Ordered, Prefix, Item
<1>5. CASE Untimed(i, app) /\ item'[j] = item[j]
  BY <1>3, <1>5 DEF Ordered, StartedInOrder, Untimed, AppOfItem
<1>6. CASE Untimed(i, app) /\ Bind(j)
  <2>1. PICK p \in Proc : proc[p].at = "mark" /\ proc[p].item = j
    BY <1>6 DEF Bind
  <2>2. /\ AppOfItem(j) = proc[p].app
        /\ \A k \in Item : Untimed(k, proc[p].app) => j <= k
    BY <2>1 DEF Ordered, Chosen
  <2>3. app = proc[p].app
    BY <1>3, <2>2 DEF AppOfItem
  <2>4. j <= i
    BY <1>6, <2>2, <2>3
  <2> QED BY <1>3, <2>4 DEF Item
<1> QED BY <1>1, <1>2, <1>4, <1>5, <1>6

LEMMA OrderedAlways == Spec => []Ordered
<1>1. Init => Ordered
  BY DEF Init, Ordered, Prefix, StartedInOrder, Chosen, IdleProc
<1>2. Inv /\ Ordered /\ [Next]_vars => Ordered'
  <2> SUFFICES ASSUME Inv, Ordered, [Next]_vars
               PROVE  Ordered'
    OBVIOUS
  <2>1. Prefix'
    BY ItemMoves, PrefixStep DEF Ordered
  <2>2. ASSUME NEW p \in Proc
        PROVE  Chosen(proc[p])'
    <3>1. ChosenThen(p)
      BY ChosenStep
    <3> QED BY <3>1 DEF Chosen, ChosenThen, Untimed, UntimedThen, AppOfItem
  <2> QED BY <2>1, <2>2, OrderStep DEF Ordered
<1> QED BY <1>1, <1>2, Invariance, PTL DEF Spec

\* No item runs while one of its application that was published before it still
\* waits, although the dispatch selects its item some statements before
\* mark_running starts it, and a timer and two workers run in between.
THEOREM InOrder == Spec => []StartedInOrder
<1>1. Ordered => StartedInOrder
  BY DEF Ordered
<1> QED BY <1>1, OrderedAlways, PTL
=============================================================================
