---------------------------- MODULE ReleaseQueue ----------------------------
(***************************************************************************)
(* The release pipeline of single-unit applications (api/src/apps.rs): a    *)
(* release is queued by an upload, an operator or a timer; a dispatcher     *)
(* makes a task of the first queued item of an application and hands a job  *)
(* to the compose worker over a bounded channel; the worker dispatches the  *)
(* next item itself when a job succeeds.  Nothing holds a lock: every       *)
(* process looks at the rows, and writes them some statements later.        *)
(*                                                                          *)
(* Left out: runtime states of nodes, configuration snapshots' content,     *)
(* logs, phases and the steps of a deployment, which is one step with an    *)
(* outcome; database errors; applications that are disabled or whose        *)
(* snapshot, targets or directory are missing.                              *)
(***************************************************************************)
EXTENDS Integers, Sequences, FiniteSets

CONSTANTS
    App,          \* apps
    Release,      \* app_releases
    AppOf,        \* the application of each release
    Client,       \* requests that may be in progress at a time
    Capacity,     \* COMPOSE_TASK_QUEUE_CAPACITY, of either channel
    MaxItems,     \* bound: rows of app_release_queue
    MaxTasks,     \* bound: rows of operation_tasks
    MaxCrashes,   \* bound: restarts of the process
    Requests,     \* which requests this instance makes
    Outcomes      \* how a deployment may end: of "success" and "failed"

Item == 1 .. MaxItems
Task == 1 .. MaxTasks
Proc == {"dispatcher", "worker"}

RequestKinds == {"receive", "publish", "schedule", "unschedule", "cancel", "cancel task", "compose"}

ASSUME QueueAssumption ==
    /\ AppOf \in [Release -> App]
    /\ "none" \notin Release \cup App
    /\ Capacity \in Nat \ {0}
    /\ MaxItems \in Nat /\ MaxTasks \in Nat /\ MaxCrashes \in Nat
    /\ Requests \subseteq RequestKinds
    /\ Outcomes \subseteq {"success", "failed"}

VARIABLES
    \* the database
    release,     \* app_releases.status
    item,        \* app_release_queue, in the order of queue_seq
    task,        \* operation_tasks of this pipeline
    \* the process
    up,          \* "down", start-up ("recover", "announce", "tell"), or "up"
    tell,        \* applications start-up has still to announce
    client,      \* requests between two of their statements
    timer,       \* release_schedule_worker
    dispatches,  \* channel to release_dispatch_worker
    jobs,        \* channel to compose_task_worker
    proc,        \* the two workers
    crashes

dbVars == <<release, item, task>>
vars == <<release, item, task, up, tell, client, timer, dispatches, jobs, proc, crashes>>

Active == {"queued", "running"}
AppOfItem(i) == AppOf[item[i].rel]
ItemsOf(app) == {i \in Item : item[i].status # "none" /\ AppOfItem(i) = app}

\* the item a task was made for, while it counts as active
Bound_Queued(t) == {i \in Item : item[i].task = t /\ item[i].status = "queued"}
Bound(t) == {i \in Item : item[i].task = t /\ item[i].status \in Active}

\* the next AUTOINCREMENT id, if the bound leaves one
NewItem == {i \in Item : item[i].status = "none" /\ \A j \in 1 .. i - 1 : item[j].status # "none"}
NewTask == {t \in Task : task[t].status = "none" /\ \A s \in 1 .. t - 1 : task[s].status # "none"}

\* enqueue_app_release; idx_app_release_queue_unique_active_release covers no
\* scheduled row
Enqueue(i, rel, status) ==
    [item EXCEPT ![i] = [rel |-> rel, status |-> status, task |-> 0,
                         timed |-> status = "scheduled"]]   \* timed: for StartedInOrder only
AlreadyActive(rel) == \E i \in Item : item[i].rel = rel /\ item[i].status \in Active

\* Mutant: the trigger looks at the task that runs only
TaskActive_Running(app) == \E t \in Task : task[t].app = app /\ task[t].status = "running"

\* trg_operation_tasks_reject_active_deploy_environment
TaskActive(app) == \E t \in Task : task[t].app = app /\ task[t].status \in Active

IdleClient == [at |-> "idle", rel |-> "none", id |-> 0]
IdleTimer == [todo |-> {}, apps |-> {}]
IdleProc == [at |-> "idle", app |-> "none", item |-> 0, task |-> 0, outcome |-> "none"]

Init ==
    /\ release = [rel \in Release |-> "none"]
    /\ item = [i \in Item |-> [rel |-> "none", status |-> "none", task |-> 0, timed |-> FALSE]]
    /\ task = [t \in Task |-> [app |-> "none", status |-> "none"]]
    /\ up = "up"
    /\ tell = {}
    /\ client = [c \in Client |-> IdleClient]
    /\ timer = IdleTimer
    /\ dispatches = <<>>
    /\ jobs = <<>>
    /\ proc = [p \in Proc |-> IdleProc]
    /\ crashes = 0
-----------------------------------------------------------------------------
(* Requests. *)

Request(c, kind) == up = "up" /\ client[c].at = "idle" /\ kind \in Requests

Continue(c, at, rel, id) == client' = [client EXCEPT ![c] = [at |-> at, rel |-> rel, id |-> id]]

\* upload_release_package: the release, and its queue item if the application
\* queues what it receives
Receive(c, rel) ==
    /\ Request(c, "receive")
    /\ release[rel] = "none"
    /\ \/ /\ release' = [release EXCEPT ![rel] = "received"]
          /\ UNCHANGED <<item, client>>
       \/ \E i \in NewItem :
             /\ release' = [release EXCEPT ![rel] = "queued"]
             /\ item' = Enqueue(i, rel, "queued")
             /\ Continue(c, "notify", rel, 0)
    /\ UNCHANGED <<task, up, tell, timer, dispatches, jobs, proc, crashes>>

\* publish_release_now and schedule_release_publish look at the release ...
Publishable(rel) == release[rel] \notin {"none", "queued", "deploying"}

PublishRead(c, rel) ==
    /\ Request(c, "publish")
    /\ Publishable(rel)
    /\ ~\E t \in Task : task[t] = [app |-> AppOf[rel], status |-> "running"]
    /\ Continue(c, "publish", rel, 0)
    /\ UNCHANGED <<dbVars, up, tell, timer, dispatches, jobs, proc, crashes>>

ScheduleRead(c, rel) ==
    /\ Request(c, "schedule")
    /\ Publishable(rel)
    /\ Continue(c, "schedule", rel, 0)
    /\ UNCHANGED <<dbVars, up, tell, timer, dispatches, jobs, proc, crashes>>

\* ... and write in a transaction; a release that is active already gets no second
\* item, but its status is written all the same
PublishCommit(c) ==
    LET rel == client[c].rel
    IN  /\ client[c].at = "publish"
        /\ IF AlreadyActive(rel) THEN UNCHANGED item
           ELSE \E i \in NewItem : item' = Enqueue(i, rel, "queued")
        /\ release' = [release EXCEPT ![rel] = "queued"]
        /\ Continue(c, "notify", rel, 0)
        /\ UNCHANGED <<task, up, tell, timer, dispatches, jobs, proc, crashes>>

ScheduleCommit(c) ==
    LET rel == client[c].rel
    IN  /\ client[c].at = "schedule"
        /\ \E i \in NewItem : item' = Enqueue(i, rel, "scheduled")
        /\ release' = [release EXCEPT ![rel] = "queued"]
        /\ client' = [client EXCEPT ![c] = IdleClient]
        /\ UNCHANGED <<task, up, tell, timer, dispatches, jobs, proc, crashes>>

\* enqueue_release_dispatch, at the end of most requests
Notify_Unbounded(c) ==
    /\ client[c].at = "notify"
    /\ dispatches' = Append(dispatches, AppOf[client[c].rel])
    /\ client' = [client EXCEPT ![c] = IdleClient]
    /\ UNCHANGED <<dbVars, up, tell, timer, jobs, proc, crashes>>

Notify(c) ==
    /\ client[c].at = "notify"
    /\ Len(dispatches) < Capacity
    /\ dispatches' = Append(dispatches, AppOf[client[c].rel])
    /\ client' = [client EXCEPT ![c] = IdleClient]
    /\ UNCHANGED <<dbVars, up, tell, timer, jobs, proc, crashes>>

\* cancel_scheduled_release
CancelScheduled(c, rel) ==
    /\ Request(c, "unschedule")
    /\ \E i \in Item : item[i].rel = rel /\ item[i].status = "scheduled"
    /\ item' = [i \in Item |-> IF item[i].rel = rel /\ item[i].status = "scheduled"
                               THEN [item[i] EXCEPT !.status = "canceled"] ELSE item[i]]
    /\ release' = [release EXCEPT ![rel] = "received"]
    /\ UNCHANGED <<task, up, tell, client, timer, dispatches, jobs, proc, crashes>>

\* cancel_release_queue_item looks at the status ...
CancelItemRead(c, i) ==
    /\ Request(c, "cancel")
    /\ item[i].status \in {"queued", "scheduled"}
    /\ Continue(c, "cancel", item[i].rel, i)
    /\ UNCHANGED <<dbVars, up, tell, timer, dispatches, jobs, proc, crashes>>

\* ... and writes without looking again
CancelItemCommit(c) ==
    LET i == client[c].id
    IN  /\ client[c].at = "cancel"
        /\ item' = [item EXCEPT ![i].status = "canceled"]
        /\ release' = [release EXCEPT ![item[i].rel] = "received"]
        /\ Continue(c, "notify", client[c].rel, 0)
        /\ UNCHANGED <<task, up, tell, timer, dispatches, jobs, proc, crashes>>

\* cancel_queued_task: the task first, by a guarded update ...
Cancelable_Running(t) == task[t].status \in Active
Cancelable(t) == task[t].status = "queued"

CancelTask(c, t) ==
    /\ Request(c, "cancel task")
    /\ Cancelable(t)
    /\ task' = [task EXCEPT ![t].status = "canceled"]
    /\ Continue(c, "cancel task", "none", t)
    /\ UNCHANGED <<release, item, up, tell, timer, dispatches, jobs, proc, crashes>>

\* ... then the queue item that is bound to it, if one is; nothing is dispatched
CancelTaskCommit(c) ==
    LET bound == Bound(client[c].id)
    IN  /\ client[c].at = "cancel task"
        /\ item' = [i \in Item |-> IF i \in bound THEN [item[i] EXCEPT !.status = "canceled"]
                                   ELSE item[i]]
        /\ release' = [rel \in Release |-> IF \E i \in bound : item[i].rel = rel
                                           THEN "received" ELSE release[rel]]
        /\ client' = [client EXCEPT ![c] = IdleClient]
        /\ UNCHANGED <<task, up, tell, timer, dispatches, jobs, proc, crashes>>

\* run_compose_task and retry_compose_task: a task without a queue item ...
SubmitCompose(c, app) ==
    /\ Request(c, "compose")
    /\ ~TaskActive(app)
    /\ \E t \in NewTask :
          /\ task' = [task EXCEPT ![t] = [app |-> app, status |-> "queued"]]
          /\ Continue(c, "job", "none", t)
    /\ UNCHANGED <<release, item, up, tell, timer, dispatches, jobs, proc, crashes>>

\* ... and its job
SendJob(c) ==
    LET t == client[c].id
    IN  /\ client[c].at = "job"
        /\ Len(jobs) < Capacity
        /\ jobs' = Append(jobs, [app |-> task[t].app, item |-> 0, task |-> t])
        /\ client' = [client EXCEPT ![c] = IdleClient]
        /\ UNCHANGED <<dbVars, up, tell, timer, dispatches, proc, crashes>>
-----------------------------------------------------------------------------
(* The timer: release_schedule_worker, enqueue_due_scheduled_releases. *)

\* some of the scheduled items are due
TimerReads(due) ==
    /\ up # "down"
    /\ timer = IdleTimer
    /\ due # {}
    /\ timer' = [todo |-> due, apps |-> {}]
    /\ UNCHANGED <<dbVars, up, tell, client, dispatches, jobs, proc, crashes>>

\* they are queued one by one; the unique index ends the whole pass with an error
TimerQueues(i) ==
    /\ i \in timer.todo
    /\ IF item[i].status # "scheduled"
       THEN /\ timer' = [timer EXCEPT !.todo = @ \ {i}]
            /\ UNCHANGED item
       ELSE IF AlreadyActive(item[i].rel)
       THEN /\ timer' = IdleTimer
            /\ UNCHANGED item
       ELSE /\ timer' = [todo |-> timer.todo \ {i}, apps |-> timer.apps \cup {AppOfItem(i)}]
            /\ item' = [item EXCEPT ![i].status = "queued"]
    /\ UNCHANGED <<release, task, up, tell, client, dispatches, jobs, proc, crashes>>

TimerNotifies(app) ==
    /\ timer.todo = {}
    /\ app \in timer.apps
    /\ Len(dispatches) < Capacity
    /\ dispatches' = Append(dispatches, app)
    /\ timer' = [timer EXCEPT !.apps = @ \ {app}]
    /\ UNCHANGED <<dbVars, up, tell, client, jobs, proc, crashes>>
-----------------------------------------------------------------------------
(* dispatch_next_release_for_app, run by the dispatcher or by the worker. *)

Goto(p, at) == proc' = [proc EXCEPT ![p].at = at]
Rest(p) == proc' = [proc EXCEPT ![p] = IdleProc]

TakeDispatch ==
    /\ proc["dispatcher"].at = "idle"
    /\ dispatches # <<>>
    /\ dispatches' = Tail(dispatches)
    /\ proc' = [proc EXCEPT !["dispatcher"] = [IdleProc EXCEPT !.at = "check", !.app = Head(dispatches)]]
    /\ UNCHANGED <<dbVars, up, tell, client, timer, jobs, crashes>>

CheckRunning(p) ==
    /\ proc[p].at = "check"
    /\ IF \E i \in ItemsOf(proc[p].app) : item[i].status = "running" THEN Rest(p) ELSE Goto(p, "select")
    /\ UNCHANGED <<dbVars, up, tell, client, timer, dispatches, jobs, crashes>>

\* the queued item with the least queue_seq
Candidates_Any(app) == {i \in ItemsOf(app) : item[i].status = "queued"}
Candidates(app) ==
    {i \in ItemsOf(app) : /\ item[i].status = "queued"
                          /\ \A j \in ItemsOf(app) : item[j].status = "queued" => i <= j}

SelectItem(p) ==
    /\ proc[p].at = "select"
    /\ IF Candidates(proc[p].app) = {} THEN Rest(p)
       ELSE \E i \in Candidates(proc[p].app) :
               proc' = [proc EXCEPT ![p] = [@ EXCEPT !.at = "create", !.item = i]]
    /\ UNCHANGED <<dbVars, up, tell, client, timer, dispatches, jobs, crashes>>

\* create_task, which the trigger refuses while the application has an active task
CreateTask(p) ==
    /\ proc[p].at = "create"
    /\ IF TaskActive(proc[p].app) THEN Rest(p) /\ UNCHANGED task
       ELSE \E t \in NewTask :
               /\ task' = [task EXCEPT ![t] = [app |-> proc[p].app, status |-> "queued"]]
               /\ proc' = [proc EXCEPT ![p] = [@ EXCEPT !.at = "mark", !.task = t]]
    /\ UNCHANGED <<release, item, up, tell, client, timer, dispatches, jobs, crashes>>

\* mark_release_queue_running looks at its own row only: another item of the application
\* may be running still (idx_app_release_queue_single_running_environment leaves out
\* rows without an environment, which all rows of this pipeline are)
Markable(i) == item[i].status = "queued"

MarkRunning(p) ==
    LET i == proc[p].item
    IN  /\ proc[p].at = "mark"
        /\ IF ~Markable(i) THEN Goto(p, "undo") /\ UNCHANGED item
           ELSE /\ item' = [item EXCEPT ![i] = [@ EXCEPT !.status = "running", !.task = proc[p].task]]
                /\ Goto(p, "deploying")
        /\ UNCHANGED <<release, task, up, tell, client, timer, dispatches, jobs, crashes>>

\* fail_task on the task that found its item gone
UndoTask(p) ==
    /\ proc[p].at = "undo"
    /\ task' = [task EXCEPT ![proc[p].task].status = "failed"]
    /\ Rest(p)
    /\ UNCHANGED <<release, item, up, tell, client, timer, dispatches, jobs, crashes>>

\* UPDATE app_releases SET status = 'deploying', whatever happened meanwhile
MarkDeploying(p) ==
    /\ proc[p].at = "deploying"
    /\ release' = [release EXCEPT ![item[proc[p].item].rel] = "deploying"]
    /\ Goto(p, "send")
    /\ UNCHANGED <<item, task, up, tell, client, timer, dispatches, jobs, crashes>>

\* waits while the channel is full, also when p is the one who reads it
SendDispatched(p) ==
    /\ proc[p].at = "send"
    /\ Len(jobs) < Capacity
    /\ jobs' = Append(jobs, [app |-> proc[p].app, item |-> proc[p].item, task |-> proc[p].task])
    /\ Rest(p)
    /\ UNCHANGED <<dbVars, up, tell, client, timer, dispatches, crashes>>

Dispatch(p) ==
    \/ CheckRunning(p) \/ SelectItem(p) \/ CreateTask(p) \/ MarkRunning(p)
    \/ UndoTask(p) \/ MarkDeploying(p) \/ SendDispatched(p)
-----------------------------------------------------------------------------
(* compose_task_worker, run_compose_task_job. *)

W == proc["worker"]

\* mark_running: only a task that is still queued; the next job otherwise
TakeJob ==
    LET job == Head(jobs)
    IN  /\ W.at = "idle"
        /\ jobs # <<>>
        /\ jobs' = Tail(jobs)
        /\ IF task[job.task].status = "queued"
           THEN /\ task' = [task EXCEPT ![job.task].status = "running"]
                /\ proc' = [proc EXCEPT !["worker"] = [at |-> "run", app |-> job.app, item |-> job.item,
                                                       task |-> job.task, outcome |-> "none"]]
           ELSE UNCHANGED <<task, proc>>
        /\ UNCHANGED <<release, item, up, tell, client, timer, dispatches, crashes>>

\* the deployment on all nodes comes to its end, or is given up before it starts
Deploy(outcome) ==
    /\ W.at = "run"
    /\ \/ /\ proc' = [proc EXCEPT !["worker"] = [W EXCEPT !.at = "task", !.outcome = outcome]]
       \/ /\ outcome = "failed"
          /\ proc' = [proc EXCEPT !["worker"] = [W EXCEPT !.at = "preflight", !.outcome = outcome]]
    /\ UNCHANGED <<dbVars, up, tell, client, timer, dispatches, jobs, crashes>>

\* finish_with_compose_output, whatever the task's status
FinishTask_Guarded ==
    /\ W.at = "task"
    /\ task' = IF task[W.task].status = "running" THEN [task EXCEPT ![W.task].status = W.outcome] ELSE task
    /\ Goto("worker", IF W.item # 0 THEN "item" ELSE IF W.outcome = "success" THEN "check" ELSE "rest")
    /\ UNCHANGED <<release, item, up, tell, client, timer, dispatches, jobs, crashes>>

FinishTask ==
    /\ W.at = "task"
    /\ task' = [task EXCEPT ![W.task].status = W.outcome]
    /\ Goto("worker", IF W.item # 0 THEN "item" ELSE IF W.outcome = "success" THEN "check" ELSE "rest")
    /\ UNCHANGED <<release, item, up, tell, client, timer, dispatches, jobs, crashes>>

\* finish_release_queue_item: the item, whatever its status, then the release
FinishItem ==
    /\ W.at = "item"
    /\ item' = [item EXCEPT ![W.item].status = W.outcome]
    /\ Goto("worker", "release")
    /\ UNCHANGED <<release, task, up, tell, client, timer, dispatches, jobs, crashes>>

FinishRelease ==
    /\ W.at = "release"
    /\ release' = [release EXCEPT ![item[W.item].rel] = IF W.outcome = "success" THEN "deployed" ELSE "failed"]
    /\ Goto("worker", IF W.outcome = "success" THEN "check" ELSE "rest")
    /\ UNCHANGED <<item, task, up, tell, client, timer, dispatches, jobs, crashes>>

\* fail_compose_task: the item bound to the task, if it is still active, and its
\* release; then the task
FailPreflight ==
    LET bound == Bound(W.task)
    IN  /\ W.at = "preflight"
        /\ item' = [i \in Item |-> IF i \in bound THEN [item[i] EXCEPT !.status = "failed"] ELSE item[i]]
        /\ Goto("worker", IF bound = {} THEN "fail task" ELSE "fail release")
        /\ UNCHANGED <<release, task, up, tell, client, timer, dispatches, jobs, crashes>>

FailRelease ==
    /\ W.at = "fail release"
    /\ release' = [release EXCEPT ![item[W.item].rel] = "failed"]
    /\ Goto("worker", "fail task")
    /\ UNCHANGED <<item, task, up, tell, client, timer, dispatches, jobs, crashes>>

FailTask ==
    /\ W.at = "fail task"
    /\ task' = [task EXCEPT ![W.task].status = "failed"]
    /\ Goto("worker", "rest")
    /\ UNCHANGED <<release, item, up, tell, client, timer, dispatches, jobs, crashes>>

\* back to recv; only a success has gone on to "check" instead
NextJob ==
    /\ W.at = "rest"
    /\ Rest("worker")
    /\ UNCHANGED <<dbVars, up, tell, client, timer, dispatches, jobs, crashes>>
-----------------------------------------------------------------------------
(* Restart. *)

Crash ==
    /\ up # "down"
    /\ crashes < MaxCrashes
    /\ crashes' = crashes + 1
    /\ up' = "down"
    /\ tell' = {}
    /\ client' = [c \in Client |-> IdleClient]
    /\ timer' = IdleTimer
    /\ dispatches' = <<>>
    /\ jobs' = <<>>
    /\ proc' = [p \in Proc |-> IdleProc]
    /\ UNCHANGED dbVars

\* AppService::new starts the workers and the timer, then recovers
Start ==
    /\ up = "down"
    /\ up' = "recover"
    /\ UNCHANGED <<dbVars, tell, client, timer, dispatches, jobs, proc, crashes>>

\* recover_interrupted_work: everything in progress has failed
Interrupted_Active(i) ==
    item[i].status \in Active /\ item[i].task # 0 /\ task[item[i].task].status \in Active
Interrupted(i) ==
    \/ item[i].status = "running"
    \/ item[i].status = "queued" /\ item[i].task # 0 /\ task[item[i].task].status \in Active

AfterRestart_Requeue(row) == [row EXCEPT !.status = "queued"]
AfterRestart(row) == [row EXCEPT !.status = "failed"]

Recover ==
    /\ up = "recover"
    /\ up' = "announce"
    /\ task' = [t \in Task |-> IF task[t].status \in Active THEN [task[t] EXCEPT !.status = "failed"]
                               ELSE task[t]]
    /\ item' = [i \in Item |-> IF Interrupted(i) THEN AfterRestart(item[i]) ELSE item[i]]
    /\ release' = [rel \in Release |-> IF \E i \in Item : item[i].rel = rel /\ Interrupted(i)
                                       THEN "failed" ELSE release[rel]]
    /\ UNCHANGED <<tell, client, timer, dispatches, jobs, proc, crashes>>

\* ... then the applications with queued items are dispatched
Announced_None == {}
Announced == {app \in App : \E i \in ItemsOf(app) : item[i].status = "queued"}

Announce ==
    /\ up = "announce"
    /\ up' = "tell"
    /\ tell' = Announced
    /\ UNCHANGED <<dbVars, client, timer, dispatches, jobs, proc, crashes>>

Tell(app) ==
    /\ up = "tell"
    /\ app \in tell
    /\ Len(dispatches) < Capacity
    /\ dispatches' = Append(dispatches, app)
    /\ tell' = tell \ {app}
    /\ UNCHANGED <<dbVars, up, client, timer, jobs, proc, crashes>>

Serve ==
    /\ up = "tell"
    /\ tell = {}
    /\ up' = "up"
    /\ UNCHANGED <<dbVars, tell, client, timer, dispatches, jobs, proc, crashes>>
-----------------------------------------------------------------------------
Scheduled == {i \in Item : item[i].status = "scheduled"}

\* what an accepted request still has to do
Handler(c) ==
    \/ PublishCommit(c) \/ ScheduleCommit(c) \/ Notify(c)
    \/ CancelItemCommit(c) \/ CancelTaskCommit(c) \/ SendJob(c)

Timer == (\E i \in Item : TimerQueues(i)) \/ (\E app \in App : TimerNotifies(app))

Worker ==
    \/ TakeJob \/ FinishTask \/ FinishItem \/ FinishRelease \/ FailPreflight
    \/ FailRelease \/ FailTask \/ NextJob \/ \E outcome \in Outcomes : Deploy(outcome)

Recovery == Start \/ Recover \/ Announce \/ Serve \/ \E app \in App : Tell(app)

Next ==
    \/ \E c \in Client : \/ \E rel \in Release : \/ Receive(c, rel) \/ PublishRead(c, rel)
                                                 \/ ScheduleRead(c, rel) \/ CancelScheduled(c, rel)
                         \/ \E i \in Item : CancelItemRead(c, i)
                         \/ \E t \in Task : CancelTask(c, t)
                         \/ \E app \in App : SubmitCompose(c, app)
                         \/ Handler(c)
    \/ \E due \in SUBSET Scheduled : TimerReads(due)
    \/ Timer
    \/ TakeDispatch
    \/ \E p \in Proc : Dispatch(p)
    \/ Worker
    \/ Crash
    \/ Recovery

Spec == Init /\ [][Next]_vars

\* tokio runs every task that can go on; a request is not dropped half-way
FairSpec ==
    /\ Spec
    /\ \A c \in Client : WF_vars(Handler(c))
    /\ WF_vars(Timer) /\ WF_vars(TakeDispatch) /\ WF_vars(Worker) /\ WF_vars(Recovery)
    /\ \A p \in Proc : WF_vars(Dispatch(p))
-----------------------------------------------------------------------------
(* Properties. *)

Steps == {"idle", "check", "select", "create", "mark", "undo", "deploying", "send", "run", "task",
          "item", "release", "preflight", "fail release", "fail task", "rest"}

\* Every row and every process record is well formed.
TypeOK ==
    /\ release \in [Release -> {"none", "received", "queued", "deploying", "deployed", "failed"}]
    /\ item \in [Item -> [rel : Release \cup {"none"}, task : Task \cup {0}, timed : BOOLEAN,
                          status : {"none", "scheduled", "queued", "running", "success", "failed",
                                    "canceled"}]]
    /\ task \in [Task -> [app : App \cup {"none"},
                          status : Active \cup {"none", "success", "failed", "canceled"}]]
    /\ up \in {"down", "recover", "announce", "tell", "up"}
    /\ tell \subseteq App
    /\ client \in [Client -> [at : {"idle", "publish", "schedule", "notify", "cancel", "cancel task", "job"},
                              rel : Release \cup {"none"}, id : Item \cup Task \cup {0}]]
    /\ timer \in [todo : SUBSET Item, apps : SUBSET App]
    /\ dispatches \in Seq(App) /\ Len(dispatches) <= Capacity
    /\ jobs \in Seq([app : App, item : Item \cup {0}, task : Task]) /\ Len(jobs) <= Capacity
    /\ proc \in [Proc -> [at : Steps, app : App \cup {"none"}, item : Item \cup {0},
                          task : Task \cup {0}, outcome : {"none", "success", "failed"}]]
    /\ crashes \in 0 .. MaxCrashes

\* Releases of an application are started in the order of the queue, by whichever
\* worker: no item runs while one that was queued before it still waits.  Items the
\* timer queued late may be overtaken.
StartedInOrder ==
    \A i, j \in Item :
        /\ item[i].status = "queued" /\ ~item[i].timed
        /\ item[j].status = "running" /\ AppOfItem(i) = AppOfItem(j)
        => j < i

\* What the worker is doing to the targets is on record as running; recovery alone,
\* which it may race, calls it failed.  Cancelling never hides work in progress.
WorkIsOnRecord ==
    W.at = "run" => \/ task[W.task].status = "running"
                    \/ crashes > 0 /\ task[W.task].status = "failed"

\* A queue item is carried out at most once, whoever dispatches it and however often
\* the process restarts: it starts from the queue, and never comes back to it.
StartedOnce ==
    [][\A i \in Item :
          /\ item[i].status # "running" /\ item'[i].status = "running" => item[i].status = "queued"
          /\ item'[i].status \in {"scheduled", "queued"}
                => item[i].status \in {"none", "scheduled", "queued"}]_vars

\* A release is called published only if its task is called successful, although the
\* two are written one after the other, around restarts and recovery.
SuccessIsBacked ==
    \A i \in Item : item[i].status = "success" => task[item[i].task].status = "success"

\* Two items of an application may be on record as running: the dispatcher starts one
\* between the end of the task of the item before and the end of that item, and no
\* index forbids it.  But never have both a task that is still to be carried out: what
\* is on its way to the targets of an application is one release.
OneDeploymentAtATime ==
    \A i, j \in Item :
        /\ i # j /\ item[i].status = "running" /\ item[j].status = "running"
        /\ AppOfItem(i) = AppOfItem(j)
        => task[item[i].task].status \notin Active \/ task[item[j].task].status \notin Active

\* A running item, at the sight of which no dispatcher starts another of its
\* application, is being carried out: its job waits, or a worker has it.  Left behind
\* are only an item whose task was cancelled before it was bound, and one that start-up
\* recovery overtook while it was being dispatched.
CarriedBy(t) ==
    \/ \E k \in DOMAIN jobs : jobs[k].task = t
    \/ \E p \in Proc : proc[p].task = t
LeftBehind(i) ==
    /\ item[i].status = "running"
    /\ \/ task[item[i].task].status = "canceled"
       \/ crashes > 0 /\ task[item[i].task].status = "failed"
RunningIsCarried ==
    \A i \in Item : item[i].status = "running" =>
        CarriedBy(item[i].task) \/ LeftBehind(i) \/ up \in {"down", "recover"}

\* The queue does not stop while there is something in it, also when the process
\* restarts between the row and the message: a queued item leaves the queue, unless the
\* last task of its application failed or was cancelled (the queue then waits for an
\* operator), an item was left behind, or the bound on tasks is used up.
LastTaskFailed(app) ==
    \E t \in Task : /\ task[t].app = app /\ task[t].status \in {"failed", "canceled"}
                   /\ \A s \in t + 1 .. MaxTasks : task[s].app # app
QueueMovesOn ==
    \A i \in Item :
        []<>(\/ item[i].status # "queued"
             \/ LastTaskFailed(AppOfItem(i))
             \/ \E j \in ItemsOf(AppOfItem(i)) : LeftBehind(j)
             \/ \E p \in Proc : proc[p].at = "create" /\ NewTask = {})

\* What the plans and tests promise.

\* "A failed queue item blocks the later versions until an operator retries or cancels"
\* (docs/plans/2026-07-03-001-feat-qfy-sc-template-alignment-plan.md:200): nothing of the
\* application runs behind an item whose release is still failed.
FailureStopsQueue ==
    \A i, j \in Item :
        /\ i < j /\ item[i].status = "failed" /\ release[item[i].rel] = "failed"
        /\ item[j].status = "running" /\ item[j].rel # item[i].rel
        => AppOfItem(i) # AppOfItem(j)

\* "canceling a dispatched release task cancels its queue" (apps.rs:15273): once
\* everything has come to rest, no item runs whose task is cancelled.
Quiet ==
    /\ up = "up" /\ dispatches = <<>> /\ jobs = <<>> /\ timer = IdleTimer
    /\ \A c \in Client : client[c] = IdleClient
    /\ \A p \in Proc : proc[p] = IdleProc
CancelReachesQueue ==
    Quiet => \A i \in Item : item[i].status = "running" => task[item[i].task].status # "canceled"

\* "recovery marks interrupted release work failed and releases the app lock"
\* (apps.rs:15354): at rest after a restart, no item runs whose task has failed.
RecoveryReleasesQueue ==
    Quiet => \A i \in Item : item[i].status = "running" => task[item[i].task].status # "failed"
=============================================================================
