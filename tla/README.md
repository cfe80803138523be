# TaskTiger in TLA+

TaskTiger (`src/tasktiger`) is a Python task queue. Clients put tasks into Redis,
worker processes take them out, execute them in a child process, and retry, fail
or expire them. There is no server but Redis: everything that clients and workers
agree on is agreed on through a dozen Lua scripts and MULTI pipelines, and every
step between two of them can be interleaved with the steps of every other process,
or never happen because the process was killed. That is what these modules are about.

## 1. The system

| Component | State | Operations | Interacts through | What makes it correct |
|---|---|---|---|---|
| Task store: `redis_scripts.py`, `lua/move_task.lua` | per queue four sorted sets (queued, active, scheduled, error); per state the index of the queues with tasks in it; per task an object, a list of executions, their number | `zpoppush`, `move_task`, `get_expired_tasks`, `zadd` modes, the pipeline of `delay` | every other component calls it | indexes match the sorted sets; an object exists while a queue holds its task; executions survive while the task is in the error set |
| Task API: `task.py`, `tasktiger.py` | none of its own | `delay`, `retry`, `cancel`, `delete`, `update_scheduled_time`, `from_id`, `tasks_from_queue` | the store | a request is executed, given up by a client, or visible |
| Worker, a batch: `worker.py` 460-838 | the batch and the outcome of each task | pop, load, drop stubs, lock, execute, finish | store, task locks, executor | no task executed by two live workers; locks exclude; nothing unhandled |
| Worker, maintenance: `worker.py` 169-215, 283-356 | list of expired entries | queue scheduled tasks, requeue or fail expired ones | store, two locks that space it out | active entries of dead workers leave the active set, once |
| Worker loop: `worker.py` 217-281, 436-458, 840-1038 | the set of queues the worker knows | poll, or subscribe and listen | the activity channel, the index of queued queues | no queue with tasks is forgotten |
| Executors: `executor.py` | child process, heartbeat thread | fork, heartbeat, hard timeout, kill | store, locks, semaphore | heartbeats while the task executes, and none later; a hung child is killed; an execution is recorded if it failed |
| Task locks: `worker.py` 623-686 | a Redis lock with a lease | acquire, reacquire, release | batch, executor | exclusion |
| Queue semaphore: `redis_semaphore.py`, `lua/semaphore.lua` | a sorted set of workers by expiry time, and its time to live | acquire, renew, release, system lock | worker around a batch, heartbeat, clients | at most `max_workers_per_queue`; the pause holds; slots come free |
| Retry policy: `retry.py`, `worker.py` 720-804 | none | fixed, linear, exponential delays | finishing a failed task | bounded number of retries |
| Periodic tasks: `schedule.py`, `task.py` 643-660, `worker.py` 872-907 | a unique task in the scheduled set | queue the next period | store | the chain does not break, periods do not drift |
| Queue names: `_internal.py` 110-195 | none | `dotted_parts`, `queue_matches`, batch sizes | every loop over queues | the most specific rule wins |
| Purging, inspection: `tasktiger.py` 477-656 | an offset | page through a sorted set, delete | store | everything is purged |
| Statistics: `stats.py` | busy time | start, end, compute | executor | intervals are not counted twice |

What is hard here: every worker action is a sequence of round trips with no
transaction around it; ownership is an entry in a sorted set that lasts as long as
heartbeats come; unique tasks share one ID, one object and one history among all
requests for them; locks are leases; processes die anywhere.

## 2. Modules

### TaskStore: the keyspace and its scripts

State `zset`, `stale`, `index`, `object`, `executions` (see the header of the
module for the keys they stand for). Redis runs a script in one step, so a script is
one operator: a guard on the keyspace and next values for all of its keys.

| Operator | Code |
|---|---|
| `MoveTask`, `RemoveTask` with `KeepExecutions`, `KeepObject` | `move_task.lua` with and without a `to_state`, called by `RedisScripts.move_task` |
| `PopToActive`, `PopToQueued` with `Batch`, `PopMoved`, `PopDeferred` | the two variants of `ZPOPPUSH_EXISTS` that workers use |
| `SRemIfNotExists` | `SREM_IF_NOT_EXISTS` |
| `AddTask` | the pipeline of `Task.delay` |
| `TouchActive` | `Worker.heartbeat` |
| `StaleEntries`, `ExpiredBatch` | `GET_EXPIRED_TASKS` |

Scores are abstracted: of an active entry only whether it is older than
`ACTIVE_TASK_UPDATE_TIMEOUT` (`stale`), of the others nothing. `zpoppush` therefore
takes *any* members in the right number, and any scheduled task may be due: every
order the scores could impose is among the behaviours. A task is a model value,
its object is there or not, its list of executions is empty or not.

### TaskQueues: clients and workers

`pc[w]` says where worker `w` is in `_process_from_queue` or
`_worker_queue_expired_tasks`, `job[w][t]` what it knows of task `t` of its batch.
**One action is one Redis round trip** and the local code up to the next one:

    idle --Pop--> load --Load--> batch --BeginGroup--> lock --Execute--> exec
    exec --Succeed--> done    exec --Fail--> failed
    lock, done, failed --EndGroup--> batch --EndBatch--> idle
    idle --ExpireScan--> expire --ExpireLoad--> expMove | expCheck --> expDrop --> expire
    anywhere --Crash--> dead, or by an uncaught TaskNotFound --> raised; --Restart--> idle
    of a dead worker's child: --ChildEnds-->

`Drop`, `AcquireLock`, `LockedOut`, `FinishDone`, `CountExecutions`, `FinishFailed`
handle one task of the batch each. An operation that calls `Task._move` has two
outcomes: the script's, or `Raise` if the task is not where the caller thinks
(`TaskNotFound`), which ends the worker wherever the code does not catch it.
`Delay`, `Retry`, `Cancel`, `Delete` are the clients; `Vanish` is the lost task
object of `tests/test_base.py`.

Time is abstracted to its effects: `Lapse` makes an entry stale, `LockLapse` and
`ExpireLockLapse` end leases. With `Timely = TRUE` they happen only to what no live
worker renews: a worker needs less than 60 s between two heartbeats or before it
removes an entry, against an `ACTIVE_TASK_UPDATE_TIMER` of 10 s. `Timely = FALSE`
lets them happen at any time. In both, a task of a batch that waits while another
*group* executes may go stale, since the code does not renew it (`Renewing`).

A group is executed in one stretch from `Execute` to `Succeed` or `Fail`, with any
number of heartbeats in between; `Fail` leaves executions recorded for any subset of
the group, which covers an exception (all of them), and a child that dies before or
while it records them. The exit of a `SyncExecutor` worker after a job timeout is a `Crash`
after the finishing step.

**A child outlives its worker.** Nothing ends the forked child of a worker that is killed
(`executor.py` 198-225): it executes on, and no one sends heartbeats, renews its locks or kills
it any more. `orphans` holds the entries that such children still execute; `Die` adds to it,
`ChildEnds` takes out, at any time or never, and may leave a failure recorded. Meanwhile the
entry goes stale and the lock lapses, both after their timeout, and other workers take them: **the
child of a dead worker can overlap with another execution of the same task, and with that of
another task that needs the same lock.** No property says otherwise. `NoConcurrentExecution` and
`Ownership` speak of live workers, and `LockExclusion` of live workers and of the time until the lease of
a dead one ends. `Outliving` are the tasks to which this may happen: none with the
`SyncExecutor`, which executes in the worker itself.

`Load` takes the branch of a task object with a wrong ID (`worker.py` 502-505) for that of a
missing one: only somebody who writes to Redis by hand produces such an object.

Of the lock on expiry only the holder that may yet release it matters: `expLock` is
`Orphan` once that worker is gone or has left the lock to its lease, and `Free` when
the next worker may take it.

Ghost variables: `owed` holds the requests `<<queue, task>>` that no execution
has served; `covered[w]` the tasks whose requests all precede the execution of
`w`; `spent` the tasks, neither unique nor idempotent, that were executed since somebody
scheduled a retry of theirs; `vanished` the tasks whose object somebody deleted, which
`NoLostTask` says nothing of. They are read by the properties only. `created` is none: a task
that is not unique gets an ID of its own from `delay`, so it is delayed once.

### AtLeastOnce, and TaskQueuesRefinement: what clients are promised

`AtLeastOnce` knows neither sets in Redis nor leases: a request for an entry (a task in a
queue) is open until an execution that began after it is complete, or until a client
withdraws it; an entry has one execution at a time by workers that are alive; a request that
comes during an execution is not served by it. What a worker executed when it died joins
`strays`, goes on beside other executions, and serves nobody. `TaskQueuesRefinement` maps `TaskQueues` to it: a request is
open if it is in `owed` and the task is retrievable (its entry and its object are there) or
had an object that somebody deleted; `running` is what workers execute or finish, `fresh` is
`covered`, `strays` is `orphans`. `NoLostTask` says that all of `owed` is open in this sense, so no request is
withdrawn by being lost.

### QueueSemaphore: the semaphore of one queue

The members' remaining times, the key's time to live and a `Tick`. Units are tens of
seconds, so the defaults of the code (timeout 60 s, timer 10 s, buffer 10 s) are 6, 1
and 1. Workers acquire it before a batch, renew it with a heartbeat at least every
`Timer`, release it afterwards. A worker that was restarted has another ID
(`Worker.id`), so `Crash` is final here.

### WorkerLoop: how workers find queues

`known[w]` is `_queue_set`, `inbox[w]` the messages of the activity channel that `w` has
not read. A worker goes `off --Subscribe--> start --FirstScan--> listen --StartRun--> run
--StartMaintenance--> maintain --EndRun--> listen`, with a `Pop` for each queue it knows (and
`Finish` for each task popped) and a `Schedule`, and `Announce`, for each queue with
scheduled tasks. The store is the one of `TaskStore`; what happens within a batch is the
business of `TaskQueues`, so a task is finished in one step here. Whatever queues a task
publishes its queue in the same transaction, except `Schedule`, which the code follows
with a `publish` of its own if the script returned a task: that is `Announce`, and a worker may
die before it. The script does not return a task that was queued already, so if that is all that was
due, nothing is published. Messages
are a set: the code adds the queue to a set, so their order and number do not matter.
Subscriptions are taken to be effective before the scan, though redis-py does not wait
for the confirmation. A visit may move nothing though the queue holds tasks, because all
that was popped was active elsewhere and put off to the scheduled set; the worker drops the
queue then (`worker.py` 856). What was put off brings the queue back when it is due: the worker
that schedules it announces the queue, and if it announces nothing the unique task is queued again
already, which published the queue after it was dropped. But a client may cancel what was put off, and
then nothing does until the queue is published for another reason or a worker starts. The ghosts
`unsaid`, `putoff` and `cancelled` mark the queues of which a worker died before it announced
them, those that were dropped like this, and those of them of which a unique task was cancelled, until the
queue is published again.

### PeriodicTasks and Schedules: time in the scheduled set

`Schedules` is `_periodic` of `schedule.py`. `PeriodicTasks` extends `TaskStore` by the score
of each scheduled task, as the time that is left until it is due (`due`), and the modes of
`zadd` that write it: `DueNX` (`delay`), `DueMin` (`zpoppush` that defers, a task that is
locked out), `DueSet` (a retry, `update_scheduled_time`). A worker starts with `Start`, `Check`
(is the periodic task somewhere?), `AskNext`, `AddNext`; it takes a task with `Pop`, and before
it executes the periodic task, `Prepare` sends it through `AskNext` and `AddNext` for the next
period. `Ask` and `Add` are the two halves of `Task.delay`, between which time passes. A batch
has one task; `TaskQueues` has the details of executions. There is one queue.

`max_queue_size` is left out. Where nothing handles `QueueFullException`, in
`_queue_for_next_period`, it ends the worker like `Crash` between `AskNext` and `AddNext`.

### WorkerProcess: one worker from the inside

The main thread, the child it forks, the statistics thread, the heartbeat thread of the
`SyncExecutor`, and a bounded clock. With the `ForkExecutor`:

    idle --ReadStart, ReportStart--> fork --Fork--> check --Select--> select --Wake--> recheck
    recheck --Recheck--> beat --Beat--> check        recheck --Recheck--> kill --Kill--> store --StoreTimeout--> end
    check, recheck --Reap--> end --ReadEnd, ReportEnd--> finish --Finish, NextGroup--> idle

and `SyncStart`, `SyncEnd`, `SyncStore`, `SyncJoin` in place of the middle with the
`SyncExecutor`. The child may be as slow as it likes, hang, exit at any point, also between
the last check and the kill, or die without a trace. Each report of the statistics reads the
clock, then takes the lock and computes, in two steps, as `stats.py` does. The thread logs from
`Compute` to `EndLog`, and `Fork` waits for `g_fork_lock` meanwhile. A computation comes at least
`Interval` after the last one began, so it always has time to report (`stats.py` 57).
`count` is the number of executions stored, by which `Finish` decides about a retry.

*Time* passes in the waits of the main thread (`Tick`, for the `Timer` at most where the code
gives `select` or `Event.wait` that timeout), and anywhere while tasks are executed (`Lose`): a worker may
be late by `Lag` between two heartbeats, however that is spread over its steps. A signal may end `select`
before its time. So `HeartbeatsInTime` has the bound `Timer + Lag`, and `ChildGoneInTime`
`Allowance + Timer + 2 * Lag`: what is lost before the last look at the clock, and after it. The
defaults of the code leave 50 s for `Lag` before an entry expires under a worker that executes.

*SystemExit.* `execute_tasks` catches `Exception` and `JobTimeoutException` only
(`executor.py` 149-158). A task that raises `SystemExit` leaves the child (`ChildLeave`)
through `Worker.run` with the status that the task chose: 0 unless it says otherwise, and then
`execute` returns True although not all tasks returned, where its docstring speaks of "whether the
tasks were executed successfully" (`executor.py` 94-95). With the
`SyncExecutor` the heartbeat thread is joined and the worker ends (pc `gone`).
`OutcomeKnown` says just what success and failure do mean.

### PurgeErrored: deleting what one pages through

`purge_errored_tasks` is a generator that pages through the error set of each queue, and
a loop that deletes what it yields before the generator goes on: `Fetch`, `Purge`,
`NextPage`, then `NextQueue`. `Again` is the caller's loop of the docstring. Tasks are
numbers, ordered as their scores are; `Fail` and `TakeOut` are other processes. Names of
queues are sequences of parts; `QueueMatches` (`QueueNames`) is `queue_matches`, and
`Selected` what the README says of it, independently. The filters are chosen at the
beginning, so that a run covers all of them.

Each module has its proofs beside it: `TaskQueuesProofs` (types, ownership, locks),
`TaskQueuesSafetyProofs` (indexes, copies, requests, objects, executions),
`TaskQueuesRefinementProofs`, `QueueSemaphoreProofs`, `WorkerLoopProofs`, `PeriodicTasksProofs`
(with `Schedules`), `WorkerProcessProofs` and `PurgeErroredProofs` (with `QueueNames`).

`MCTaskQueues`, `MCQueueSemaphore`, `MCWorkerLoop`, `MCWorkerProcess` and `MCPurgeErrored` instantiate these for TLC;
`PeriodicTasks` needs no definitions for it. Definitions marked
"Mutant" are used by nothing: each is what the definition after it would be with a
plausible bug, and `PROJECT.json` pairs every property with one that breaks it.

## 3. What is checked

Most state spaces are finite without a bounding counter: tasks, queues and workers are
fixed sets, and a task that is not unique is in the system at most once, since it then
has an ID of its own. `PurgeErrored` bounds the number of failures by `N`, `PeriodicTasks` the
delays that clients ask for by `MaxDelay`, `WorkerProcess` the clock by `MaxTime` and the
children that die or leave by `MaxDeaths`, and the time a worker loses between heartbeats by
`Lag`. Workers are symmetric in `TwoTasks`, and tasks in `Executors`: there is no symmetry in runs with
liveness.

| Run | Shows |
|---|---|
| `TwoTasks` | Two workers; `t1` unique and idempotent, `t2` neither, same function, batches of two, one shared lock. `NoLostTask`, `LockExclusion`, `IndexExact`, `StoreConsistent`, `NoUnhandledTaskNotFound`, `SingleCopy`, `HistoryKept`, `AtMostOnce` and the types hold, and `Ownership`, the invariant behind exclusive execution. `t1` may be executed on by the child of a worker that died. |
| `OneTaskLive` | One unique task whose object may vanish and whose child may outlive its worker: the active set alone gives `NoConcurrentExecution` of live workers; every step is one of `AtLeastOnce` (`ImplementsAtLeastOnce`); under fairness, every active entry is finished or expires, also the stubs of tasks whose object disappeared (`ActiveEntriesLeave`), and every request is tried (`RequestsAreTried`). |
| `SystemLock` | Three workers for two slots, crashes, system locks shorter and longer than leases: `LeasesRespected`, `PauseRespected`, and under fairness `QueueProceeds` (slots of dead workers and pauses end). |
| `LoopCrashes` | A unique task and an ordinary one, clients that cancel either; one worker crashes anywhere and is restarted, one does not crash. Every subscribed worker knows of a queue with queued tasks or has a message about it, but for the two exceptions that `unsaid` and `putoff` mark (`Announced`); then still some worker knows of it, or will scan, or a task that was put off is yet to be queued (`SomebodyKnows`); and each queue is served (`QueuesAreServed`): both but for a queue of which what was put off has been cancelled. |
| `Periodic` | A periodic task that retries, needs a lock, is updated and cancelled by a client, on two workers that crash: it is queued, active or scheduled as long as nobody cancels it (`ChainAlive`); of all that writes its time only retries and clients put it off (`NotProlonged`); it is executed again and again (`PeriodKept`). |
| `Executors` | Either executor, two tasks, a child that hangs or dies: a task that raises `SystemExit`, a worker that is late: heartbeats while tasks are executed (`HeartbeatsInTime`) and none afterwards (`NoLateHeartbeat`), a hung child is killed in time (`ChildGoneInTime`), success and stored executions agree with what happened (`OutcomeKnown`), statistics neither lose nor double an interval (`BusyConserved`), and retries are bounded by `max_retries` and the executions that were not stored (`RetriesBounded`). |
| `PurgeLimited` | All filters of three names. Without a cutoff, with a limit no larger than a page, the docstring's loop purges everything that is selected (`AllPurged`) and nothing else (`OnlySelectedPurged`); no call exceeds its limit (in `TypeOK`). |

Runs that are expected to find a violation, each a disagreement of code and
documentation (details in `PROJECT.json`, "findings"):

| Run | Shows |
|---|---|
| `SharedObject` | A unique task delayed to two queues: the first queue to finish deletes the object that both share, and the request in the second queue is dropped. |
| `MixedBatch` | Two functions in one batch queue: tasks that wait for the other group expire, and are executed by two workers at once. |
| `LongSystemLock` | A pause longer than the lease costs a running worker its slot; one worker too many runs afterwards (`WorkersLimited`; `LeasesRespected` is what remains of it, and says the same as long as every renewal succeeds). |
| `PurgeAll` | Without a limit, each page that is deleted makes the next one start a page too far: tasks are left. (A `Cutoff` below `N`, which stands for `last_execution_before`, has the same effect on the documented loop with a limit.) |
| `DroppedQueue` | A unique task left active by a crash is queued again: it is put off, and the worker drops the queue with another task in it; a client cancels what was put off, and nobody comes back (`NoQueueForgotten`, which is `SomebodyKnows` without its exceptions). |

*Are the bounds enough?* Two workers are needed for everything that can go wrong
between an owner and a thief; the expirer is one of the two, and a restarted worker is
as good as a third. Two tasks are needed for locks, batches, groups and
partially taken batches; two queues only for the shared object. `ExpireBatchSize`
1 makes full batches, and hence early releases of the expiry lock, frequent.
Three workers for two slots let slots be contended and lost.
In `WorkerLoop` one worker queues, crashes or holds a task while the other listens or
scans; the theorems cover more queues, and polling workers, of which the run has none:
`Announced` says nothing of those, as they read the index in every round.
One worker of the two crashes: either may be the one, and a second that crashes adds states only.
In `Periodic`, a period of 2, retries in 1 or 3, a lock that is retried in 1 and clients that
ask for at most 2 make each writer of the scheduled time earlier, equal and later than each
other. In `Executors` a `Timer` of 2 lets a signal end a wait in the middle, a `Lag` of 1 puts a delay anywhere,
and a clock that runs to 6 leaves room for a timeout, the kill, and a retry that executes again; one death is enough to lose an
execution. Deadlock is not checked there: the clock ends, and so does a worker that a task left by `SystemExit`.
`PurgeErrored` has pages of two and three, and up to three pages.

*What holds only when workers are timely.* `NoLostTask`, `NoConcurrentExecution`,
`HistoryKept`, `AtMostOnce`, `NoUnhandledTaskNotFound`: a worker that outlives its
entry finishes a task that another one executes. That is the design (at least once,
with a timeout); only `IndexSound` is claimed of untimely workers.

*Fairness.* `Fairness` gives weak fairness to each worker's steps once it has started
something (a hard timeout ends every execution), to its restart after a crash, and to the expiry of
leases and entries. It gives strong fairness to the visits of some worker to a queue with
tasks, to its scheduled tasks and to the expired ones, because the loop of `Worker.run`
returns to each of them, though something else may disable them in between (another
worker takes the batch or the lock). Asking it of some worker assumes less than asking it of each. `FinallyStable` says that
crashes and vanishing objects do not go on for ever: a worker that crashes in
every execution never completes one. Nothing makes clients act. In `QueueSemaphore`
acquiring, releasing and time are fair and system locks are not set for ever.
In `WorkerLoop`, `FairSpec` says that a worker goes on with its rounds (weak fairness: it
is one thread) and that it does read each message (strong fairness, since a worker
that has done work may begin its next round with messages still on their way); that once in
a while some worker is the one that looks for due tasks (the lock that spaces it out goes to
somebody each time), that each unique task that is scheduled comes to be due and is queued (time passes), and that some worker expires what was left
behind; and that crashes come to an end. Nothing is assumed about clients.
In `PeriodicTasks` time passes, a worker goes on with what it has begun, and the periodic
task, which `zpoppush`, the scheduler and the expirer take in the order of their scores, has
its turn of each; its lock is free often enough; crashes come to an end, and so do updates of
its time, by which a client can put it off for ever. `WorkerProcess` assumes no fairness: its
timing properties are invariants over a clock that does not pass a deadline.

## 4. What is proved

The eight modules of proofs are checked by TLAPS to the last leaf, for any finite set of tasks and
any sets of queues, workers and clients, timers, timeouts, limits and bounds that satisfy the
assumption on constants of the module (`ConstantsOK`, `SemaphoreConstantsOK`, `LoopConstantsOK`,
`PeriodicConstantsOK`, `ProcessConstantsOK`, `PurgeConstantsOK`). Every invariant and action property
of the passing runs is the statement of a theorem. `IndexesSound` is about the part of `IndexExact` that holds for any timing,
and which no run states on its own. The second column has what a theorem assumes besides;
each of these assumptions but `Unpaused` is met by some run, and what goes wrong without it is said below.

| Theorem | Assumes | Statement |
|---|---|---|
| **TaskQueues** | | |
| `TypeCorrect` | | `Spec => []TypeOK` |
| `IndexesSound` | | `Spec => []IndexSound` |
| `LocksExclude` | `Timely` | `Spec => []LockExclusion` |
| `TakenOnce` | `Timely`, `SafeBatches` | `Spec => []Ownership` |
| `ExecutedByOne` | `Timely`, `SafeBatches` | `Spec => []NoConcurrentExecution` |
| `IndexesExact` | `Timely`, `SafeBatches` | `Spec => []IndexExact` |
| `NeverTwice` | `Timely`, `SafeBatches` | `Spec => []SingleCopy` |
| `ExecutedOnceUnlessRetried` | `Timely`, `SafeBatches` | `Spec => AtMostOnce` |
| `NothingLost` | `Timely`, `SafeBatches`, `OwnHome` | `Spec => []NoLostTask` |
| `AtLeastOnceImplemented` | `Timely`, `SafeBatches`, `OwnHome` | `Spec => ImplementsAtLeastOnce` |
| `ObjectsExact` | these, `Vanishing = {}` | `Spec => []StoreConsistent` |
| `NoneRaised` | these, `Vanishing = {}` | `Spec => []NoUnhandledTaskNotFound` |
| `FailuresOnRecord` | these, `Vanishing = {}` | `Spec => HistoryKept` |
| **QueueSemaphore** | | |
| `TypeCorrect` | | `Spec => []TypeOK` |
| `PausesLast` | | `Spec => PauseRespected` |
| `NotTooManyLeases` | `BufferCovers` | `Spec => []LeasesRespected` |
| `LimitKept` | `BufferCovers`, `Unpaused` | `Spec => []WorkersLimited` |
| **WorkerLoop** | | |
| `TypeCorrect` | | `Spec => []TypeOK` |
| `AllAnnounced` | | `Spec => []Announced` |
| `QueuesRemembered` | | `Spec => []SomebodyKnows` |
| **PeriodicTasks**, `Schedules` | | |
| `TypeCorrect` | | `Spec => []TypeOK` |
| `ChainUnbroken` | `Robust` | `Spec => []ChainAlive` |
| `PutOffOnlyByRequest` | | `Spec => NotProlonged` |
| `NextIsFirst`, `DateInRange`, `EndsWhenOver` | | what `NextRun` and `PeriodicDate` compute |
| **WorkerProcess** | | |
| `TypeCorrect` | | `Spec => []TypeOK` |
| `EntriesKept`, `HeartbeatsEnd` | | `Spec => []HeartbeatsInTime`, `Spec => NoLateHeartbeat` |
| `HungChildKilled` | | `Spec => []ChildGoneInTime` |
| `OutcomeReported` | | `Spec => []OutcomeKnown` |
| `BusyTimeConserved` | | `Spec => []BusyConserved` |
| `RetriesEnd` | | `Spec => []RetriesBounded` |
| **PurgeErrored**, `QueueNames` | | |
| `TypeCorrect` | | `Spec => []TypeOK` |
| `NothingElsePurged` | | `Spec => OnlySelectedPurged` |
| `NothingLeft` | `WithinPage` | `Spec => []AllPurged` |
| `FiltersSelect` | | `QueueMatches(q, inc, exc) <=> Selected(q, inc, exc)` |

*The assumptions.* `Timely`: workers renew their entries and locks in time (section 2). `SafeBatches`
excludes what `MixedBatch` exhibits: batches larger than one in a queue that mixes functions.
`OwnHome`, that a unique task is delayed to one queue only, excludes what `SharedObject` exhibits.
`Vanishing = {}`, that nothing but TaskTiger deletes task objects: a worker that finds no object takes the
task for a stub, and removes what is there, so executions, other sets of the task and
the places other workers rely on are void then; `NothingLost` needs no such assumption,
since it speaks of the other tasks. `BufferCovers` (`Timer <= Buffer`) compares the fixed buffer of 10 s in
`redis_semaphore.py:83` with the configurable `ACTIVE_TASK_UPDATE_TIMER`, whose default is 10 s as well: with a longer
timer the key of the semaphore can end under a running worker, and TLC finds `LeasesRespected` violated
(`Timer = 2`, `Buffer = 1`). `Unpaused` (no system locks, and a timer below the timeout) excludes
what `LongSystemLock` exhibits.
`Robust`: the periodic task is idempotent, or workers do not crash; an entry
that expires goes to the error set if its task is not idempotent, and when its worker died before it asked for the
next period, only a worker that starts continues the chain. `WithinPage`: a limit, no larger than a page
(the default of both is 5000), and no `last_execution_before`; `PurgeAll` is what happens without.

*The argument for `ExecutedByOne`.* The property speaks of executing workers only, and is
not inductive: nothing in it keeps the expirer from moving an entry that is being
executed. `Ownership` adds what the code relies on, silently: what a worker
has taken is in the active set and not stale (`HeldAreActive`); no two workers have
taken the same task of a queue (`HeldOnce`: `zpoppush` moves only what is not active,
and by `HeldAreActive` what anybody holds is active); one worker at a time
expires tasks and the entries it has in hand are still stale (`ExpiredAreStale`:
the lock on expiry lives as long as its holder works, and stale entries belong to
nobody, so nobody renews them); a batch has tasks of one function (`OneFunction`, from
`SafeBatches` and `QueuesRespected`), so no task is left without heartbeats. The proof
has one lemma per process (`ProcessKeeps`, `MaintainKeeps`, `ClientKeeps`,
`EnvironmentKeeps`) and one step per action; `LetGo`, `MoveEffect`, `LocalKeeps` and
`ExpirerKeeps` carry what is common to them.

*The argument for `LocksExclude`* needs no ownership: `LocksHeld` says that a
task that is ready or executing has its lock in its worker's hand, so that nobody else has it, nor is it left to its
lease by one that died. It holds for mixed batches too.

*`IndexesSound`* is inductive together with the types: every script but the heartbeat's
`zadd` updates index and sorted set together.

*The argument for `IndexesExact`* adds to ownership that the index lists every queue with
active entries (`ActiveListed`): the heartbeat's `zadd`, which updates no index, then
finds all of its entries in place and creates none (`HeartbeatQuiet`).

*The arguments for what becomes of requests.* `StoreSteps` sorts all steps by what they do to the
store (`Removed`, `StubRemoved`, `Delayed`, `Moved`, `Popped`, `Queued`, `Vanished`, `Untouched`), so
that each invariant is proved once per kind, not once per action. `Single`: a task that is not unique is in
one state of one queue, and only after it was delayed. `Requests` is the conjunction of what
keeps a request alive: the object of a task exists exactly while a queue holds the task (`DataKept`, for which
`OwnHome` is needed); a worker that thinks an object is missing is right (`NothingMissing`), else it would
drop a task as a stub; a task that is owed is in some set of its queue (`OwedHeld`),
and one that is being executed, but was asked for again meanwhile, waits in
the queued or scheduled set too (`UncoveredWaits`), so that the end of the execution does not end the request. The
executions of a task go only with the last removal outside the error set (`FailuresOnRecord`).

*The refinement* is proved step by step: `Mapped` says what the mapping yields in a reachable state, and `Known`
adds the invariants the steps rely on. Each action is a step of `AtLeastOnce` or leaves the mapped variables as
they are, with one lemma per kind (`AskStep`, `ExecuteStep`, `FinishDoneStep`, `StopStep`, `QuietStep`...);
`ToAsk`, `ToBegin`, `ToFinish` and their kind derive the abstract step from what changes in the mapped terms.

*The argument for the semaphore.* A pause is a system lock, a member of the sorted set that lives at least as long (`PauseHeld`), and the key
outlives that member by `Buffer` (`LockOutlived`). A lease
rests on the member of its worker (`LeasesHeld`: a worker that renewed has one that lives at least as long as the lease)
and on the key (`KeyOutlived`), which a system lock leaves with `Buffer` to live: `BufferCovers` is for that. `SlotInv`: without pauses nothing ever
refuses a renewal.

*The argument for `ChainUnbroken`.* `ChainAlive` is not inductive: nothing in it keeps an execution that ends from
being the last trace of the task. `NextThere` says that while the task is executed, its next period waits in
the queued or scheduled set; `Hands`, that what a worker is about to add is the periodic task; `TakenOnce`,
that what a worker has taken is active and nobody else has taken it, so that only one execution may remove the entry
and a pop that puts the task off finds it active; `NoneLeft`, that without crashes all that is active is in somebody's hands, so nothing
expires. One lemma per kind of step (`ChainLocal`, `ChainStill`, `ChainScripts`, `ChainAddNext`, `ChainPop`,
`ChainDone`, `ChainExpire`, which alone needs `Robust`).

*Schedules.* `Interval` and `NextMultiple` are what the provers need to know of division and
multiplication; `NextIsFirst` is then that the next multiple of the period after now is the first.

*The arguments for the purge.* `CountInv`: the error sets are disjoint, and the count of a call and what is left
in them is at most the number of failures. `PageChosen`: a page is read of a selected queue only. `Progress` follows
one call: what was to be purged is in the queues to do, in the page, or gone (`Covers`, `Gone`), or the page has enough
for the limit (`Full`); `FirstPage` says that a page that is not the whole set is full, by which the call ends
before it reads a second page of a queue, whose offset would be wrong.

*`FiltersSelect`* is about a recursive function, and needs induction: the closed form `SelectedUpTo` satisfies the
function's equation, so the function exists, and the least argument at which the two differ (`Least`,
from the library's well-foundedness of `<` on the natural numbers) cannot exist.

*The argument for `AllAnnounced`.* The invariant adds `StoreInv` to the property: the index
lists every queue with queued tasks (`QueuedIndexed`), so that the first scan misses none,
and a queue holds an ordinary task in one state (`OrdinaryOnce`), so that only unique tasks
are ever put off. Then a visit that moved nothing found the queue empty, or put tasks off,
which is recorded in `putoff` (`EmptyVisit`). The ghost `unsaid` marks the queues whose
announcement died with a worker, between the two round trips of `worker.py` 195 and 214.
Tasks may be unique or not, and any workers may poll or crash.

*The argument for `QueuesRemembered`.* `Kept` sharpens the property. `PutOffKept`: of a queue from which all that was
popped was put off, a *unique* task is in the scheduled set and not queued (`Waiting`), until it is queued, which
publishes the queue or leaves a worker about to announce it (or dead: `unsaid`), or a client cancels it (`cancelled`).
`Remembered`, if crashed workers are restarted: some worker knows of the queue, or it was
dropped because of such a visit. `Harmless` says of the other steps that they queue nothing new and leave what was put off
waiting (`KeptQuiet`); a step that publishes what it queues restores the property (`KeptPublish`). One lemma per kind of step
(`KeptClient`, `KeptLocal`, `KeptPop`, `KeptStore`). The run has no polling workers, which are aware of every queue; the theorems cover them.

*The argument for `WorkerProcess`.* The invariant `IInv` has a part for each property, which says where
in the main thread, the child or the heartbeat thread what is known: a select begins with a
heartbeat (`BeatInv`) and within the child's time (`LimitInv`), so one `Timer`, and what is lost, is the most that passes
until the next look at either; what the child has stored and has left to store, at each point of its
life (`ChildInv`), gives the main thread's outcome (`OutcomeInv`), for which it matters that a child that is
killed just after it exited keeps its code; a task that is executed again has as many
executions counted as it had, except those that were lost (`RetryInv`); and the heartbeat thread
lives only in `sync` and `join` (`ThreadInv`). One lemma per part, with the types as its hypothesis
(`ThreadInv` too for `LimitInv`, `ChildInv` for `OutcomeInv`).

Model-checked only: the liveness properties `ActiveEntriesLeave`, `RequestsAreTried`, `QueueProceeds`,
`QueuesAreServed` and `PeriodKept`, since fairness and `ENABLED` are out of the prover's reach, and what the
runs that expect a violation show.

## 5. What is not modelled, and the plan

To be done next: the part of `TaskQueues` that holds of untimely workers too, beyond `IndexSound` and the
types; what `AtLeastOnce` itself implies (an entry is executed by one worker at a time, a request is closed by
an execution that began after it), as theorems of the abstract module; and the batch size and the
number of workers from the parts of a queue's name, like `QueueMatches`.

Not modelled: what a worker that outlived its entry may do to the worker that has it now
(`Timely = FALSE` allows it, and only `IndexSound` is claimed of it); `max_queue_size`, by which
concurrent callers may overshoot; `ALWAYS_EAGER`; the batch size and the number of workers from
the parts of a queue's name (`BatchSize` and `MaxLocks` are constants); queue filters of
workers; the options `once` and `exit_after`; `cron_expr`, which hands over to a library; how
long retries are delayed; the choice among several retry methods.

Left out for good: log output, error reporting, configuration and option parsing,
Flask and Rollbar glue, the migration of old data, test helpers, runner classes
(calls into user code) and alarm signals within the child process.
