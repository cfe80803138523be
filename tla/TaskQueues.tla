------------------------------ MODULE TaskQueues ------------------------------
(****************************************************************************)
(* Clients and workers working on the store of TaskStore: a client delays,  *)
(* cancels, retries and deletes tasks; a worker pops a batch of one queue,  *)
(* loads it, executes it in groups of one function each, finishes every     *)
(* task of the group, queues scheduled tasks, and requeues or fails tasks   *)
(* that expired because their worker stopped sending heartbeats.            *)
(*                                                                          *)
(* One action is one Redis round trip together with the local code up to    *)
(* the next one, so every interleaving of round trips is a behaviour.       *)
(*                                                                          *)
(* Time is abstracted to what it can cause: Lapse makes an active entry     *)
(* stale, LockLapse and ExpireLockLapse free a lock whose lease ran out,    *)
(* Schedule finds any scheduled task due.  With Timely = TRUE these happen  *)
(* only to what nobody renews: the code between two heartbeats, or between  *)
(* an acquisition and a renewal, takes less than the timeout.               *)
(****************************************************************************)
EXTENDS TaskStore

CONSTANTS
  Worker,           \* the worker processes
  NoLock,           \* LockOf of a task without a lock
  Free, Orphan,     \* a lock nobody holds; one whose holder is gone
  Unique,           \* tasks whose ID is a hash of function and arguments
  Idempotent,       \* tasks with should_retry_on(JobTimeoutException)
  Vanishing,        \* tasks whose object may disappear from Redis
  Outliving,        \* tasks that a forked child may execute for longer than its worker
                    \* lives; the SyncExecutor's end with it
  QueuesOf,         \* the queues clients delay a task to
  FuncOf,           \* serialized_func
  LockOf,           \* lock ID: a hash of the function and the lock arguments
  BatchSize,        \* _get_queue_batch_size(queue)
  ExpireBatchSize,  \* REQUEUE_EXPIRED_TASKS_BATCH_SIZE
  Timely

Lock == {LockOf[t] : t \in Task} \ {NoLock}

ASSUME ConstantsOK ==
  /\ IsFiniteSet(Task) /\ Task # {} /\ Queue # {}
  /\ Unique \subseteq Task /\ Idempotent \subseteq Task /\ Vanishing \subseteq Task
  /\ Outliving \subseteq Task
  /\ QueuesOf \in [Task -> SUBSET Queue]
  /\ DOMAIN FuncOf = Task /\ DOMAIN LockOf = Task
  /\ \A t, u \in Task : LockOf[t] = LockOf[u] /\ LockOf[t] # NoLock => FuncOf[t] = FuncOf[u]
  /\ BatchSize \in [Queue -> Nat \ {0}]
  /\ ExpireBatchSize \in Nat \ {0}
  /\ Timely \in BOOLEAN
  /\ Free \notin Worker /\ Orphan \notin Worker /\ Free # Orphan

(* No batch can mix functions: a queue is popped one task at a time (the    *)
(* default) or holds tasks of one function only.                            *)
SafeBatches ==
  \A q \in Queue :
    \/ BatchSize[q] = 1
    \/ \A t, u \in Task : q \in QueuesOf[t] \cap QueuesOf[u] => FuncOf[t] = FuncOf[u]

VARIABLES
  pc,       \* pc[w]: where worker w is
  wq,       \* wq[w]: the queue of w's batch
  job,      \* job[w][t]: what w is doing with task t of its batch
  lock,     \* lock[l]: the holder of <prefix>:lockv2:<l>
  expLock,  \* the holder of lockv2:queue_expired_tasks, that may yet release it
  orphans,  \* the entries that children of workers that are gone still execute
  expired,  \* expired[w]: entries of get_expired_tasks w has yet to handle
  full,     \* full[w]: that answer was a full batch
  cur,      \* cur[w]: the expired entry w is handling
  created,  \* tasks with an ID of their own that were delayed
  owed,     \* ghost: requests <<queue, task>> that no execution has served
  covered,  \* ghost: tasks all of whose requests precede w's execution
  spent,    \* ghost: tasks, neither idempotent nor unique, executed since they were
            \* last scheduled for a retry
  vanished  \* ghost: tasks whose object disappeared

workerVars == <<pc, wq, job, expired, full, cur>>
\* What workers leave behind, besides entries: locks and children.
lockVars == <<lock, expLock, orphans>>
ghostVars == <<created, owed, covered, spent, vanished>>
vars == <<storeVars, workerVars, lockVars, ghostVars>>

\* "dead": the process is gone.  "raised": an uncaught TaskNotFound ended it.
Gone == {"dead", "raised"}
Expiring == {"expire", "expMove", "expCheck", "expDrop"}
PC == {"idle", "load", "batch", "lock", "exec", "done", "failed"} \cup Expiring \cup Gone

\* A task of the batch, in the order of its life in a worker.
InGroup == {"locking", "ready", "retrying", "quiet"}
Job == {"none", "popped", "missing", "loaded"} \cup InGroup

Entry == Queue \X Task

TypeOK ==
  /\ StoreTypeOK
  /\ pc \in [Worker -> PC]
  /\ wq \in [Worker -> Queue]
  /\ job \in [Worker -> [Task -> Job]]
  /\ lock \in [Lock -> Worker \cup {Free, Orphan}]
  /\ expLock \in Worker \cup {Free, Orphan}
  /\ orphans \subseteq Entry
  /\ expired \in [Worker -> SUBSET Entry]
  /\ full \in [Worker -> BOOLEAN]
  /\ cur \in [Worker -> Entry]
  /\ created \subseteq Task
  /\ owed \subseteq Entry
  /\ covered \in [Worker -> SUBSET Task]
  /\ spent \subseteq Task
  /\ vanished \subseteq Task

NoJobs == [t \in Task |-> "none"]
SomeQueue == CHOOSE q \in Queue : TRUE
NoEntry == <<SomeQueue, CHOOSE t \in Task : TRUE>>

Init ==
  /\ StoreInit
  /\ pc = [w \in Worker |-> "idle"]
  /\ wq = [w \in Worker |-> SomeQueue]
  /\ job = [w \in Worker |-> NoJobs]
  /\ lock = [l \in Lock |-> Free]
  /\ expLock = Free
  /\ orphans = {}
  /\ expired = [w \in Worker |-> {}]
  /\ full = [w \in Worker |-> FALSE]
  /\ cur = [w \in Worker |-> NoEntry]
  /\ created = {}
  /\ owed = {}
  /\ covered = [w \in Worker |-> {}]
  /\ spent = {}
  /\ vanished = {}

JobsIn(w, K) == {t \in Task : job[w][t] \in K}

Executing(w, t) == pc[w] = "exec" /\ job[w][t] = "ready"

\* w's next pc, with the jobs of the tasks of S set to j.
Step(w, p, S, j) ==
  /\ pc' = [pc EXCEPT ![w] = p]
  /\ job' = [job EXCEPT ![w] = [t \in Task |-> IF t \in S THEN j ELSE @[t]]]

-----------------------------------------------------------------------------
(* Clients.                                                                 *)

\* q's requests for t made before now are not those served by executions of q.
Uncover(q, t) ==
  covered' = [w \in Worker |-> IF wq[w] = q THEN covered[w] \ {t} ELSE covered[w]]

\* Task.delay: s is the state its `when` selects.
Delay(q, t, s) ==
  /\ q \in QueuesOf[t]
  /\ t \in created => t \in Unique
  /\ AddTask(q, t, s)
  /\ created' = created \cup ({t} \ Unique)
  /\ owed' = owed \cup {<<q, t>>}
  /\ Uncover(q, t)
  /\ UNCHANGED <<workerVars, lockVars, spent, vanished>>

\* Task.retry: the caller asks for another execution of a failed task.
Retry(q, t) ==
  /\ MoveTask(q, t, ERROR, QUEUED)
  /\ owed' = owed \cup {<<q, t>>}
  /\ Uncover(q, t)
  /\ spent' = spent \ {t}
  /\ UNCHANGED <<workerVars, lockVars, created, vanished>>

(* Task.cancel.  The requests that the scheduled entry stood for are given  *)
(* up: all of them, unless the queue holds the task elsewhere; a running    *)
(* execution then serves what is left, unless the task is queued again.     *)
Cancel(q, t) ==
  /\ RemoveTask(q, t, SCHEDULED, t \in Unique)
  /\ owed' = IF HeldOutside({SCHEDULED}, q, t) THEN owed ELSE owed \ {<<q, t>>}
  /\ covered' = IF In(QUEUED, q, t) THEN covered
                ELSE [w \in Worker |-> IF wq[w] = q /\ job[w][t] \in InGroup
                                       THEN covered[w] \cup {t} ELSE covered[w]]
  /\ UNCHANGED <<workerVars, lockVars, created, vanished, spent>>

\* Task.delete, also as TaskTiger.purge_errored_tasks calls it.
Delete(q, t) ==
  /\ RemoveTask(q, t, ERROR, t \in Unique)
  /\ owed' = IF HeldOutside({ERROR}, q, t) THEN owed ELSE owed \ {<<q, t>>}
  /\ UNCHANGED <<workerVars, lockVars, created, vanished, covered, spent>>

\* Somebody or something else deletes the key of the task's object.
Vanish(t) ==
  /\ t \in Vanishing \cap object
  /\ object' = object \ {t}
  /\ vanished' = vanished \cup {t}
  /\ UNCHANGED <<zset, stale, index, executions, workerVars, lockVars, created, owed, covered, spent>>

Client ==
  \/ \E t \in Task, q \in Queue, s \in {QUEUED, SCHEDULED} : Delay(q, t, s)
  \/ \E t \in Task, q \in Queue : Retry(q, t) \/ Cancel(q, t) \/ Delete(q, t)
  \/ \E t \in Task : Vanish(t)

-----------------------------------------------------------------------------
(* A worker takes a batch.                                                  *)

\* _process_from_queue up to zpoppush.
Pop(w, q) ==
  /\ pc[w] = "idle"
  /\ q \in index[QUEUED]
  /\ \E M \in SUBSET zset[QUEUED][q] :
       /\ Batch(M, zset[QUEUED][q], BatchSize[q])
       /\ PopToActive(q, M)
       /\ IF PopMoved(q, M) = {} THEN UNCHANGED <<pc, job>>
          ELSE Step(w, "load", PopMoved(q, M), "popped")
  /\ wq' = [wq EXCEPT ![w] = q]
  /\ UNCHANGED <<expired, full, cur, lockVars, ghostVars>>

(* _process_queue_tasks: mget of the objects of the batch.  The object is    *)
(* found under the ID that it contains: no other ID can come back.          *)
Load(w) ==
  /\ pc[w] = "load"
  /\ pc' = [pc EXCEPT ![w] = "batch"]
  /\ job' = [job EXCEPT ![w] = [t \in Task |->
               IF @[t] # "popped" THEN @[t]
               ELSE IF t \in object THEN "loaded" ELSE "missing"]]
  /\ UNCHANGED <<storeVars, wq, expired, full, cur, lockVars, ghostVars>>

(* The process ends, at p: by a crash, or by an exception that nothing      *)
(* handles.  Nothing in Redis changes; the locks it held stay until their   *)
(* leases run out, and the child that it waits for goes on.                 *)
Die(w, p) ==
  /\ pc' = [pc EXCEPT ![w] = p]
  /\ job' = [job EXCEPT ![w] = NoJobs]
  /\ expired' = [expired EXCEPT ![w] = {}]
  /\ full' = [full EXCEPT ![w] = FALSE]
  /\ cur' = [cur EXCEPT ![w] = NoEntry]
  /\ lock' = [l \in Lock |-> IF lock[l] = w THEN Orphan ELSE lock[l]]
  /\ covered' = [covered EXCEPT ![w] = {}]
  /\ expLock' = IF expLock = w THEN Orphan ELSE expLock
  /\ orphans' = orphans \cup {<<wq[w], t>> : t \in {u \in Outliving : Executing(w, u)}}
  /\ UNCHANGED <<storeVars, wq, created, vanished, owed, spent>>

\* task._move raised TaskNotFound where nothing catches it.
Raise(w, q, t, from) == ~In(from, q, t) /\ Die(w, "raised")

\* The batch still has t, but t has no object: the stub of t, whose data has
\* only an ID and hence is not unique, is removed from the active set.
Drop(w, t) ==
  /\ pc[w] = "batch" /\ job[w][t] = "missing"
  /\ \/ /\ RemoveTask(wq[w], t, ACTIVE, FALSE)
        /\ Step(w, "batch", {t}, "none")
        /\ UNCHANGED <<wq, expired, full, cur, lockVars, ghostVars>>
     \/ Raise(w, wq[w], t, ACTIVE)

\* The next function of tasks_by_func.
BeginGroup(w) ==
  /\ pc[w] = "batch" /\ JobsIn(w, {"missing"}) = {}
  /\ \E t \in JobsIn(w, {"loaded"}) :
       Step(w, "lock", {u \in JobsIn(w, {"loaded"}) : FuncOf[u] = FuncOf[t]}, "locking")
  /\ UNCHANGED <<storeVars, wq, expired, full, cur, lockVars, ghostVars>>

\* No group is left: _process_from_queue returns.
EndBatch(w) ==
  /\ pc[w] = "batch" /\ job[w] = NoJobs
  /\ pc' = [pc EXCEPT ![w] = "idle"]
  /\ UNCHANGED <<storeVars, wq, job, expired, full, cur, lockVars, ghostVars>>

-----------------------------------------------------------------------------
(* _execute_task_group.                                                     *)

\* t needs no lock, or one that this group holds already (lock_ids).
NeedsLock(w, t) ==
  /\ LockOf[t] # NoLock
  /\ \A u \in JobsIn(w, {"ready"}) : LockOf[u] # LockOf[t]

\* lock.acquire(blocking=False) succeeds.
\* Mutant: the lock is taken from whoever holds it.
SeizeLock(w, t) ==
  /\ pc[w] = "lock" /\ job[w][t] = "locking"
  /\ IF NeedsLock(w, t) THEN lock' = [lock EXCEPT ![LockOf[t]] = w] ELSE UNCHANGED lock
  /\ Step(w, "lock", {t}, "ready")
  /\ UNCHANGED <<storeVars, wq, expired, full, cur, expLock, orphans, ghostVars>>

AcquireLock(w, t) ==
  /\ pc[w] = "lock" /\ job[w][t] = "locking"
  /\ IF NeedsLock(w, t)
     THEN lock[LockOf[t]] = Free /\ lock' = [lock EXCEPT ![LockOf[t]] = w]
     ELSE UNCHANGED lock
  /\ Step(w, "lock", {t}, "ready")
  /\ UNCHANGED <<storeVars, wq, expired, full, cur, expLock, orphans, ghostVars>>

\* It fails: the task is scheduled for LOCK_RETRY seconds later.
LockedOut(w, t) ==
  /\ pc[w] = "lock" /\ job[w][t] = "locking"
  /\ NeedsLock(w, t) /\ lock[LockOf[t]] # Free
  /\ \/ /\ MoveTask(wq[w], t, ACTIVE, SCHEDULED)
        /\ Step(w, "lock", {t}, "none")
        /\ UNCHANGED <<wq, expired, full, cur, lockVars, ghostVars>>
     \/ Raise(w, wq[w], t, ACTIVE)

\* executor.execute starts.
Execute(w) ==
  /\ pc[w] = "lock"
  /\ JobsIn(w, {"locking"}) = {} /\ JobsIn(w, {"ready"}) # {}
  /\ pc' = [pc EXCEPT ![w] = "exec"]
  /\ covered' = [covered EXCEPT ![w] = JobsIn(w, {"ready"})]
  /\ spent' = spent \cup (JobsIn(w, {"ready"}) \ (Idempotent \cup Unique))
  /\ UNCHANGED <<storeVars, wq, job, expired, full, cur, lockVars, created, vanished, owed>>

\* Executor.heartbeat; a lock that is still ours is reacquired, i.e. stays.
Heartbeat(w) ==
  /\ pc[w] = "exec"
  /\ TouchActive(wq[w], JobsIn(w, {"ready"}))
  /\ UNCHANGED <<workerVars, lockVars, ghostVars>>

\* The locks of the group are released; one that was lost is not ours to free.
Release(w) == lock' = [l \in Lock |-> IF lock[l] = w THEN Free ELSE lock[l]]

Succeed(w) ==
  /\ pc[w] = "exec"
  /\ pc' = [pc EXCEPT ![w] = "done"]
  /\ Release(w)
  /\ UNCHANGED <<storeVars, wq, job, expired, full, cur, expLock, orphans, ghostVars>>

(* store_task_execution records the failure for every task of the group,    *)
(* or, if the child process dies first, for only the first of them or none. *)
Fail(w) ==
  /\ pc[w] = "exec"
  /\ pc' = [pc EXCEPT ![w] = "failed"]
  /\ \E S \in SUBSET JobsIn(w, {"ready"}) : executions' = executions \cup S
  /\ Release(w)
  /\ UNCHANGED <<zset, stale, index, object, wq, job, expired, full, cur, expLock, orphans, ghostVars>>

-----------------------------------------------------------------------------
(* _finish_task_processing, task by task.                                   *)

\* The task leaves the queue: its requests made before the execution are served.
Settle(w, t) ==
  owed' = IF t \in covered[w] THEN owed \ {<<wq[w], t>>} ELSE owed

\* _mark_done
FinishDone(w, t) ==
  /\ \/ pc[w] = "done" /\ job[w][t] = "ready"
     \/ pc[w] = "failed" /\ job[w][t] = "quiet"
  /\ \/ /\ RemoveTask(wq[w], t, ACTIVE, t \in Unique)
        /\ Step(w, pc[w], {t}, "none")
        /\ Settle(w, t)
        /\ UNCHANGED <<wq, expired, full, cur, lockVars, created, vanished, covered, spent>>
     \/ Raise(w, wq[w], t, ACTIVE)

(* The task should be retried: n_executions() looks for the object.  With a *)
(* stored execution that asks for it (RetryException with log_error=False)  *)
(* a task that must not be retried again is removed quietly.                *)
CountExecutions(w, t) ==
  /\ pc[w] = "failed" /\ job[w][t] = "ready"
  /\ \/ /\ t \in object
        /\ \E j \in {"retrying"} \cup (IF t \in executions THEN {"quiet"} ELSE {}) :
             Step(w, "failed", {t}, j)
        /\ UNCHANGED <<storeVars, wq, expired, full, cur, lockVars, ghostVars>>
     \/ t \notin object /\ Die(w, "raised")

\* To the error set if it is not retried (any more), else scheduled for the retry.
FinishFailed(w, t) ==
  /\ pc[w] = "failed"
  /\ \E to \in CASE job[w][t] = "ready" -> {ERROR}
                 [] job[w][t] = "retrying" -> {ERROR, SCHEDULED}
                 [] job[w][t] = "quiet" -> {SCHEDULED}
                 [] OTHER -> {} :
       \/ /\ MoveTask(wq[w], t, ACTIVE, to)
          /\ Step(w, "failed", {t}, "none")
          /\ spent' = IF to = SCHEDULED THEN spent \ {t} ELSE spent
          /\ UNCHANGED <<wq, expired, full, cur, lockVars, created, vanished, owed, covered>>
       \/ Raise(w, wq[w], t, ACTIVE)

\* All tasks of the group are finished, or locked out.
EndGroup(w) ==
  /\ pc[w] \in {"lock", "done", "failed"} /\ JobsIn(w, InGroup) = {}
  /\ pc' = [pc EXCEPT ![w] = "batch"]
  /\ covered' = [covered EXCEPT ![w] = {}]
  /\ UNCHANGED <<storeVars, wq, job, expired, full, cur, lockVars, created, vanished, owed, spent>>

-----------------------------------------------------------------------------
(* _worker_queue_scheduled_tasks, one queue of its loop.                    *)

Schedule(w, q) ==
  /\ pc[w] = "idle"
  /\ q \in index[SCHEDULED]
  /\ \E M \in SUBSET zset[SCHEDULED][q] : PopToQueued(q, M)
  /\ UNCHANGED <<workerVars, lockVars, ghostVars>>

-----------------------------------------------------------------------------
(* _worker_queue_expired_tasks.                                             *)

\* Mutant: without the lock.
ExpireScanUnlocked(w) ==
  /\ pc[w] = "idle"
  /\ \E E \in SUBSET StaleEntries :
       /\ ExpiredBatch(E, ExpireBatchSize)
       /\ expired' = [expired EXCEPT ![w] = E]
       /\ full' = [full EXCEPT ![w] = Cardinality(E) = ExpireBatchSize]
  /\ pc' = [pc EXCEPT ![w] = "expire"]
  /\ UNCHANGED <<storeVars, wq, job, cur, lockVars, ghostVars>>

ExpireScan(w) ==
  /\ pc[w] = "idle" /\ expLock = Free
  /\ expLock' = w
  /\ \E E \in SUBSET StaleEntries :
       /\ ExpiredBatch(E, ExpireBatchSize)
       /\ expired' = [expired EXCEPT ![w] = E]
       /\ full' = [full EXCEPT ![w] = Cardinality(E) = ExpireBatchSize]
  /\ pc' = [pc EXCEPT ![w] = "expire"]
  /\ UNCHANGED <<storeVars, wq, job, cur, lock, orphans, ghostVars>>

\* w's next pc while it handles expired entries, which stay as they are.
Goto(w, p) ==
  /\ pc' = [pc EXCEPT ![w] = p]
  /\ UNCHANGED <<wq, job, expired, full, cur, lockVars, ghostVars>>

\* Task.from_id(queue, ACTIVE, id) of the next entry.
ExpireLoad(w) ==
  /\ pc[w] = "expire"
  /\ \E e \in expired[w] :
       /\ expired' = [expired EXCEPT ![w] = @ \ {e}]
       /\ cur' = [cur EXCEPT ![w] = e]
       /\ pc' = [pc EXCEPT ![w] = IF e[2] \in object /\ In(ACTIVE, e[1], e[2])
                                  THEN "expMove" ELSE "expCheck"]
  /\ UNCHANGED <<storeVars, wq, job, full, lockVars, ghostVars>>

\* Mutant: every task is requeued.
RequeueAll(w) ==
  LET q == cur[w][1]
      t == cur[w][2]
  IN  /\ pc[w] = "expMove"
      /\ \/ MoveTask(q, t, ACTIVE, QUEUED) /\ Goto(w, "expire")
         \/ ~In(ACTIVE, q, t) /\ Goto(w, "expCheck") /\ UNCHANGED storeVars

\* Requeue an idempotent task, fail the others; TaskNotFound is caught here.
ExpireMove(w) ==
  LET q == cur[w][1]
      t == cur[w][2]
  IN  /\ pc[w] = "expMove"
      /\ \/ /\ MoveTask(q, t, ACTIVE, IF t \in Idempotent THEN QUEUED ELSE ERROR)
            /\ Goto(w, "expire")
         \/ /\ ~In(ACTIVE, q, t)
            /\ Goto(w, "expCheck")
            /\ UNCHANGED storeVars

\* Mutant: every TaskNotFound is taken for a task that just moved.
ExpireIgnore(w) ==
  /\ pc[w] = "expCheck"
  /\ Goto(w, "expire")
  /\ UNCHANGED storeVars

\* After TaskNotFound: is the object missing, or was the task just moved?
ExpireCheck(w) ==
  /\ pc[w] = "expCheck"
  /\ Goto(w, IF cur[w][2] \in object THEN "expire" ELSE "expDrop")
  /\ UNCHANGED storeVars

\* A task without an object: its stub is removed, without another look.
ExpireDrop(w) ==
  /\ pc[w] = "expDrop"
  /\ \/ /\ RemoveTask(cur[w][1], cur[w][2], ACTIVE, FALSE)
        /\ Goto(w, "expire")
     \/ Raise(w, cur[w][1], cur[w][2], ACTIVE)

\* Only after a full batch is the lock released, if it is still ours; otherwise its
\* lease runs out.
ExpireDone(w) ==
  /\ pc[w] = "expire" /\ expired[w] = {}
  /\ expLock' = IF expLock = w THEN (IF full[w] THEN Free ELSE Orphan) ELSE expLock
  /\ pc' = [pc EXCEPT ![w] = "idle"]
  /\ full' = [full EXCEPT ![w] = FALSE]
  /\ cur' = [cur EXCEPT ![w] = NoEntry]
  /\ UNCHANGED <<storeVars, wq, job, expired, lock, orphans, ghostVars>>

-----------------------------------------------------------------------------
(* Time and failures.                                                       *)

(* A live worker is about to renew the entry of t, or to remove it.  Tasks  *)
(* of the batch that belong to other groups get no heartbeat while one      *)
(* group executes, which may take longer than the timeout.                  *)
Renewing(w, q, t) ==
  /\ wq[w] = q
  /\ \/ job[w][t] \in {"popped", "missing"} \cup InGroup
     \/ job[w][t] = "loaded" /\ pc[w] # "exec"

Lapse(q, t) ==
  /\ Timely => \A w \in Worker : ~Renewing(w, q, t)
  /\ GrowStale(q, t)
  /\ UNCHANGED <<workerVars, lockVars, ghostVars>>

\* The lease of a task lock runs out.
LockLapse(l) ==
  /\ lock[l] = Orphan \/ (~Timely /\ lock[l] # Free)
  /\ lock' = [lock EXCEPT ![l] = Free]
  /\ UNCHANGED <<storeVars, workerVars, expLock, orphans, ghostVars>>

ExpireLockLapse ==
  /\ expLock # Free
  /\ Timely => expLock = Orphan
  /\ expLock' = Free
  /\ UNCHANGED <<storeVars, workerVars, lock, orphans, ghostVars>>

Crash(w) == pc[w] \notin Gone /\ Die(w, "dead")

(* A child whose worker is gone, and with it the heartbeats and the renewal *)
(* of locks, comes to an end: its tasks return, or it stores the failure    *)
(* of its entry.  Another such child may still execute the same entry.      *)
ChildEnds(e) ==
  /\ e \in orphans
  /\ orphans' \in {orphans, orphans \ {e}}
  /\ executions' \in {executions, executions \cup {e[2]}}
  /\ UNCHANGED <<zset, stale, index, object, workerVars, lock, expLock, ghostVars>>

\* A supervisor starts another worker in the place of one that is gone.
Restart(w) ==
  /\ pc[w] \in Gone
  /\ pc' = [pc EXCEPT ![w] = "idle"]
  /\ UNCHANGED <<storeVars, wq, job, expired, full, cur, lockVars, ghostVars>>

Environment ==
  \/ \E q \in Queue, t \in Task : Lapse(q, t)
  \/ \E l \in Lock : LockLapse(l)
  \/ ExpireLockLapse
  \/ \E w \in Worker : Crash(w) \/ Restart(w)
  \/ \E e \in Entry : ChildEnds(e)

Process(w) ==
  \/ \E q \in Queue : Pop(w, q)
  \/ Load(w)
  \/ \E t \in Task : Drop(w, t)
  \/ BeginGroup(w)
  \/ \E t \in Task : AcquireLock(w, t) \/ LockedOut(w, t)
  \/ Execute(w) \/ Heartbeat(w) \/ Succeed(w) \/ Fail(w)
  \/ \E t \in Task : FinishDone(w, t) \/ CountExecutions(w, t) \/ FinishFailed(w, t)
  \/ EndGroup(w) \/ EndBatch(w)

Maintain(w) ==
  \/ \E q \in Queue : Schedule(w, q)
  \/ ExpireScan(w) \/ ExpireLoad(w) \/ ExpireMove(w)
  \/ ExpireCheck(w) \/ ExpireDrop(w) \/ ExpireDone(w)

Next ==
  \/ Client
  \/ \E w \in Worker : Process(w) \/ Maintain(w)
  \/ Environment

Spec == Init /\ [][Next]_vars

\* A worker that has started something goes on; a crashed one is restarted.
GoOn(w) ==
  \/ Load(w) \/ BeginGroup(w) \/ Execute(w) \/ Succeed(w) \/ Fail(w)
  \/ \E t \in Task : \/ Drop(w, t) \/ AcquireLock(w, t) \/ LockedOut(w, t)
                     \/ FinishDone(w, t) \/ CountExecutions(w, t) \/ FinishFailed(w, t)
  \/ EndGroup(w) \/ EndBatch(w)
  \/ ExpireLoad(w) \/ ExpireMove(w) \/ ExpireCheck(w) \/ ExpireDrop(w) \/ ExpireDone(w)
  \/ Restart(w)

(* Every worker goes on (a hard timeout ends every execution); the loop of  *)
(* some worker comes back to each queue, to the scheduled tasks and to the  *)
(* expired ones; leases run out.                                            *)
Fairness ==
  /\ \A w \in Worker : WF_vars(GoOn(w))
  /\ \A q \in Queue : /\ SF_vars(\E w \in Worker : Pop(w, q))
                       /\ SF_vars(\E w \in Worker : Schedule(w, q))
  /\ SF_vars(\E w \in Worker : ExpireScan(w))
  /\ \A q \in Queue, t \in Task : WF_vars(Lapse(q, t))
  /\ \A l \in Lock : WF_vars(LockLapse(l))
  /\ SF_vars(ExpireLockLapse)

\* Workers crash and objects vanish any number of times, but not for ever.
FinallyStable ==
  <>[][(\A w \in Worker : ~Crash(w)) /\ (\A t \in Task : ~Vanish(t))]_vars

FairSpec == Spec /\ Fairness /\ FinallyStable

-----------------------------------------------------------------------------
(* Properties.                                                              *)

Retrievable(q, t) == t \in object /\ \E s \in State : In(s, q, t) /\ q \in index[s]

(* A request a client made (delay, or retry of a failed task) and that no   *)
(* later successful execution has served, and that nobody gave up, is still *)
(* there: the task has its object and is in a set of its queue that the     *)
(* index of that state lists, where workers and operators find it.          *)
NoLostTask == \A e \in owed : e[2] \notin vanished => Retrievable(e[1], e[2])

(* Two workers never execute the same task of a queue at once: the active   *)
(* set is the ownership record, zpoppush defers what is in it already.      *)
(* This is of live workers: a child that outlived its worker may execute    *)
(* the same entry as the worker that found it again.                        *)
NoConcurrentExecution ==
  \A v, w \in Worker, t \in Task :
    v # w /\ Executing(v, t) /\ Executing(w, t) => wq[v] # wq[w]

(* Two workers never execute tasks that need the same lock at once.  Nor    *)
(* does one execute a task whose lock a worker that is gone left behind:    *)
(* until the lease has run out, no worker executes beside the child of that *)
(* one.  After that they overlap, if the child is still there.              *)
LockExclusion ==
  \A w \in Worker, u \in Task :
    Executing(w, u) /\ LockOf[u] # NoLock =>
      /\ lock[LockOf[u]] # Orphan
      /\ \A v \in Worker \ {w}, t \in Task : Executing(v, t) => LockOf[t] # LockOf[u]

(* The index of each state holds exactly the queues with a task in that     *)
(* state (tasktiger.py: "Set of all queues that contain items in the given  *)
(* state"): a queue missing from it is never scheduled, expired or polled.  *)
IndexExact ==
  \A s \in State, q \in Queue : q \in index[s] <=> zset[s][q] # {}

(* Whatever is late, the indexes that workers poll and schedule from are    *)
(* exact, and no index lists a queue that has nothing in that state.        *)
IndexSound ==
  \A s \in State, q \in Queue :
    /\ q \in index[s] => zset[s][q] # {}
    /\ s # ACTIVE /\ zset[s][q] # {} => q \in index[s]

(* The object of a task exists exactly while some queue holds the task: no  *)
(* task without data for a worker to drop, no object left behind for ever.  *)
StoreConsistent ==
  \A t \in Task : t \in object <=> \E s \in State, q \in Queue : In(s, q, t)

\* No worker is ended by a TaskNotFound that nothing handles.
NoUnhandledTaskNotFound == \A w \in Worker : pc[w] # "raised"

(* A task that is neither idempotent nor unique is executed again only      *)
(* after a retry: one that its retry method scheduled when an execution     *)
(* failed, or one a client asked for.  Expiry never executes it again, so   *)
(* that it runs beside a child that outlived its worker only if a client    *)
(* retries it meanwhile.                                                    *)
AtMostOnce ==
  [][\A w \in Worker : pc[w] # "exec" /\ pc'[w] = "exec"
       => JobsIn(w, {"ready"}) \cap spent = {}]_vars

\* A task with an ID of its own is in one set at a time.
SingleCopy ==
  \A t \in Task \ Unique : \A s, r \in State, q \in Queue :
    In(s, q, t) /\ In(r, q, t) => s = r

(* The stored executions of a task are not deleted while the task is in the *)
(* error set, where an operator looks for them, except with the task itself *)
(* when it is deleted there.                                                *)
HistoryKept ==
  [][\A t \in executions \ executions' : \A q \in Queue : ~In(ERROR, q, t)']_vars

(* No entry stays in the active set: its worker finishes it, or the entry   *)
(* of a worker that is gone expires and another worker requeues or fails it.*)
ActiveEntriesLeave ==
  \A q \in Queue, t \in Task : In(ACTIVE, q, t) ~> ~In(ACTIVE, q, t)

(* Every request is served or given up, is part of an execution, or its     *)
(* task failed for good and waits in the error set, or lost its object.     *)
RequestsAreTried ==
  \A e \in Entry :
    e \in owed ~> \/ e \notin owed
                  \/ In(ERROR, e[1], e[2]) \/ e[2] \in vanished
                  \/ \E w \in Worker : /\ wq[w] = e[1] /\ e[2] \in covered[w]
                                       /\ Executing(w, e[2])

-----------------------------------------------------------------------------
(* The inductive invariant behind NoConcurrentExecution and LockExclusion,  *)
(* when workers are timely and batches safe.                                *)

Holds(w, t) == job[w][t] # "none"

\* Tasks are only where clients delayed them to.
QueuesRespected ==
  /\ \A s \in State, q \in Queue, t \in Task : In(s, q, t) => q \in QueuesOf[t]
  /\ \A w \in Worker, t \in Task : Holds(w, t) => wq[w] \in QueuesOf[t]

\* What can be the job of a task when its worker is at p.
JobsAt(p) ==
  CASE p = "load" -> {"none", "popped"}
    [] p = "batch" -> {"none", "missing", "loaded"}
    [] p = "lock" -> {"none", "locking", "ready"}
    [] p \in {"exec", "done"} -> {"none", "ready"}
    [] p = "failed" -> {"none", "ready", "retrying", "quiet"}
    [] OTHER -> {"none"}

PhasesRespected ==
  \A w \in Worker, t \in Task : job[w][t] \in JobsAt(pc[w])

OneFunction ==
  \A w \in Worker, t, u \in Task : Holds(w, t) /\ Holds(w, u) => FuncOf[t] = FuncOf[u]

\* A worker's tasks are active, with fresh heartbeats, and nobody else's.
HeldAreActive ==
  \A w \in Worker, t \in Task :
    Holds(w, t) => In(ACTIVE, wq[w], t) /\ t \notin stale[wq[w]]

HeldOnce ==
  \A v, w \in Worker, t \in Task :
    v # w /\ Holds(v, t) /\ Holds(w, t) => wq[v] # wq[w]

StaleAreActive == \A q \in Queue : stale[q] \subseteq zset[ACTIVE][q]

\* One worker at a time expires tasks, and what it is about to move is stale.
ExpiredAreStale ==
  \A w \in Worker :
    /\ pc[w] \in Expiring => expLock = w
    /\ pc[w] \notin Expiring => expired[w] = {}
    /\ \A e \in expired[w] : e[2] \in stale[e[1]]
    /\ pc[w] \in Expiring \ {"expire"} =>
         cur[w] \notin expired[w] /\ cur[w][2] \in stale[cur[w][1]]

Ownership ==
  /\ QueuesRespected
  /\ PhasesRespected
  /\ OneFunction
  /\ HeldAreActive
  /\ HeldOnce
  /\ StaleAreActive
  /\ ExpiredAreStale

(* Behind LockExclusion, when workers are timely: a task that is ready to   *)
(* execute, or executing, has its lock; only tasks of a group are ready.    *)
LocksHeld ==
  \A w \in Worker, t \in Task :
    job[w][t] = "ready" =>
      /\ pc[w] \in {"lock", "exec", "done", "failed"}
      /\ pc[w] \in {"lock", "exec"} /\ LockOf[t] # NoLock => lock[LockOf[t]] = w
=============================================================================
