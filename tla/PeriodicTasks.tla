---------------------------- MODULE PeriodicTasks ----------------------------
(****************************************************************************)
(* Times in the scheduled set, and the chain of executions of a periodic    *)
(* task.  A worker that starts schedules the task unless it is somewhere;   *)
(* from then on each execution schedules the next one just before it        *)
(* begins.  All requests for the task share one entry of the scheduled set, *)
(* whose time clients (delay, update_scheduled_time), retries, lock-outs    *)
(* and deferrals set, each with its own mode of zadd.                       *)
(*                                                                          *)
(* One queue; batches of one task; an entry expires only when its worker is *)
(* gone (TaskQueues has the details).  All tasks are unique.  Times are     *)
(* relative: phase is the time since the last multiple of the period, due   *)
(* the time left until a scheduled task may be queued, 0 if it may be now.  *)
(****************************************************************************)
EXTENDS TaskStore, Schedules

CONSTANTS
  Worker, Client,
  Periodic,    \* the periodic task
  Idempotent,  \* tasks with should_retry_on(JobTimeoutException)
  Locking,     \* tasks whose lock may be held by something else
  MayCrash,    \* workers that may crash
  Period,
  LockRetry,   \* LOCK_RETRY
  RetryDelays, \* what the retry method of a task may return
  MaxDelay     \* bound on the delays that clients ask for

Actor == Worker \cup Client

\* The queue all is about.
queue == CHOOSE q \in Queue : TRUE

ASSUME PeriodicConstantsOK ==
  /\ IsFiniteSet(Task) /\ Queue = {queue}
  /\ Periodic \in Task /\ None \notin Task
  /\ Idempotent \subseteq Task /\ Locking \subseteq Task /\ MayCrash \subseteq Worker
  /\ Worker \cap Client = {}
  /\ Period \in Nat \ {0} /\ LockRetry \in Nat /\ MaxDelay \in Nat
  /\ RetryDelays \subseteq Nat

VARIABLES
  due,     \* due[t]: the time left until t, scheduled, is due
  phase,   \* the time since the last multiple of the period
  pc,      \* pc[w]: where worker w is
  mine,    \* mine[w]: the task w has taken
  offer,   \* offer[a]: the task a is about to add, and its time left
  started  \* ghost: the periodic task was added, and not cancelled since

schedVars == <<due, phase, pc, mine, offer, started>>
vars == <<storeVars, schedVars>>

PC == {"off", "check", "ask", "idle", "took", "exec"}
Offer == [task : Task, in : Nat, state : {QUEUED, SCHEDULED}]

TypeOK ==
  /\ StoreTypeOK
  /\ due \in [Task -> Nat]
  /\ phase \in 0 .. Period - 1
  /\ pc \in [Worker -> PC]
  /\ mine \in [Worker -> Task \cup {None}]
  /\ offer \in [Actor -> Offer \cup {None}]
  /\ started \in BOOLEAN
  /\ \A t \in Task : due[t] # 0 => In(SCHEDULED, queue, t)

Init ==
  /\ StoreInit
  /\ due = [t \in Task |-> 0]
  /\ phase = 0
  /\ pc = [w \in Worker |-> "off"]
  /\ mine = [w \in Worker |-> None]
  /\ offer = [a \in Actor |-> None]
  /\ started = FALSE

\* Where w goes, with task t.
Go(w, p, t) == pc' = [pc EXCEPT ![w] = p] /\ mine' = [mine EXCEPT ![w] = t]

-----------------------------------------------------------------------------
(* The time of a task in the scheduled set.                                 *)

\* zadd in mode "nx": the time of a task that is scheduled stays.
DueNX(t, d) ==
  [due EXCEPT ![t] = IF In(SCHEDULED, queue, t) THEN @ ELSE d]

\* Mutant: the later time.
DueMax(t, d) ==
  [due EXCEPT ![t] = IF In(SCHEDULED, queue, t) /\ @ > d THEN @ ELSE d]

\* Mode "min": the earlier time.
DueMin(t, d) ==
  [due EXCEPT ![t] = IF In(SCHEDULED, queue, t) /\ @ < d THEN @ ELSE d]

\* No mode.
DueSet(t, d) == [due EXCEPT ![t] = d]

-----------------------------------------------------------------------------
(* Task.delay: the time is computed, then the task is added; time may pass  *)
(* in between.  (max_queue_size, another round trip there, is left out: the *)
(* exception it raises where nothing handles it ends a worker like Crash.)  *)

\* a wants t to be executed in d.
Ask(a, t, d) ==
  offer' = [offer EXCEPT ![a] =
    [task |-> t, in |-> d, state |-> IF d = 0 THEN QUEUED ELSE SCHEDULED]]

\* The pipeline.
Add(a) ==
  LET o == offer[a]
  IN  /\ o # None
      /\ AddTask(queue, o.task, o.state)
      /\ due' = IF o.state = SCHEDULED THEN DueNX(o.task, o.in) ELSE due
      /\ offer' = [offer EXCEPT ![a] = None]
      /\ started' = (started \/ o.task = Periodic)
      /\ UNCHANGED phase

-----------------------------------------------------------------------------
(* Clients.                                                                 *)

ClientAsk(c, t, d) ==
  /\ offer[c] = None
  /\ Ask(c, t, d)
  /\ UNCHANGED <<storeVars, due, phase, pc, mine, started>>

ClientAdd(c) == Add(c) /\ UNCHANGED <<pc, mine>>

\* update_scheduled_time
Update(t, d) ==
  /\ In(SCHEDULED, queue, t)
  /\ due' = DueSet(t, d)
  /\ UNCHANGED <<storeVars, phase, pc, mine, offer, started>>

Cancel(t) ==
  /\ RemoveTask(queue, t, SCHEDULED, TRUE)
  /\ due' = DueSet(t, 0)
  /\ started' = (started /\ t # Periodic)
  /\ UNCHANGED <<phase, pc, mine, offer>>

\* Task.retry, Task.delete
TakeFailed(t) ==
  /\ MoveTask(queue, t, ERROR, QUEUED) \/ RemoveTask(queue, t, ERROR, TRUE)
  /\ UNCHANGED schedVars

-----------------------------------------------------------------------------
(* The start of a worker.                                                   *)

Start(w) ==
  /\ pc[w] = "off"
  /\ Go(w, "check", None)
  /\ UNCHANGED <<storeVars, due, phase, offer, started>>

\* _queue_periodic_tasks: the task is somewhere already, or is scheduled.
Check(w) ==
  /\ pc[w] = "check"
  /\ Go(w, IF HeldOutside({ERROR}, queue, Periodic) THEN "idle" ELSE "ask", None)
  /\ UNCHANGED <<storeVars, due, phase, offer, started>>

\* The time until the next period, never now.
UntilNext == PeriodicDate(phase, Period, 0, None) - phase

\* _queue_for_next_period up to the pipeline of delay.
AskNext(w) ==
  /\ pc[w] = "ask" /\ offer[w] = None
  /\ Ask(w, Periodic, UntilNext)
  /\ UNCHANGED <<storeVars, due, phase, pc, mine, started>>

\* Then the worker that took the task executes it.
AddNext(w) ==
  /\ pc[w] = "ask"
  /\ Add(w)
  /\ Go(w, IF mine[w] = None THEN "idle" ELSE "exec", mine[w])

-----------------------------------------------------------------------------
(* A batch of one task.                                                     *)

\* zpoppush: a task that is active is put off, to the earlier time if it is scheduled.
Pop(w, t) ==
  /\ pc[w] = "idle"
  /\ In(QUEUED, queue, t)
  /\ PopToActive(queue, {t})
  /\ IF t \in PopMoved(queue, {t})
     THEN Go(w, "took", t) /\ UNCHANGED due
     ELSE due' = DueMin(t, LockRetry) /\ UNCHANGED <<pc, mine>>
  /\ UNCHANGED <<phase, offer, started>>

\* The lock of the task is not free; a task that is scheduled is not prolonged.
LockedOut(w) ==
  /\ pc[w] = "took" /\ mine[w] \in Locking
  /\ MoveTask(queue, mine[w], ACTIVE, SCHEDULED)
  /\ due' = DueMin(mine[w], LockRetry)
  /\ Go(w, "idle", None)
  /\ UNCHANGED <<phase, offer, started>>

\* Mutant: the next period is left to the next start of a worker.
PrepareNothing(w) ==
  /\ pc[w] = "took"
  /\ Go(w, "exec", mine[w])
  /\ UNCHANGED <<storeVars, due, phase, offer, started>>

\* _prepare_execution: before a periodic task is executed, its next period.
Prepare(w) ==
  /\ pc[w] = "took"
  /\ Go(w, IF mine[w] = Periodic THEN "ask" ELSE "exec", mine[w])
  /\ UNCHANGED <<storeVars, due, phase, offer, started>>

Succeed(w) ==
  /\ pc[w] = "exec"
  /\ RemoveTask(queue, mine[w], ACTIVE, TRUE)
  /\ Go(w, "idle", None)
  /\ UNCHANGED <<due, phase, offer, started>>

\* The task fails for good.
FailTask(w) ==
  /\ pc[w] = "exec"
  /\ MoveTask(queue, mine[w], ACTIVE, ERROR)
  /\ Go(w, "idle", None)
  /\ UNCHANGED <<due, phase, offer, started>>

\* It is retried in d: the time of a request that is scheduled is overwritten.
RetryTask(w, d) ==
  /\ pc[w] = "exec"
  /\ MoveTask(queue, mine[w], ACTIVE, SCHEDULED)
  /\ due' = DueSet(mine[w], d)
  /\ Go(w, "idle", None)
  /\ UNCHANGED <<phase, offer, started>>

-----------------------------------------------------------------------------
(* Maintenance, time and failures.                                          *)

\* A scheduled task that is due is queued.
Schedule(w, t) ==
  /\ pc[w] = "idle"
  /\ In(SCHEDULED, queue, t) /\ due[t] = 0
  /\ PopToQueued(queue, {t})
  /\ UNCHANGED schedVars

\* An entry whose worker is gone is queued again if the task is idempotent.
Expire(w, t) ==
  /\ pc[w] = "idle"
  /\ \A v \in Worker : mine[v] # t
  /\ MoveTask(queue, t, ACTIVE, IF t \in Idempotent THEN QUEUED ELSE ERROR)
  /\ UNCHANGED schedVars

Minus1(d) == IF d = 0 THEN 0 ELSE d - 1

Tick ==
  /\ phase' = (phase + 1) % Period
  /\ due' = [t \in Task |-> Minus1(due[t])]
  /\ offer' = [a \in Actor |-> IF offer[a] = None THEN None
                               ELSE [offer[a] EXCEPT !.in = Minus1(@)]]
  /\ UNCHANGED <<storeVars, pc, mine, started>>

Crash(w) ==
  /\ w \in MayCrash /\ pc[w] # "off"
  /\ Go(w, "off", None)
  /\ offer' = [offer EXCEPT ![w] = None]
  /\ UNCHANGED <<storeVars, due, phase, started>>

-----------------------------------------------------------------------------
ClientStep ==
  \/ \E c \in Client : ClientAdd(c) \/ \E t \in Task, d \in 0..MaxDelay : ClientAsk(c, t, d)
  \/ \E t \in Task : Cancel(t) \/ TakeFailed(t) \/ \E d \in 0..MaxDelay : Update(t, d)

\* What a worker does next when it is not idle.
GoOn(w) ==
  \/ Start(w) \/ Check(w) \/ AskNext(w) \/ AddNext(w) \/ Prepare(w)
  \/ Succeed(w) \/ FailTask(w) \/ \E d \in RetryDelays : RetryTask(w, d)

Next ==
  \/ ClientStep
  \/ \E w \in Worker :
       \/ GoOn(w) \/ LockedOut(w) \/ Crash(w)
       \/ \E t \in Task : Pop(w, t) \/ Schedule(w, t) \/ Expire(w, t)
  \/ Tick

Spec == Init /\ [][Next]_vars

(* Workers go on and time passes; the periodic task, which keeps its place  *)
(* among the queued ones, has its turn to be popped, scheduled, expired and *)
(* to get its lock; crashes, and updates of its time, come to an end.       *)
FairSpec ==
  /\ Spec
  /\ WF_vars(Tick)
  /\ \A w \in Worker : WF_vars(GoOn(w))
  /\ SF_vars(\E w \in Worker : Pop(w, Periodic))
  /\ SF_vars(\E w \in Worker : Schedule(w, Periodic))
  /\ SF_vars(\E w \in Worker : Expire(w, Periodic))
  /\ SF_vars(\E w \in Worker : mine[w] = Periodic /\ Prepare(w))
  /\ <>[][/\ \A w \in Worker : ~Crash(w)
          /\ \A d \in 0..MaxDelay : ~Update(Periodic, d)]_vars

-----------------------------------------------------------------------------
(* Properties.                                                              *)

(* Once it is scheduled, a periodic task that nobody cancels is queued,     *)
(* active or scheduled, whatever fails or is retried, and whoever crashes   *)
(* if it is idempotent: no worker has to be started again for the next      *)
(* period (README.rst: "indefinitely").                                     *)
ChainAlive == started => HeldOutside({ERROR}, queue, Periodic)

(* And so it is executed again and again.                                   *)
PeriodKept ==
  started ~> ~started \/ \E w \in Worker : pc[w] = "exec" /\ mine[w] = Periodic

(* Of all that shares the time of a scheduled task, only a client that      *)
(* updates it and a retry ever put it off (worker.py: "if the task is       *)
(* already scheduled in case of a unique task, don't prolong the schedule   *)
(* date").                                                                  *)
NotProlonged ==
  [][\A t \in Task :
       In(SCHEDULED, queue, t) /\ In(SCHEDULED, queue, t)' /\ due'[t] > due[t]
       => \/ \E d \in 0..MaxDelay : Update(t, d)
          \/ \E w \in Worker, d \in RetryDelays : mine[w] = t /\ RetryTask(w, d)]_vars
=============================================================================
