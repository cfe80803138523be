---------------------------- MODULE WorkerProcess ----------------------------
(****************************************************************************)
(* One worker process from the inside: its main thread, which executes a    *)
(* group of tasks in a forked child and waits for it (ForkExecutor), or     *)
(* executes it itself while a thread sends the heartbeats (SyncExecutor);   *)
(* the child, and the statistics thread; the executions stored for each     *)
(* task; and how their number decides about retries.  The entries of the    *)
(* group are those of TaskQueues: this module shows what is behind its      *)
(* Timely and its Fail, Succeed and CountExecutions; a worker process that  *)
(* ends here (pc "gone") is its Crash.  That a worker with the SyncExecutor *)
(* exits after a timeout is Crash there too, and left out.                  *)
(*                                                                          *)
(* Time is a bounded clock.  It passes while the main thread waits in       *)
(* select, for the lock on forking or for the lock on statistics, and while *)
(* the thread that sends heartbeats sleeps; neither sleeps longer than it   *)
(* should.  Between two heartbeats a worker may also lose up to Lag: a slow *)
(* round trip, a process that is not scheduled.  The tasks, the child and   *)
(* the statistics thread are as fast or as slow as they like, and the tasks *)
(* may hang for ever.                                                       *)
(****************************************************************************)
EXTENDS Integers, FiniteSets

CONSTANTS
  Task,        \* the tasks of the group
  Timer,       \* ACTIVE_TASK_UPDATE_TIMER
  Allowance,   \* sum(hard_timeouts) + ACTIVE_TASK_UPDATE_TIMEOUT
  Lag,         \* bound on the time that a worker loses between two heartbeats
  Interval,    \* STATS_INTERVAL
  MaxRetries,  \* max_retries of the tasks' retry method
  MaxDeaths,   \* bound on the children that die or leave
  MaxTime,     \* bound on the clock
  None

ASSUME ProcessConstantsOK ==
  /\ IsFiniteSet(Task) /\ Task # {}
  /\ Timer \in Nat \ {0} /\ Allowance \in Nat /\ Lag \in Nat /\ Interval \in Nat \ {0}
  /\ MaxRetries \in Nat /\ MaxDeaths \in Nat /\ MaxTime \in Nat
  /\ None \notin Int

VARIABLES
  executor,  \* "fork" or "sync", for good
  clock,
  pc,        \* where the main thread is
  group,     \* the tasks that it executes, or has yet to finish
  retried,   \* the tasks that are scheduled for a retry
  success,   \* what execute returned
  began,     \* time_started
  slept,     \* when select, or the sleep of the heartbeat thread, began
  beat,      \* when the last heartbeat was, or the child was forked
  lost,      \* ghost: the time that the worker lost since the last heartbeat
  child,     \* the child: "none", "run", "store", "shutdown" or "exited"
  thread,    \* the heartbeat thread of the SyncExecutor: "off", "sleep" or "beat"
  code,      \* the child's exit status: "none", "0", "1", or "signal" if it died of
             \* something else
  outcome,   \* how the tasks ended: "none", "returned", "raised" an exception, or "left"
             \* by SystemExit or another BaseException
  left,      \* the tasks whose execution the child, or the main thread, has yet to store
  stored,    \* ghost: the tasks with an execution stored in this attempt
  deaths,    \* ghost: the children that died of something else, or left
  count,     \* count[t]: executions_count
  attempts,  \* ghost: attempts[t]: how often t was executed
  silent     \* ghost: silent[t]: how often nothing was stored about it

times == <<began, slept, beat, lost>>
mainVars == <<executor, pc, group, retried, success, times>>
childVars == <<child, thread, code, outcome, left, stored, deaths>>
taskVars == <<count, attempts, silent>>

VARIABLES
  spc,       \* the statistics thread: "wait", "read" or "log"
  snow,      \* the time it read
  mnow,      \* the time the main thread read
  startTime, \* _task_start_time, None if no task is running
  timeStart, \* _time_start
  timeBusy,  \* _time_busy
  balance,   \* ghost: the busy time reported, minus that of the tasks that ended
  trueStart  \* ghost: when the running task started

statVars == <<spc, snow, mnow, startTime, timeStart, timeBusy, balance, trueStart>>
vars == <<clock, mainVars, childVars, taskVars, statVars>>

PC == {"idle", "start", "fork", "check", "select", "recheck", "beat", "kill", "store",
       "sync", "join", "end", "ended", "finish", "gone"}
Alive == {"run", "store", "shutdown"}

TypeOK ==
  /\ executor \in {"fork", "sync"} /\ clock \in 0..MaxTime
  /\ pc \in PC
  /\ group \subseteq Task /\ retried \subseteq Task /\ group \cap retried = {}
  /\ success \in BOOLEAN
  /\ {began, slept, beat, snow, mnow, timeStart, trueStart} \subseteq 0..clock
  /\ lost \in 0..Lag
  /\ child \in {"none", "exited"} \cup Alive /\ thread \in {"off", "sleep", "beat"}
  /\ code \in {"none", "0", "1", "signal"}
  /\ outcome \in {"none", "returned", "raised", "left"}
  /\ left \subseteq group /\ stored \subseteq Task /\ deaths \in 0..MaxDeaths
  /\ count \in [Task -> Nat] /\ attempts \in [Task -> Nat] /\ silent \in [Task -> Nat]
  /\ spc \in {"wait", "read", "log"}
  /\ startTime \in (0..clock) \cup {None}
  /\ timeBusy \in Int /\ balance \in Int
  /\ child # "none" => pc \in {"check", "select", "recheck", "beat", "kill"}

Init ==
  /\ executor \in {"fork", "sync"} /\ clock = 0
  /\ pc = "idle" /\ group = Task /\ retried = {} /\ success = FALSE
  /\ began = 0 /\ slept = 0 /\ beat = 0 /\ lost = 0
  /\ child = "none" /\ thread = "off" /\ code = "none" /\ outcome = "none"
  /\ left = {} /\ stored = {} /\ deaths = 0
  /\ count = [t \in Task |-> 0]
  /\ attempts = [t \in Task |-> 0] /\ silent = [t \in Task |-> 0]
  /\ spc = "wait" /\ snow = 0 /\ mnow = 0
  /\ startTime = None /\ timeStart = 0 /\ timeBusy = 0
  /\ balance = 0 /\ trueStart = 0

Goto(p) == pc' = p

-----------------------------------------------------------------------------
(* Statistics: each report and each computation reads the clock, then takes *)
(* the lock.  The thread then logs, holding g_fork_lock.                    *)

\* report_task_start, the time
ReadStart ==
  /\ pc = "idle" /\ group # {}
  /\ Goto("start")
  /\ mnow' = clock /\ trueStart' = clock
  /\ UNCHANGED <<executor, clock, group, retried, success, times, childVars,
                 taskVars, spc, snow, startTime, timeStart, timeBusy, balance>>

ReportStart ==
  /\ pc = "start"
  /\ Goto("fork")
  /\ startTime' = mnow
  /\ UNCHANGED <<executor, clock, group, retried, success, times, childVars,
                 taskVars, spc, snow, mnow, timeStart, timeBusy, balance,
                 trueStart>>

\* report_task_end; execute has returned, and what it kept of times is gone.
ReadEnd ==
  /\ pc = "end"
  /\ Goto("ended")
  /\ mnow' = clock
  /\ began' = 0 /\ slept' = 0 /\ beat' = 0 /\ lost' = 0
  /\ UNCHANGED <<executor, clock, group, retried, success, childVars, taskVars,
                 spc, snow, startTime, timeStart, timeBusy, balance,
                 trueStart>>

ReportEnd ==
  /\ pc = "ended"
  /\ Goto("finish")
  /\ timeBusy' = timeBusy + mnow - startTime
  /\ startTime' = None
  /\ balance' = balance - (mnow - trueStart)
  /\ mnow' = 0 /\ trueStart' = 0
  /\ UNCHANGED <<executor, clock, group, retried, success, times, childVars,
                 taskVars, spc, snow, timeStart>>

\* compute_stats, the time; the last one is an interval ago.
ReadNow ==
  /\ spc = "wait" /\ clock >= timeStart + Interval
  /\ spc' = "read"
  /\ snow' = clock
  /\ UNCHANGED <<clock, mainVars, childVars, taskVars, mnow, startTime,
                 timeStart, timeBusy, balance, trueStart>>

\* Mutant: the running task keeps its start.
ComputeOnly ==
  /\ spc = "read"
  /\ spc' = "log"
  /\ timeStart' = snow
  /\ timeBusy' = 0
  /\ balance' = balance + timeBusy + (IF startTime = None THEN 0 ELSE snow - startTime)
  /\ UNCHANGED <<clock, mainVars, childVars, taskVars, snow, mnow, startTime,
                 trueStart>>

Compute ==
  /\ spc = "read"
  /\ spc' = "log"
  /\ timeStart' = snow
  /\ timeBusy' = 0
  /\ balance' = balance + timeBusy + (IF startTime = None THEN 0 ELSE snow - startTime)
  /\ startTime' = IF startTime = None THEN None ELSE snow
  /\ UNCHANGED <<clock, mainVars, childVars, taskVars, snow, mnow, trueStart>>

EndLog ==
  /\ spc = "log"
  /\ spc' = "wait"
  /\ UNCHANGED <<clock, mainVars, childVars, taskVars, snow, mnow, startTime,
                 timeStart, timeBusy, balance, trueStart>>

-----------------------------------------------------------------------------
(* ForkExecutor.execute in the main thread.                                 *)

\* Not while the statistics thread logs: g_fork_lock.
Fork ==
  /\ executor = "fork" /\ pc = "fork" /\ spc # "log"
  /\ Goto("check")
  /\ child' = "run" /\ code' = "none" /\ outcome' = "none"
  /\ left' = {} /\ stored' = {}
  /\ attempts' = [t \in Task |-> attempts[t] + (IF t \in group THEN 1 ELSE 0)]
  /\ began' = clock /\ beat' = clock /\ lost' = 0
  /\ UNCHANGED <<executor, clock, group, retried, success, slept, thread, deaths,
                 count, silent, statVars>>

\* Mutant: the child is not waited for.
ReapNone ==
  /\ pc \in {"check", "recheck"} /\ child = "exited"
  /\ Goto("end")
  /\ success' = (code = "0")
  /\ UNCHANGED <<executor, clock, group, retried, times, childVars, taskVars,
                 statVars>>

\* check_child_exit: the child is waited for, and gone.
Reap ==
  /\ pc \in {"check", "recheck"} /\ child = "exited"
  /\ Goto("end")
  /\ child' = "none"
  /\ success' = (code = "0")
  /\ UNCHANGED <<executor, clock, group, retried, times, thread, code, outcome,
                 left, stored, deaths, taskVars, statVars>>

Select ==
  /\ pc = "check" /\ child # "exited"
  /\ Goto("select")
  /\ slept' = clock
  /\ UNCHANGED <<executor, clock, group, retried, success, began, beat, lost,
                 childVars, taskVars, statVars>>

\* A signal, of the child or of somebody else, or the end of the timer.
Wake ==
  /\ pc = "select"
  /\ Goto("recheck")
  /\ UNCHANGED <<executor, clock, group, retried, success, times, childVars,
                 taskVars, statVars>>

\* Mutant: the time since select began.
OverdueSince == clock > slept + Allowance

\* now > timeout_at
Overdue == clock > began + Allowance

Recheck ==
  /\ pc = "recheck" /\ child # "exited"
  /\ Goto(IF Overdue THEN "kill" ELSE "beat")
  /\ UNCHANGED <<executor, clock, group, retried, success, times, childVars,
                 taskVars, statVars>>

\* Mutant: no heartbeat if a signal ended the wait before its time.
BeatOnTimeout ==
  /\ pc = "beat"
  /\ Goto("check")
  /\ IF clock < slept + Timer THEN UNCHANGED <<beat, lost>> ELSE beat' = clock /\ lost' = 0
  /\ UNCHANGED <<executor, clock, group, retried, success, began, slept,
                 childVars, taskVars, statVars>>

Beat ==
  /\ pc = "beat"
  /\ Goto("check")
  /\ beat' = clock /\ lost' = 0
  /\ UNCHANGED <<executor, clock, group, retried, success, began, slept,
                 childVars, taskVars, statVars>>

\* Mutant: what waitpid returns is the code of a child that was killed.
KillFirst ==
  /\ pc = "kill"
  /\ Goto("store")
  /\ child' = "none"
  /\ success' = TRUE
  /\ left' = group
  /\ UNCHANGED <<executor, clock, group, retried, times, thread, code, outcome,
                 stored, deaths, taskVars, statVars>>

\* SIGKILL and waitpid; a child that has exited meanwhile keeps its exit code.
Kill ==
  /\ pc = "kill"
  /\ Goto("store")
  /\ child' = "none"
  /\ success' = (child = "exited" /\ code = "0")
  /\ left' = group
  /\ UNCHANGED <<executor, clock, group, retried, times, thread, code, outcome,
                 stored, deaths, taskVars, statVars>>

\* store_task_execution, one task.
Store(t) ==
  /\ t \in left
  /\ left' = left \ {t}
  /\ stored' = stored \cup {t}
  /\ count' = [count EXCEPT ![t] = @ + 1]

StoreTimeout(t) ==
  /\ pc = "store"
  /\ Store(t)
  /\ Goto(IF left = {t} THEN "end" ELSE "store")
  /\ UNCHANGED <<executor, clock, group, retried, success, times, child, thread,
                 code, outcome, deaths, attempts, silent, statVars>>

-----------------------------------------------------------------------------
(* The child.                                                               *)

\* All tasks return, or one raises an exception.
ChildEnd ==
  /\ child = "run"
  /\ \/ child' = "shutdown" /\ outcome' = "returned" /\ UNCHANGED left
     \/ child' = "store" /\ outcome' = "raised" /\ left' = group
  /\ UNCHANGED <<clock, mainVars, thread, code, stored, deaths, taskVars, statVars>>

(* A BaseException that is no Exception passes execute_tasks, which stores  *)
(* nothing, and ends the child's copy of Worker.run: SystemExit with a      *)
(* status that the task chooses, KeyboardInterrupt with 0.                  *)
ChildLeave ==
  /\ child = "run" /\ deaths < MaxDeaths
  /\ child' = "exited" /\ outcome' = "left" /\ code' \in {"0", "1"}
  /\ deaths' = deaths + 1
  /\ UNCHANGED <<clock, mainVars, thread, left, stored, taskVars, statVars>>

ChildStore(t) ==
  /\ child = "store"
  /\ Store(t)
  /\ child' = IF left = {t} THEN "shutdown" ELSE "store"
  /\ UNCHANGED <<clock, mainVars, thread, code, outcome, deaths, attempts,
                 silent, statVars>>

\* After threading._shutdown, with int(not success).
ChildExit ==
  /\ child = "shutdown"
  /\ child' = "exited"
  /\ code' = IF outcome = "returned" THEN "0" ELSE "1"
  /\ UNCHANGED <<clock, mainVars, thread, outcome, left, stored, deaths,
                 taskVars, statVars>>

ChildDies ==
  /\ child \in Alive /\ deaths < MaxDeaths
  /\ child' = "exited" /\ code' = "signal" /\ left' = {}
  /\ deaths' = deaths + 1
  /\ UNCHANGED <<clock, mainVars, thread, outcome, stored, taskVars, statVars>>

-----------------------------------------------------------------------------
(* SyncExecutor.execute: the main thread and the thread that sends the      *)
(* heartbeats.                                                              *)

SyncStart ==
  /\ executor = "sync" /\ pc = "fork"
  /\ Goto("sync")
  /\ thread' = "sleep" /\ code' = "none" /\ outcome' = "none"
  /\ left' = {} /\ stored' = {}
  /\ attempts' = [t \in Task |-> attempts[t] + (IF t \in group THEN 1 ELSE 0)]
  /\ began' = clock /\ slept' = clock /\ beat' = clock /\ lost' = 0
  /\ UNCHANGED <<executor, clock, group, retried, success, child, deaths, count,
                 silent, statVars>>

\* All tasks return, one raises an exception, or one raises SystemExit.
SyncEnd ==
  /\ pc = "sync" /\ left = {}
  /\ \/ Goto("join") /\ outcome' \in {"returned", "left"} /\ UNCHANGED left
     \/ left' = group /\ outcome' = "raised" /\ UNCHANGED pc
  /\ UNCHANGED <<executor, clock, group, retried, success, times, child, thread,
                 code, stored, deaths, taskVars, statVars>>

SyncStore(t) ==
  /\ pc = "sync"
  /\ Store(t)
  /\ Goto(IF left = {t} THEN "join" ELSE "sync")
  /\ UNCHANGED <<executor, clock, group, retried, success, times, child, thread,
                 code, outcome, deaths, attempts, silent, statVars>>

\* stop_event.wait ends without the event.
ThreadWake ==
  /\ thread = "sleep" /\ pc = "sync" /\ clock >= slept + Timer
  /\ thread' = "beat"
  /\ UNCHANGED <<clock, mainVars, child, code, outcome, left, stored, deaths,
                 taskVars, statVars>>

ThreadBeat ==
  /\ thread = "beat"
  /\ thread' = "sleep"
  /\ beat' = clock /\ slept' = clock /\ lost' = 0
  /\ UNCHANGED <<executor, clock, pc, group, retried, success, began, child,
                 code, outcome, left, stored, deaths, taskVars, statVars>>

\* stop_event is set when the main thread is to join.
ThreadEnd ==
  /\ thread = "sleep" /\ pc # "sync"
  /\ thread' = "off"
  /\ UNCHANGED <<clock, mainVars, child, code, outcome, left, stored, deaths,
                 taskVars, statVars>>

\* Mutant: without join.
SyncGoOn ==
  /\ pc = "join"
  /\ Goto(IF outcome = "left" THEN "gone" ELSE "end")
  /\ success' = (outcome = "returned")
  /\ UNCHANGED <<executor, clock, group, retried, times, childVars, taskVars,
                 statVars>>

\* heartbeat_thread.join; SystemExit then ends the worker, with its other threads.
SyncJoin ==
  /\ pc = "join" /\ thread = "off"
  /\ Goto(IF outcome = "left" THEN "gone" ELSE "end")
  /\ success' = (outcome = "returned")
  /\ UNCHANGED <<executor, clock, group, retried, times, childVars, taskVars,
                 statVars>>

-----------------------------------------------------------------------------
(* _finish_task_processing, as far as the number of executions matters: the *)
(* tasks have a retry method that allows MaxRetries, and may have retry_on. *)

\* Mutant: off by one.
OneMoreRetry(n) == n <= MaxRetries + 1

\* The retry methods of retry.py raise StopRetry if retry > max_retries.
MayRetry(n) == n <= MaxRetries

\* n_executions() or 1
RetryNum(t) == IF count[t] = 0 THEN 1 ELSE count[t]

Finish(t) ==
  /\ pc = "finish" /\ t \in group
  /\ group' = group \ {t}
  /\ IF ~success /\ MayRetry(RetryNum(t))
     THEN retried' \in {retried, retried \cup {t}}
     ELSE UNCHANGED retried
  /\ silent' = [silent EXCEPT ![t] = IF ~success /\ t \notin stored THEN @ + 1 ELSE @]
  /\ left' = left \ {t}
  /\ UNCHANGED <<executor, clock, pc, success, times, child, thread, code,
                 outcome, stored, deaths, count, attempts, statVars>>

\* The retries are due; the tasks are popped in one batch again.
NextGroup ==
  /\ pc = "finish" /\ group = {}
  /\ Goto("idle")
  /\ group' = retried /\ retried' = {}
  /\ success' = FALSE /\ stored' = {} /\ code' = "none" /\ outcome' = "none"
  /\ UNCHANGED <<executor, clock, times, child, thread, left, deaths, taskVars,
                 statVars>>

-----------------------------------------------------------------------------
\* The main thread waits, and not longer than it may.
Waiting ==
  \/ pc \in {"idle", "start", "ended"}
  \/ pc = "fork" /\ executor = "fork" /\ spc = "log"
  \/ pc = "select" /\ clock < slept + Timer
  \/ pc = "sync" /\ thread = "sleep" /\ clock < slept + Timer

Tick ==
  /\ Waiting /\ clock < MaxTime
  /\ clock' = clock + 1
  /\ UNCHANGED <<mainVars, childVars, taskVars, statVars>>

\* The worker is late while tasks are executed.
Lose ==
  /\ pc \in {"check", "select", "recheck", "beat", "kill", "sync"}
  /\ lost < Lag /\ clock < MaxTime
  /\ clock' = clock + 1 /\ lost' = lost + 1
  /\ UNCHANGED <<executor, pc, group, retried, success, began, slept, beat, childVars,
                 taskVars, statVars>>

Main ==
  \/ ReadStart \/ ReportStart \/ Fork \/ Reap \/ Select \/ Wake \/ Recheck \/ Beat \/ Kill
  \/ SyncStart \/ SyncEnd \/ SyncJoin
  \/ ReadEnd \/ ReportEnd \/ NextGroup
  \/ \E t \in Task : StoreTimeout(t) \/ SyncStore(t) \/ Finish(t)

Child == ChildEnd \/ ChildLeave \/ ChildExit \/ ChildDies \/ \E t \in Task : ChildStore(t)

Stats == pc # "gone" /\ (ReadNow \/ Compute \/ EndLog)

Thread == ThreadWake \/ ThreadBeat \/ ThreadEnd

Next == Main \/ Child \/ Thread \/ Stats \/ Tick \/ Lose

Spec == Init /\ [][Next]_vars

-----------------------------------------------------------------------------
(* Properties.                                                              *)

(* Whatever wakes the main thread, and however late it is, the entries of   *)
(* the tasks get a heartbeat every Timer, and what the worker lost, while   *)
(* they are executed: if ACTIVE_TASK_UPDATE_TIMEOUT is more than that, they *)
(* expire under no live worker.                                             *)
HeartbeatsInTime == child \in Alive \/ pc = "sync" => clock <= beat + Timer + Lag

(* No heartbeat comes after the outcome is known and the entries of the     *)
(* tasks are moved: it is a plain zadd and would bring them back.           *)
NoLateHeartbeat == [][beat' > beat => pc \in {"fork", "beat", "sync", "join"}]_vars

(* A child that hangs is killed: it outlives its time by one Timer, and by  *)
(* what the worker lost before and after the last heartbeat, at most, so    *)
(* that every execution comes to an end.                                    *)
ChildGoneInTime == child \in Alive => clock <= began + Allowance + Timer + 2 * Lag

(* Success is reported if all tasks returned, also of a child that exited   *)
(* just before it was to be killed, or if one left the child with status 0, *)
(* and never of an exception; and failure comes with an execution stored    *)
(* for each task, unless the child left or died of something else.          *)
OutcomeKnown ==
  pc \in {"end", "ended"} =>
    /\ success => outcome = "returned" \/ (outcome = "left" /\ code = "0")
    /\ success \/ group \subseteq stored \/ outcome = "left" \/ code = "signal"

(* No interval of work is counted twice or left out by the statistics,      *)
(* though the clock is read before the lock is taken: what one computation  *)
(* gets too much, or too little, the next one makes good.                   *)
BusyConserved ==
  balance + timeBusy = IF startTime = None THEN 0 ELSE startTime - trueStart

(* A task is executed once more than its retry method allows, at most, if   *)
(* no executions are lost.                                                  *)
RetriesBounded == \A t \in Task : attempts[t] <= MaxRetries + 1 + silent[t]
=============================================================================
