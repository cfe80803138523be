--------------------------- MODULE TaskQueuesProofs ---------------------------
(****************************************************************************)
(* Theorems about TaskQueues, for any number of tasks, queues and workers.  *)
(****************************************************************************)
EXTENDS TaskQueues, FiniteSetTheorems, TLAPS

-----------------------------------------------------------------------------
(* Type correctness.                                                        *)

\* Every operation on the store keeps its type.
LEMMA StoreTyping ==
  ASSUME StoreTypeOK, NEW q \in Queue, NEW t \in Task, NEW from \in State, NEW to \in State
  PROVE  /\ MoveTask(q, t, from, to) => StoreTypeOK'
         /\ RemoveTask(q, t, from, FALSE) => StoreTypeOK'
         /\ RemoveTask(q, t, from, t \in Unique) => StoreTypeOK'
         /\ AddTask(q, t, to) => StoreTypeOK'
         /\ GrowStale(q, t) => StoreTypeOK'
<1> USE DEF StoreTypeOK, State, QUEUED, ACTIVE, SCHEDULED, ERROR
<1>1. MoveTask(q, t, from, to) => StoreTypeOK'
  BY DEF MoveTask, SRemIfNotExists, Unstale
<1>2. /\ RemoveTask(q, t, from, FALSE) => StoreTypeOK'
      /\ RemoveTask(q, t, from, t \in Unique) => StoreTypeOK'
  BY DEF RemoveTask, SRemIfNotExists, Unstale, KeepExecutions, KeepObject
<1>3. AddTask(q, t, to) => StoreTypeOK'
  BY DEF AddTask
<1>4. GrowStale(q, t) => StoreTypeOK'
  BY DEF GrowStale
<1> QED BY <1>1, <1>2, <1>3, <1>4

\* So do the batches of zpoppush, the heartbeats and the additions of stores.
LEMMA StoreBatchTyping ==
  ASSUME StoreTypeOK, NEW q \in Queue, NEW M \in SUBSET Task
  PROVE  /\ PopToActive(q, M) => StoreTypeOK'
         /\ PopToQueued(q, M) => StoreTypeOK'
         /\ TouchActive(q, M) => StoreTypeOK'
<1> USE DEF StoreTypeOK, State, QUEUED, ACTIVE, SCHEDULED, ERROR
<1>1. PopToActive(q, M) => StoreTypeOK'
  BY DEF PopToActive, SRemIfNotExists, PopMoved, PopDeferred
<1>2. PopToQueued(q, M) => StoreTypeOK'
  BY DEF PopToQueued, SRemIfNotExists
<1>3. TouchActive(q, M) => StoreTypeOK'
  BY DEF TouchActive, Unstale
<1> QED BY <1>1, <1>2, <1>3

\* The initial state is well formed.
LEMMA TypeInit == Init => TypeOK
<1> USE ConstantsOK
<1>1. SomeQueue \in Queue /\ NoEntry \in Entry
  BY DEF SomeQueue, NoEntry, Entry
<1>2. Init => StoreTypeOK
  BY DEF Init, StoreInit, StoreTypeOK
<1> QED BY <1>1, <1>2, SMTT(30) DEF Init, TypeOK, PC, Job, NoJobs

\* The steps of clients.
LEMMA TypeClient == TypeOK /\ Client => TypeOK'
<1> SUFFICES ASSUME TypeOK, Client PROVE TypeOK'
  OBVIOUS
<1> USE DEF workerVars, lockVars, ghostVars, Uncover
<1>1. ASSUME NEW t \in Task, NEW q \in Queue, NEW s \in {QUEUED, SCHEDULED}, Delay(q, t, s)
      PROVE  TypeOK'
  <2>1. StoreTypeOK'
    BY <1>1, StoreTyping DEF Delay, TypeOK, State
  <2> QED BY <1>1, <2>1 DEF Delay, TypeOK, Entry
<1>2. ASSUME NEW t \in Task, NEW q \in Queue, Retry(q, t) PROVE TypeOK'
  <2>1. StoreTypeOK'
    BY <1>2, StoreTyping DEF Retry, TypeOK, State
  <2> QED BY <1>2, <2>1 DEF Retry, TypeOK, Entry
<1>3. ASSUME NEW t \in Task, NEW q \in Queue, Cancel(q, t) PROVE TypeOK'
  <2>1. StoreTypeOK'
    BY <1>3, StoreTyping DEF Cancel, TypeOK, State
  <2> QED BY <1>3, <2>1 DEF Cancel, TypeOK, Entry
<1>4. ASSUME NEW t \in Task, NEW q \in Queue, Delete(q, t) PROVE TypeOK'
  <2>1. StoreTypeOK'
    BY <1>4, StoreTyping DEF Delete, TypeOK, State
  <2> QED BY <1>4, <2>1 DEF Delete, TypeOK, Entry
<1>5. ASSUME NEW t \in Task, Vanish(t) PROVE TypeOK'
  BY <1>5 DEF Vanish, TypeOK, StoreTypeOK
<1> QED BY <1>1, <1>2, <1>3, <1>4, <1>5 DEF Client

\* Ending the process keeps the types; so does an exception that ends it.
LEMMA TypeDie ==
  ASSUME TypeOK, NEW w \in Worker, NEW p \in Gone, Die(w, p)
  PROVE  TypeOK'
<1>1. SomeQueue \in Queue /\ NoEntry \in Entry
  BY ConstantsOK DEF SomeQueue, NoEntry, Entry
<1>2. StoreTypeOK'
  BY DEF TypeOK, Die, storeVars, StoreTypeOK
<1>3. orphans' \subseteq Entry
  BY ConstantsOK DEF TypeOK, Die, Entry
<1> QED BY <1>1, <1>2, <1>3 DEF TypeOK, Die, PC, Gone, Job, NoJobs

\* An uncaught TaskNotFound changes nothing but the worker it ends.
LEMMA TypeRaise ==
  ASSUME TypeOK, NEW w \in Worker, NEW q, NEW t, NEW from, Raise(w, q, t, from)
  PROVE  TypeOK'
BY TypeDie DEF Raise, Gone

\* Step types its worker's pc and jobs.
LEMMA TypeStep ==
  ASSUME TypeOK, NEW w \in Worker, NEW p \in PC, NEW S, NEW j \in Job, Step(w, p, S, j)
  PROVE  pc' \in [Worker -> PC] /\ job' \in [Worker -> [Task -> Job]]
BY DEF TypeOK, Step

\* The steps of a worker on its batch.
LEMMA TypeProcess == ASSUME TypeOK, NEW w \in Worker, Process(w) PROVE TypeOK'
<1> USE DEF PC, Job, InGroup, Expiring, Gone, workerVars, lockVars, ghostVars
<1>1. ASSUME NEW q \in Queue, Pop(w, q) PROVE TypeOK'
  <2>1. StoreTypeOK'
    <3>1. PICK M \in SUBSET zset[QUEUED][q] : PopToActive(q, M)
      BY <1>1 DEF Pop
    <3>2. StoreTypeOK /\ M \in SUBSET Task
      BY <3>1 DEF TypeOK, StoreTypeOK, State
    <3> QED BY <3>1, <3>2, StoreBatchTyping
  <2>2. pc' \in [Worker -> PC] /\ job' \in [Worker -> [Task -> Job]]
    BY <1>1, TypeStep DEF Pop, TypeOK
  <2>3. wq' = [wq EXCEPT ![w] = q] /\ UNCHANGED <<expired, full, cur, lockVars, ghostVars>>
    BY <1>1 DEF Pop
  <2> QED BY <2>1, <2>2, <2>3 DEF TypeOK
<1>2. CASE Load(w)
  <2>1. StoreTypeOK'
    BY <1>2 DEF Load, storeVars, TypeOK, StoreTypeOK
  <2> QED BY <1>2, <2>1 DEF Load, TypeOK
<1>3. ASSUME NEW t \in Task, Drop(w, t) PROVE TypeOK'
  <2>1. CASE /\ RemoveTask(wq[w], t, ACTIVE, FALSE)
             /\ Step(w, "batch", {t}, "none")
             /\ UNCHANGED <<wq, expired, full, cur, lockVars, ghostVars>>
    <3>1. StoreTypeOK'
      BY <2>1, StoreTyping DEF TypeOK, State
    <3>2. pc' \in [Worker -> PC] /\ job' \in [Worker -> [Task -> Job]]
      BY <2>1, TypeStep
    <3> QED BY <2>1, <3>1, <3>2 DEF TypeOK
  <2>2. CASE Raise(w, wq[w], t, ACTIVE)
    BY <2>2, TypeRaise
  <2> QED BY <1>3, <2>1, <2>2 DEF Drop
<1>4. CASE BeginGroup(w)
  <2>1. StoreTypeOK'
    BY <1>4 DEF BeginGroup, storeVars, TypeOK, StoreTypeOK
  <2>2. pc' \in [Worker -> PC] /\ job' \in [Worker -> [Task -> Job]]
    BY <1>4, TypeStep DEF BeginGroup
  <2> QED BY <1>4, <2>1, <2>2 DEF BeginGroup, TypeOK
<1>5. ASSUME NEW t \in Task, AcquireLock(w, t) PROVE TypeOK'
  <2>1. StoreTypeOK'
    BY <1>5 DEF AcquireLock, storeVars, TypeOK, StoreTypeOK
  <2>2. pc' \in [Worker -> PC] /\ job' \in [Worker -> [Task -> Job]]
    BY <1>5, TypeStep DEF AcquireLock
  <2> QED BY <1>5, <2>1, <2>2 DEF AcquireLock, TypeOK
<1>6. ASSUME NEW t \in Task, LockedOut(w, t) PROVE TypeOK'
  <2>1. CASE /\ MoveTask(wq[w], t, ACTIVE, SCHEDULED)
             /\ Step(w, "lock", {t}, "none")
             /\ UNCHANGED <<wq, expired, full, cur, lockVars, ghostVars>>
    <3>1. StoreTypeOK'
      BY <2>1, StoreTyping DEF TypeOK, State
    <3>2. pc' \in [Worker -> PC] /\ job' \in [Worker -> [Task -> Job]]
      BY <2>1, TypeStep
    <3> QED BY <2>1, <3>1, <3>2 DEF TypeOK
  <2>2. CASE Raise(w, wq[w], t, ACTIVE)
    BY <2>2, TypeRaise
  <2> QED BY <1>6, <2>1, <2>2 DEF LockedOut
<1>7. CASE Execute(w)
  BY <1>7 DEF Execute, JobsIn, storeVars, TypeOK, StoreTypeOK
<1>8. CASE Heartbeat(w)
  <2>1. StoreTypeOK'
    BY <1>8, StoreBatchTyping DEF Heartbeat, JobsIn, TypeOK
  <2> QED BY <1>8, <2>1 DEF Heartbeat, TypeOK
<1>9. CASE Succeed(w)
  BY <1>9 DEF Succeed, Release, storeVars, TypeOK, StoreTypeOK
<1>10. CASE Fail(w)
  BY <1>10 DEF Fail, Release, JobsIn, TypeOK, StoreTypeOK
<1>11. ASSUME NEW t \in Task, FinishDone(w, t) PROVE TypeOK'
  <2>1. CASE /\ RemoveTask(wq[w], t, ACTIVE, t \in Unique)
             /\ Step(w, pc[w], {t}, "none")
             /\ Settle(w, t)
             /\ UNCHANGED <<wq, expired, full, cur, lockVars, created, vanished, covered, spent>>
    <3>1. StoreTypeOK'
      BY <2>1, StoreTyping DEF TypeOK, State
    <3>2. pc' \in [Worker -> PC] /\ job' \in [Worker -> [Task -> Job]]
      BY <2>1, TypeStep DEF TypeOK
    <3> QED BY <2>1, <3>1, <3>2 DEF Settle, TypeOK
  <2>2. CASE Raise(w, wq[w], t, ACTIVE)
    BY <2>2, TypeRaise
  <2> QED BY <1>11, <2>1, <2>2 DEF FinishDone
<1>12. ASSUME NEW t \in Task, CountExecutions(w, t) PROVE TypeOK'
  <2>1. CASE Die(w, "raised")
    BY <2>1, TypeDie
  <2>2. CASE ~Die(w, "raised")
    <3>1. StoreTypeOK'
      BY <1>12, <2>2 DEF CountExecutions, storeVars, TypeOK, StoreTypeOK
    <3>2. pc' \in [Worker -> PC] /\ job' \in [Worker -> [Task -> Job]]
      BY <1>12, <2>2, TypeStep DEF CountExecutions
    <3> QED BY <1>12, <2>2, <3>1, <3>2 DEF CountExecutions, TypeOK
  <2> QED BY <2>1, <2>2
<1>13. ASSUME NEW t \in Task, FinishFailed(w, t) PROVE TypeOK'
  <2>1. PICK to \in {ERROR, SCHEDULED} :
          \/ /\ MoveTask(wq[w], t, ACTIVE, to)
             /\ Step(w, "failed", {t}, "none")
             /\ spent' = IF to = SCHEDULED THEN spent \ {t} ELSE spent
             /\ UNCHANGED <<wq, expired, full, cur, lockVars, created, vanished, owed, covered>>
          \/ Raise(w, wq[w], t, ACTIVE)
    BY <1>13 DEF FinishFailed
  <2>2. CASE ~Raise(w, wq[w], t, ACTIVE)
    <3>1. StoreTypeOK'
      BY <2>1, <2>2, StoreTyping DEF TypeOK, State
    <3>2. pc' \in [Worker -> PC] /\ job' \in [Worker -> [Task -> Job]]
      BY <2>1, <2>2, TypeStep
    <3> QED BY <2>1, <2>2, <3>1, <3>2 DEF TypeOK
  <2>3. CASE Raise(w, wq[w], t, ACTIVE)
    BY <2>3, TypeRaise
  <2> QED BY <2>2, <2>3
<1>14. CASE EndGroup(w)
  BY <1>14 DEF EndGroup, storeVars, TypeOK, StoreTypeOK
<1>15. CASE EndBatch(w)
  BY <1>15 DEF EndBatch, storeVars, TypeOK, StoreTypeOK
<1> QED BY <1>1, <1>2, <1>3, <1>4, <1>5, <1>6, <1>7, <1>8, <1>9, <1>10, <1>11,
           <1>12, <1>13, <1>14, <1>15 DEF Process

\* The steps of a worker on scheduled and on expired tasks.
LEMMA TypeMaintain == ASSUME TypeOK, NEW w \in Worker, Maintain(w) PROVE TypeOK'
<1> USE DEF PC, Job, Expiring, Gone, workerVars, lockVars, ghostVars, Goto
<1>1. ASSUME NEW q \in Queue, Schedule(w, q) PROVE TypeOK'
  <2>1. StoreTypeOK'
    BY <1>1, StoreBatchTyping DEF Schedule, TypeOK, StoreTypeOK, State
  <2> QED BY <1>1, <2>1 DEF Schedule, TypeOK
<1>2. CASE ExpireScan(w)
  BY <1>2 DEF ExpireScan, StaleEntries, Entry, storeVars, TypeOK, StoreTypeOK
<1>3. CASE ExpireLoad(w)
  BY <1>3 DEF ExpireLoad, storeVars, TypeOK, StoreTypeOK
<1>4. CASE ExpireMove(w)
  <2> DEFINE q == cur[w][1]
             t == cur[w][2]
  <2>1. q \in Queue /\ t \in Task
    BY DEF TypeOK, Entry
  <2>2. StoreTypeOK'
    BY <1>4, <2>1, StoreTyping DEF ExpireMove, storeVars, TypeOK, StoreTypeOK, State
  <2> QED BY <1>4, <2>2 DEF ExpireMove, TypeOK
<1>5. CASE ExpireCheck(w)
  BY <1>5 DEF ExpireCheck, storeVars, TypeOK, StoreTypeOK
<1>6. CASE ExpireDrop(w)
  <2> DEFINE q == cur[w][1]
             t == cur[w][2]
  <2>1. q \in Queue /\ t \in Task
    BY DEF TypeOK, Entry
  <2>2. CASE RemoveTask(q, t, ACTIVE, FALSE) /\ Goto(w, "expire")
    <3>1. StoreTypeOK'
      BY <2>1, <2>2, StoreTyping DEF TypeOK, State
    <3> QED BY <2>2, <3>1 DEF TypeOK
  <2>3. CASE Raise(w, q, t, ACTIVE)
    BY <2>3, TypeRaise
  <2> QED BY <1>6, <2>2, <2>3 DEF ExpireDrop
<1>7. CASE ExpireDone(w)
  <2>1. NoEntry \in Entry
    BY ConstantsOK DEF NoEntry, SomeQueue, Entry
  <2> QED BY <1>7, <2>1 DEF ExpireDone, storeVars, TypeOK, StoreTypeOK
<1> QED BY <1>1, <1>2, <1>3, <1>4, <1>5, <1>6, <1>7 DEF Maintain

\* Time, failures and restarts.
LEMMA TypeEnvironment == TypeOK /\ Environment => TypeOK'
<1> SUFFICES ASSUME TypeOK, Environment PROVE TypeOK'
  OBVIOUS
<1> USE DEF workerVars, lockVars, ghostVars
<1>1. ASSUME NEW q \in Queue, NEW t \in Task, Lapse(q, t) PROVE TypeOK'
  <2>1. StoreTypeOK'
    BY <1>1, StoreTyping DEF Lapse, TypeOK, State
  <2> QED BY <1>1, <2>1 DEF Lapse, TypeOK
<1>2. ASSUME NEW l \in Lock, LockLapse(l) PROVE TypeOK'
  BY <1>2 DEF LockLapse, storeVars, TypeOK, StoreTypeOK
<1>3. CASE ExpireLockLapse
  BY <1>3 DEF ExpireLockLapse, storeVars, TypeOK, StoreTypeOK
<1>4. ASSUME NEW w \in Worker, Crash(w) PROVE TypeOK'
  BY <1>4, TypeDie DEF Crash, Gone
<1>5. ASSUME NEW w \in Worker, Restart(w) PROVE TypeOK'
  BY <1>5 DEF Restart, PC, storeVars, TypeOK, StoreTypeOK
<1>6. ASSUME NEW e \in Entry, ChildEnds(e) PROVE TypeOK'
  BY <1>6 DEF ChildEnds, TypeOK, StoreTypeOK, Entry
<1> QED BY <1>1, <1>2, <1>3, <1>4, <1>5, <1>6 DEF Environment

\* Every step preserves the types.
LEMMA TypeNext == TypeOK /\ [Next]_vars => TypeOK'
<1>1. TypeOK /\ UNCHANGED vars => TypeOK'
  BY DEF TypeOK, StoreTypeOK, vars, storeVars, workerVars, lockVars, ghostVars
<1> QED BY <1>1, TypeClient, TypeProcess, TypeMaintain, TypeEnvironment DEF Next

\* The state of the store, of the workers and of the locks is always well formed.
THEOREM TypeCorrect == Spec => []TypeOK
BY TypeInit, TypeNext, PTL DEF Spec

-----------------------------------------------------------------------------
(* Tasks are only in queues that clients delay them to.                     *)

\* No operation on the store puts a task into a queue that did not hold it,
\* but for the additions of delay and of heartbeat.
LEMMA StoreSpread ==
  ASSUME StoreTypeOK, NEW q \in Queue, NEW t \in Task, NEW from \in State, NEW to \in State,
         NEW r \in Queue, NEW u \in Task, NEW s \in State, In(s, r, u)'
  PROVE  /\ MoveTask(q, t, from, to) => \E s2 \in State : In(s2, r, u)
         /\ RemoveTask(q, t, from, FALSE) => In(s, r, u)
         /\ RemoveTask(q, t, from, t \in Unique) => In(s, r, u)
         /\ AddTask(q, t, to) => In(s, r, u) \/ (r = q /\ u = t)
         /\ \A M \in SUBSET Task :
              /\ PopToActive(q, M) /\ M \subseteq zset[QUEUED][q]
                   => \E s2 \in State : In(s2, r, u)
              /\ PopToQueued(q, M) /\ M \subseteq zset[SCHEDULED][q]
                   => \E s2 \in State : In(s2, r, u)
              /\ TouchActive(q, M) => In(s, r, u) \/ (r = q /\ u \in M)
<1> USE DEF StoreTypeOK, In
<1> QUEUED \in State /\ SCHEDULED \in State /\ ACTIVE \in State
  BY DEF State
<1>1. MoveTask(q, t, from, to) => \E s2 \in State : In(s2, r, u)
  BY DEF MoveTask
<1>2. /\ RemoveTask(q, t, from, FALSE) => In(s, r, u)
      /\ RemoveTask(q, t, from, t \in Unique) => In(s, r, u)
  <2>1. zset' = [zset EXCEPT ![from][q] = @ \ {t}] => In(s, r, u)
    OBVIOUS
  <2> QED BY <2>1 DEF RemoveTask
<1>3. AddTask(q, t, to) => In(s, r, u) \/ (r = q /\ u = t)
  BY DEF AddTask
<1>4. ASSUME NEW M \in SUBSET Task, PopToActive(q, M), M \subseteq zset[QUEUED][q]
      PROVE  \E s2 \in State : In(s2, r, u)
  BY <1>4 DEF PopToActive, PopMoved, PopDeferred
<1>5. ASSUME NEW M \in SUBSET Task, PopToQueued(q, M), M \subseteq zset[SCHEDULED][q]
      PROVE  \E s2 \in State : In(s2, r, u)
  BY <1>5 DEF PopToQueued
<1>6. ASSUME NEW M \in SUBSET Task, TouchActive(q, M)
      PROVE  In(s, r, u) \/ (r = q /\ u \in M)
  BY <1>6 DEF TouchActive
<1> QED BY <1>1, <1>2, <1>3, <1>4, <1>5, <1>6

\* What a step does to the jobs, unless it pops: none is new, none moves queue.
NoNewJobs ==
  \A w \in Worker, t \in Task : Holds(w, t)' => Holds(w, t) /\ wq'[w] = wq[w]

NoNewQueues ==
  \A s \in State, q \in Queue, t \in Task :
    In(s, q, t)' => \E s2 \in State : In(s2, q, t)

\* Tasks that spread to no other queue or worker stay where they may be.
LEMMA QueuesKept == QueuesRespected /\ NoNewJobs /\ NoNewQueues => QueuesRespected'
BY DEF QueuesRespected, NoNewJobs, NoNewQueues

\* A worker whose job is untouched gets no new tasks.
LEMMA JobsKept ==
  ASSUME TypeOK, UNCHANGED <<wq, job>>
  PROVE  NoNewJobs
BY DEF NoNewJobs, Holds

\* Neither does one that only passes on tasks it holds.
LEMMA StepShrinks ==
  ASSUME TypeOK, NEW w \in Worker, NEW p, NEW S, NEW j, Step(w, p, S, j), UNCHANGED wq,
         j = "none" \/ \A t \in S \cap Task : Holds(w, t)
  PROVE  NoNewJobs
BY DEF NoNewJobs, Holds, Step, TypeOK

\* Nor does one that ends.
LEMMA DieShrinks ==
  ASSUME TypeOK, NEW w \in Worker, NEW p, Die(w, p)
  PROVE  NoNewJobs /\ NoNewQueues
BY DEF NoNewJobs, NoNewQueues, Holds, Die, NoJobs, TypeOK, storeVars, In

\* Only Pop gives a worker new tasks.
LEMMA ProcessShrinks ==
  ASSUME TypeOK, NEW w \in Worker, Process(w), ~\E q \in Queue : Pop(w, q)
  PROVE  NoNewJobs
<1> USE DEF workerVars, lockVars, ghostVars
<1>1. CASE Load(w)
  BY <1>1 DEF Load, NoNewJobs, Holds, TypeOK
<1>2. ASSUME NEW t \in Task, Drop(w, t) PROVE NoNewJobs
  BY <1>2, StepShrinks, DieShrinks DEF Drop, Raise
<1>3. CASE BeginGroup(w)
  <2>1. PICK t \in JobsIn(w, {"loaded"}) :
          Step(w, "lock", {u \in JobsIn(w, {"loaded"}) : FuncOf[u] = FuncOf[t]}, "locking")
    BY <1>3 DEF BeginGroup
  <2> QED BY <1>3, <2>1, StepShrinks DEF BeginGroup, JobsIn, Holds
<1>4. ASSUME NEW t \in Task, AcquireLock(w, t) PROVE NoNewJobs
  BY <1>4, StepShrinks DEF AcquireLock, Holds
<1>5. ASSUME NEW t \in Task, LockedOut(w, t) PROVE NoNewJobs
  BY <1>5, StepShrinks, DieShrinks DEF LockedOut, Raise
<1>6. CASE Execute(w) \/ Heartbeat(w) \/ Succeed(w) \/ Fail(w) \/ EndGroup(w) \/ EndBatch(w)
  BY <1>6, JobsKept DEF Execute, Heartbeat, Succeed, Fail, EndGroup, EndBatch
<1>7. ASSUME NEW t \in Task, FinishDone(w, t) PROVE NoNewJobs
  BY <1>7, StepShrinks, DieShrinks DEF FinishDone, Raise
<1>8. ASSUME NEW t \in Task, CountExecutions(w, t) PROVE NoNewJobs
  BY <1>8, StepShrinks, DieShrinks DEF CountExecutions, Holds
<1>9. ASSUME NEW t \in Task, FinishFailed(w, t) PROVE NoNewJobs
  BY <1>9, StepShrinks, DieShrinks DEF FinishFailed, Raise
<1> QED BY <1>1, <1>2, <1>3, <1>4, <1>5, <1>6, <1>7, <1>8, <1>9 DEF Process

\* Schedulers and expirers hold no tasks.
LEMMA MaintainShrinks ==
  ASSUME TypeOK, NEW w \in Worker, Maintain(w)
  PROVE  NoNewJobs
<1> USE DEF workerVars, lockVars, ghostVars, Goto
<1>1. CASE ExpireDrop(w)
  BY <1>1, JobsKept, DieShrinks DEF ExpireDrop, Raise
<1>2. CASE ~ExpireDrop(w)
  BY <1>2, JobsKept
     DEF Maintain, Schedule, ExpireScan, ExpireLoad, ExpireMove, ExpireCheck, ExpireDone
<1> QED BY <1>1, <1>2

\* A step that leaves the sorted sets alone spreads nothing.
LEMMA ZsetKept == UNCHANGED zset => NoNewQueues
BY DEF NoNewQueues, In

\* Moving and removing spread no task to another queue.
LEMMA MoveSpread ==
  ASSUME TypeOK, NEW q \in Queue, NEW t \in Task, NEW from \in State, NEW to \in State
  PROVE  /\ MoveTask(q, t, from, to) => NoNewQueues
         /\ RemoveTask(q, t, from, FALSE) => NoNewQueues
         /\ RemoveTask(q, t, from, t \in Unique) => NoNewQueues
<1> USE DEF TypeOK
<1>1. MoveTask(q, t, from, to) => NoNewQueues
  BY StoreSpread DEF NoNewQueues
<1>2. RemoveTask(q, t, from, FALSE) => NoNewQueues
  BY StoreSpread DEF NoNewQueues
<1>3. RemoveTask(q, t, from, t \in Unique) => NoNewQueues
  BY StoreSpread DEF NoNewQueues
<1> QED BY <1>1, <1>2, <1>3

\* A worker on its batch moves tasks only within the queue of the batch.
LEMMA QueuesProcess ==
  ASSUME TypeOK, PhasesRespected, QueuesRespected, NEW w \in Worker, Process(w)
  PROVE  QueuesRespected'
<1> USE DEF workerVars, lockVars, ghostVars, storeVars
<1> ACTIVE \in State /\ SCHEDULED \in State /\ ERROR \in State /\ QUEUED \in State
  BY DEF State
<1>1. ASSUME NEW q \in Queue, Pop(w, q) PROVE QueuesRespected'
  <2>1. PICK M \in SUBSET zset[QUEUED][q] :
          /\ PopToActive(q, M)
          /\ IF PopMoved(q, M) = {} THEN UNCHANGED <<pc, job>>
             ELSE Step(w, "load", PopMoved(q, M), "popped")
    BY <1>1 DEF Pop
  <2>2. M \subseteq Task /\ \A t \in M : q \in QueuesOf[t]
    BY <2>1 DEF QueuesRespected, In, TypeOK, StoreTypeOK
  <2>3. NoNewQueues
    BY <2>1, <2>2, StoreSpread, ConstantsOK DEF NoNewQueues, TypeOK
  <2>4. \A v \in Worker, t \in Task : Holds(v, t)' =>
          IF v = w THEN wq'[v] = q /\ t \in M ELSE wq'[v] = wq[v] /\ Holds(v, t)
    BY <1>1, <2>1 DEF Pop, Holds, Step, PopMoved, TypeOK, PhasesRespected, JobsAt
  <2>5. \A s \in State, r \in Queue, t \in Task : In(s, r, t)' => r \in QueuesOf[t]
    BY <2>3 DEF QueuesRespected, NoNewQueues
  <2>6. \A v \in Worker, t \in Task : Holds(v, t)' => wq'[v] \in QueuesOf[t]
    BY <2>2, <2>4 DEF QueuesRespected
  <2> QED BY <2>5, <2>6 DEF QueuesRespected
<1>2. CASE Heartbeat(w)
  <2>1. \A s \in State, q \in Queue, t \in Task :
          In(s, q, t)' => In(s, q, t) \/ (q = wq[w] /\ job[w][t] = "ready")
    BY <1>2 DEF Heartbeat, TouchActive, JobsIn, In, TypeOK, StoreTypeOK
  <2> QED BY <1>2, <2>1 DEF Heartbeat, QueuesRespected, Holds
<1>3. CASE ~(\E q \in Queue : Pop(w, q)) /\ ~Heartbeat(w)
  <2>1. NoNewJobs
    BY <1>3, ProcessShrinks
  <2>2. NoNewQueues
    <3> wq[w] \in Queue
      BY DEF TypeOK
    <3>1. ASSUME NEW t \in Task, Drop(w, t) PROVE NoNewQueues
      BY <3>1, MoveSpread, DieShrinks DEF Drop, Raise
    <3>2. ASSUME NEW t \in Task, LockedOut(w, t) PROVE NoNewQueues
      BY <3>2, MoveSpread, DieShrinks DEF LockedOut, Raise
    <3>3. ASSUME NEW t \in Task, FinishDone(w, t) PROVE NoNewQueues
      BY <3>3, MoveSpread, DieShrinks DEF FinishDone, Raise
    <3>4. ASSUME NEW t \in Task, FinishFailed(w, t) PROVE NoNewQueues
      BY <3>4, MoveSpread, DieShrinks DEF FinishFailed, Raise
    <3>5. ASSUME NEW t \in Task, CountExecutions(w, t) PROVE NoNewQueues
      BY <3>5, ZsetKept, DieShrinks DEF CountExecutions
    <3>6. ASSUME NEW t \in Task, AcquireLock(w, t) PROVE NoNewQueues
      BY <3>6, ZsetKept DEF AcquireLock
    <3>7. CASE \/ Load(w) \/ BeginGroup(w) \/ Execute(w) \/ Succeed(w) \/ Fail(w)
               \/ EndGroup(w) \/ EndBatch(w)
      BY <3>7, ZsetKept DEF Load, BeginGroup, Execute, Succeed, Fail, EndGroup, EndBatch
    <3> QED BY <1>3, <3>1, <3>2, <3>3, <3>4, <3>5, <3>6, <3>7 DEF Process
  <2> QED BY <2>1, <2>2, QueuesKept
<1> QED BY <1>1, <1>2, <1>3

\* Every step keeps the tasks in the queues clients delayed them to.
LEMMA QueuesNext ==
  TypeOK /\ PhasesRespected /\ QueuesRespected /\ [Next]_vars => QueuesRespected'
<1> SUFFICES ASSUME TypeOK, PhasesRespected, QueuesRespected, [Next]_vars PROVE QueuesRespected'
  OBVIOUS
<1> USE DEF workerVars, lockVars, ghostVars, storeVars
<1> ACTIVE \in State /\ SCHEDULED \in State /\ ERROR \in State /\ QUEUED \in State
  BY DEF State
<1>1. CASE Client
  <2>1. NoNewJobs
    BY <1>1, JobsKept DEF Client, Delay, Retry, Cancel, Delete, Vanish
  <2>2. ASSUME NEW t \in Task, NEW q \in Queue, NEW s \in {QUEUED, SCHEDULED}, Delay(q, t, s)
        PROVE  QueuesRespected'
    <3>1. \A r \in State, p \in Queue, u \in Task :
            In(r, p, u)' => In(r, p, u) \/ (p = q /\ u = t)
      BY <2>2 DEF Delay, AddTask, In, TypeOK, StoreTypeOK
    <3> QED BY <2>1, <2>2, <3>1 DEF Delay, QueuesRespected, NoNewJobs
  <2>3. ASSUME NEW t \in Task, NEW q \in Queue, Retry(q, t) \/ Cancel(q, t) \/ Delete(q, t)
        PROVE  NoNewQueues
    BY <2>3, MoveSpread DEF Retry, Cancel, Delete
  <2>4. ASSUME NEW t \in Task, Vanish(t) PROVE NoNewQueues
    BY <2>4, ZsetKept DEF Vanish
  <2> QED BY <1>1, <2>1, <2>2, <2>3, <2>4, QueuesKept DEF Client
<1>2. ASSUME NEW w \in Worker, Process(w) PROVE QueuesRespected'
  BY <1>2, QueuesProcess
<1>3. ASSUME NEW w \in Worker, Maintain(w) PROVE QueuesRespected'
  <2>1. NoNewJobs
    BY <1>3, MaintainShrinks
  <2>2. ASSUME NEW q \in Queue, Schedule(w, q) PROVE NoNewQueues
    <3>1. PICK M \in SUBSET zset[SCHEDULED][q] : PopToQueued(q, M)
      BY <2>2 DEF Schedule
    <3>2. M \subseteq Task
      BY DEF TypeOK, StoreTypeOK
    <3> QED BY <3>1, <3>2, StoreSpread, ConstantsOK DEF NoNewQueues, TypeOK
  <2>3. cur[w][1] \in Queue /\ cur[w][2] \in Task
    BY DEF TypeOK, Entry
  <2>4. ExpireMove(w) \/ ExpireDrop(w) => NoNewQueues
    BY <2>3, MoveSpread, ZsetKept, DieShrinks DEF ExpireMove, ExpireDrop, Raise
  <2>5. ExpireScan(w) \/ ExpireLoad(w) \/ ExpireCheck(w) \/ ExpireDone(w) => NoNewQueues
    BY ZsetKept DEF ExpireScan, ExpireLoad, ExpireCheck, ExpireDone
  <2> QED BY <1>3, <2>1, <2>2, <2>4, <2>5, QueuesKept DEF Maintain
<1>4. CASE Environment
  <2>1. ASSUME NEW w \in Worker, Crash(w) PROVE NoNewJobs /\ NoNewQueues
    BY <2>1, DieShrinks DEF Crash
  <2>2. CASE ~\E w \in Worker : Crash(w)
    <3>1. UNCHANGED zset /\ UNCHANGED <<wq, job>>
      BY <1>4, <2>2
         DEF Environment, Lapse, GrowStale, LockLapse, ExpireLockLapse, Restart, ChildEnds
    <3> QED BY <3>1, ZsetKept, JobsKept, QueuesKept
  <2> QED BY <2>1, <2>2, QueuesKept
<1>5. CASE UNCHANGED vars
  <2>1. UNCHANGED zset /\ UNCHANGED <<wq, job>>
    BY <1>5 DEF vars
  <2> QED BY <2>1, ZsetKept, JobsKept, QueuesKept
<1> QED BY <1>1, <1>2, <1>3, <1>4, <1>5 DEF Next

-----------------------------------------------------------------------------
(* Ownership is preserved.                                                  *)

\* The cases of JobsAt, spelled out for the provers.
LEMMA JobsAtValues ==
  /\ JobsAt("load") = {"none", "popped"}
  /\ JobsAt("batch") = {"none", "missing", "loaded"}
  /\ JobsAt("lock") = {"none", "locking", "ready"}
  /\ JobsAt("exec") = {"none", "ready"}
  /\ JobsAt("done") = {"none", "ready"}
  /\ JobsAt("failed") = {"none", "ready", "retrying", "quiet"}
  /\ \A p \in {"idle"} \cup Expiring \cup Gone : JobsAt(p) = {"none"}
BY DEF JobsAt, Expiring, Gone

\* v's part of the state of the workers does not change.
SameWorker(v) ==
  /\ pc'[v] = pc[v] /\ wq'[v] = wq[v] /\ job'[v] = job[v]
  /\ expired'[v] = expired[v] /\ cur'[v] = cur[v]

\* The parts of an expired entry are a queue and a task.
LEMMA EntryTypes ==
  ASSUME TypeOK, NEW v \in Worker
  PROVE  /\ cur[v][1] \in Queue /\ cur[v][2] \in Task
         /\ \A e \in expired[v] : e[1] \in Queue /\ e[2] \in Task
<1>1. \A e \in Entry : e[1] \in Queue /\ e[2] \in Task
  BY DEF Entry
<1>2. cur[v] \in Entry /\ expired[v] \subseteq Entry
  BY DEF TypeOK
<1> QED BY <1>1, <1>2

\* A worker that expires nothing may let go of the tasks it holds.
LEMMA LetGo ==
  ASSUME TypeOK, Ownership, NEW w \in Worker,
         \A v \in Worker \ {w} : SameWorker(v),
         wq'[w] = wq[w], NoNewJobs, QueuesRespected',
         pc'[w] \notin Expiring, expired'[w] = {}, expLock' = expLock \/ expLock = w,
         \A t \in Task : job'[w][t] \in JobsAt(pc'[w]),
         \A r \in Queue : stale'[r] = stale[r],
         \A r \in Queue : \A u \in zset[ACTIVE][r] :
           u \in zset'[ACTIVE][r] \/ (r = wq[w] /\ Holds(w, u) /\ ~Holds(w, u)')
  PROVE  Ownership'
<1> USE DEF Ownership, SameWorker
<1>1. PhasesRespected'
  BY DEF PhasesRespected
<1>2. OneFunction'
  BY DEF OneFunction, NoNewJobs
<1>3. HeldOnce'
  BY DEF HeldOnce, NoNewJobs
<1>4. HeldAreActive'
  <2> SUFFICES ASSUME NEW v \in Worker, NEW t \in Task, Holds(v, t)'
               PROVE  In(ACTIVE, wq[v], t)' /\ t \notin stale'[wq[v]]
    BY DEF HeldAreActive, NoNewJobs
  <2>1. Holds(v, t) /\ wq[v] \in Queue
    BY DEF NoNewJobs, TypeOK
  <2>2. In(ACTIVE, wq[v], t) /\ t \notin stale[wq[v]]
    BY <2>1 DEF HeldAreActive
  <2>3. ~(v # w /\ wq[v] = wq[w] /\ Holds(w, t))
    BY <2>1 DEF HeldOnce
  <2> QED BY <2>1, <2>2, <2>3 DEF In
<1>5. StaleAreActive'
  <2> SUFFICES ASSUME NEW r \in Queue, NEW u \in stale[r] PROVE u \in zset'[ACTIVE][r]
    BY DEF StaleAreActive
  <2>1. u \in Task /\ u \in zset[ACTIVE][r]
    BY DEF TypeOK, StoreTypeOK, StaleAreActive
  <2>2. ~(r = wq[w] /\ Holds(w, u))
    BY <2>1 DEF HeldAreActive
  <2> QED BY <2>1, <2>2
<1>6. ExpiredAreStale'
  <2> SUFFICES ASSUME NEW v \in Worker \ {w}
               PROVE  /\ pc[v] \in Expiring => expLock = v
                      /\ pc[v] \notin Expiring => expired[v] = {}
                      /\ \A e \in expired[v] : e[2] \in stale'[e[1]]
                      /\ pc[v] \in Expiring \ {"expire"} =>
                           cur[v] \notin expired[v] /\ cur[v][2] \in stale'[cur[v][1]]
    BY DEF ExpiredAreStale
  <2> QED BY EntryTypes DEF ExpiredAreStale
<1> QED BY <1>1, <1>2, <1>3, <1>4, <1>5, <1>6

\* A step that leaves the workers alone takes nothing from the active sets.
LEMMA Unrelated ==
  ASSUME TypeOK, Ownership, QueuesRespected', UNCHANGED workerVars, expLock' = expLock,
         \A r \in Queue : stale'[r] = stale[r],
         \A r \in Queue : zset[ACTIVE][r] \subseteq zset'[ACTIVE][r]
  PROVE  Ownership'
<1> USE DEF Ownership, workerVars
<1>1. PhasesRespected' /\ OneFunction' /\ HeldOnce'
  BY DEF PhasesRespected, OneFunction, HeldOnce, Holds
<1>2. HeldAreActive' /\ StaleAreActive'
  BY DEF HeldAreActive, StaleAreActive, Holds, In, TypeOK
<1>3. ExpiredAreStale'
  BY EntryTypes DEF ExpiredAreStale
<1> QED BY <1>1, <1>2, <1>3

\* The end of a process lets go of everything the worker had.
LEMMA DieKeeps ==
  ASSUME TypeOK, Ownership, QueuesRespected', NEW w \in Worker, NEW p \in Gone, Die(w, p)
  PROVE  Ownership'
<1>1. \A v \in Worker \ {w} : SameWorker(v)
  BY DEF Die, SameWorker, TypeOK
<1>2. wq'[w] = wq[w] /\ pc'[w] = p /\ expired'[w] = {} /\ job'[w] = NoJobs
  BY DEF Die, TypeOK
<1>3. p \notin Expiring /\ \A t \in Task : job'[w][t] \in JobsAt(pc'[w])
  BY <1>2, JobsAtValues DEF Gone, Expiring, NoJobs
<1>4. UNCHANGED <<zset, stale>> /\ (expLock' = expLock \/ expLock = w) /\ NoNewJobs
  BY DieShrinks DEF Die, storeVars
<1> QED BY <1>1, <1>2, <1>3, <1>4, LetGo

\* What moving and removing a task does to the active sets.
LEMMA MoveEffect ==
  ASSUME TypeOK, NEW q \in Queue, NEW t \in Task, NEW from \in State, NEW to \in State \ {ACTIVE},
         \/ MoveTask(q, t, from, to)
         \/ RemoveTask(q, t, from, FALSE)
         \/ RemoveTask(q, t, from, t \in Unique)
  PROVE  /\ from # ACTIVE => /\ \A r \in Queue : stale'[r] = stale[r]
                             /\ \A r \in Queue : zset'[ACTIVE][r] = zset[ACTIVE][r]
         /\ from = ACTIVE =>
              /\ \A r \in Queue : stale'[r] = IF r = q THEN stale[r] \ {t} ELSE stale[r]
              /\ \A r \in Queue : zset'[ACTIVE][r] =
                   IF r = q THEN zset[ACTIVE][r] \ {t} ELSE zset[ACTIVE][r]
<1> USE DEF TypeOK, StoreTypeOK
<1> ACTIVE \in State
  BY DEF State
<1>1. stale' = IF from = ACTIVE THEN Unstale(q, {t}) ELSE stale
  BY DEF MoveTask, RemoveTask
<1>2. /\ from # ACTIVE => \A r \in Queue : stale'[r] = stale[r]
      /\ from = ACTIVE => \A r \in Queue :
           stale'[r] = IF r = q THEN stale[r] \ {t} ELSE stale[r]
  BY <1>1 DEF Unstale
<1>3. \/ zset' = [zset EXCEPT ![from][q] = @ \ {t}, ![to][q] = @ \cup {t}]
      \/ zset' = [zset EXCEPT ![from][q] = @ \ {t}]
  BY DEF MoveTask, RemoveTask
<1>4. /\ from # ACTIVE => \A r \in Queue : zset'[ACTIVE][r] = zset[ACTIVE][r]
      /\ from = ACTIVE => \A r \in Queue : zset'[ACTIVE][r] =
           IF r = q THEN zset[ACTIVE][r] \ {t} ELSE zset[ACTIVE][r]
  <2>1. CASE zset' = [zset EXCEPT ![from][q] = @ \ {t}]
    BY <2>1
  <2>2. CASE zset' = [zset EXCEPT ![from][q] = @ \ {t}, ![to][q] = @ \cup {t}]
    <3>1. \A r \in Queue : zset'[ACTIVE][r] = [zset EXCEPT ![from][q] = @ \ {t}][ACTIVE][r]
      BY <2>2
    <3> QED BY <3>1
  <2> QED BY <1>3, <2>1, <2>2
<1> QED BY <1>2, <1>4

\* Finishing one task of the batch, whatever becomes of it.
LEMMA FinishKeeps ==
  ASSUME TypeOK, Ownership, QueuesRespected', NEW w \in Worker, NEW t \in Task,
         NEW p \in {"batch", "lock", "done", "failed"}, pc[w] = p, Holds(w, t),
         NEW to \in State \ {ACTIVE},
         \/ MoveTask(wq[w], t, ACTIVE, to)
         \/ RemoveTask(wq[w], t, ACTIVE, FALSE)
         \/ RemoveTask(wq[w], t, ACTIVE, t \in Unique),
         Step(w, p, {t}, "none"), UNCHANGED <<wq, expired, cur, expLock>>
  PROVE  Ownership'
<1>1. \A v \in Worker \ {w} : SameWorker(v)
  BY DEF Step, SameWorker, TypeOK
<1>2. pc'[w] = p /\ p \notin Expiring /\ expired'[w] = {}
  BY DEF Step, TypeOK, Expiring, Ownership, ExpiredAreStale
<1>3. NoNewJobs
  BY StepShrinks
<1>4. \A u \in Task : job'[w][u] = IF u = t THEN "none" ELSE job[w][u]
  BY DEF Step, TypeOK
<1>5. \A u \in Task : job'[w][u] \in JobsAt(pc'[w])
  <2>1. \A u \in Task : job[w][u] \in JobsAt(p)
    BY DEF Ownership, PhasesRespected
  <2>2. "none" \in JobsAt(p)
    BY JobsAtValues
  <2> QED BY <1>2, <1>4, <2>1, <2>2
<1>6. wq[w] \in Queue /\ ACTIVE \in State /\ t \notin stale[wq[w]]
  BY DEF TypeOK, State, Ownership, HeldAreActive
<1> DEFINE q == wq[w]
           from == ACTIVE
<1>7. /\ \A r \in Queue : stale'[r] = IF r = q THEN stale[r] \ {t} ELSE stale[r]
      /\ \A r \in Queue : zset'[ACTIVE][r] =
           IF r = q THEN zset[ACTIVE][r] \ {t} ELSE zset[ACTIVE][r]
  <2>1. /\ q \in Queue /\ from \in State
        /\ \/ MoveTask(q, t, from, to)
           \/ RemoveTask(q, t, from, FALSE)
           \/ RemoveTask(q, t, from, t \in Unique)
    BY <1>6
  <2>2. from = ACTIVE
    OBVIOUS
  <2> HIDE DEF q, from
  <2> QED BY <2>1, <2>2, MoveEffect
<1>8. \A r \in Queue : stale'[r] = stale[r]
  BY <1>6, <1>7
<1>9. \A r \in Queue : \A u \in zset[ACTIVE][r] :
        u \in zset'[ACTIVE][r] \/ (r = wq[w] /\ Holds(w, u) /\ ~Holds(w, u)')
  <2> SUFFICES ASSUME NEW r \in Queue, NEW u \in zset[ACTIVE][r], u \notin zset'[ACTIVE][r]
               PROVE  r = wq[w] /\ Holds(w, u) /\ ~Holds(w, u)'
    OBVIOUS
  <2>1. r = wq[w] /\ u = t
    BY <1>7
  <2> QED BY <1>4, <2>1 DEF Holds
<1> QED BY <1>1, <1>2, <1>3, <1>5, <1>8, <1>9, LetGo

\* A local step of a worker, from p0 to p.
LEMMA LocalKeeps ==
  ASSUME TypeOK, Ownership, QueuesRespected', NEW w \in Worker, NEW p,
         pc[w] \notin Expiring, p \notin Expiring,
         pc' = [pc EXCEPT ![w] = p], \A v \in Worker \ {w} : job'[v] = job[v],
         UNCHANGED <<wq, expired, cur, expLock>>, NoNewJobs,
         \A u \in Task : job'[w][u] \in JobsAt(p),
         \A r \in Queue : stale'[r] = stale[r],
         \A r \in Queue : zset[ACTIVE][r] \subseteq zset'[ACTIVE][r]
  PROVE  Ownership'
<1>1. \A v \in Worker \ {w} : SameWorker(v)
  BY DEF SameWorker, TypeOK
<1>2. pc'[w] = p /\ expired'[w] = {}
  BY DEF TypeOK, Ownership, ExpiredAreStale
<1> QED BY <1>1, <1>2, LetGo

\* A popped task was not active, so nobody holds it; a batch has one function.
LEMMA PopKeeps ==
  ASSUME TypeOK, Ownership, QueuesRespected', SafeBatches,
         NEW w \in Worker, NEW q \in Queue, Pop(w, q)
  PROVE  Ownership'
<1> USE DEF Ownership
<1>1. PICK M \in SUBSET zset[QUEUED][q] :
        /\ Batch(M, zset[QUEUED][q], BatchSize[q])
        /\ PopToActive(q, M)
        /\ IF PopMoved(q, M) = {} THEN UNCHANGED <<pc, job>>
           ELSE Step(w, "load", PopMoved(q, M), "popped")
  BY DEF Pop
<1> DEFINE N == PopMoved(q, M)
<1>2. /\ \A v \in Worker \ {w} : SameWorker(v)
      /\ wq'[w] = q /\ pc'[w] \notin Expiring
      /\ UNCHANGED <<expired, cur, expLock>>
  BY <1>1 DEF Pop, Step, SameWorker, TypeOK, Expiring, lockVars
<1>3. \A t \in Task : job'[w][t] = IF t \in N THEN "popped" ELSE "none"
  <2>1. \A t \in Task : job[w][t] = "none"
    BY JobsAtValues DEF Pop, PhasesRespected
  <2> QED BY <1>1, <2>1 DEF Step, TypeOK
<1>4. /\ \A r \in Queue : stale'[r] = stale[r]
      /\ \A r \in Queue : zset'[ACTIVE][r] =
           IF r = q THEN zset[ACTIVE][r] \cup N ELSE zset[ACTIVE][r]
  BY <1>1 DEF PopToActive, TypeOK, StoreTypeOK, State, QUEUED, ACTIVE, SCHEDULED, ERROR
<1>5. N \subseteq zset[QUEUED][q] /\ N \cap zset[ACTIVE][q] = {} /\ M \subseteq Task
  BY DEF PopMoved, TypeOK, StoreTypeOK, State
<1>6. \A t, u \in N : FuncOf[t] = FuncOf[u]
  <2>1. CASE BatchSize[q] = 1
    <3>1. IsFiniteSet(M) /\ IsFiniteSet(zset[QUEUED][q])
      BY <1>5, ConstantsOK, FS_Subset DEF TypeOK, StoreTypeOK, State
    <3>2. Cardinality(zset[QUEUED][q]) \in Nat
      BY <3>1, FS_CardinalityType
    <3>3. Cardinality(M) \in {0, 1}
      BY <1>1, <2>1, <3>2 DEF Batch
    <3>4. M = {} \/ \E m : M = {m}
      BY <3>1, <3>3, FS_EmptySet, FS_Singleton
    <3> QED BY <3>4 DEF PopMoved
  <2>2. CASE \A t, u \in Task : q \in QueuesOf[t] \cap QueuesOf[u] => FuncOf[t] = FuncOf[u]
    <3>1. \A t \in N : t \in Task /\ q \in QueuesOf[t]
      BY <1>5 DEF QueuesRespected, In, State, TypeOK, StoreTypeOK
    <3> QED BY <2>2, <3>1
  <2> QED BY <2>1, <2>2 DEF SafeBatches
<1>7. PhasesRespected'
  <2>1. \A t \in Task : job'[w][t] \in JobsAt(pc'[w])
    <3>1. CASE N = {}
      <4>1. pc'[w] = "idle"
        BY <1>1, <3>1 DEF Pop
      <4> QED BY <1>3, <3>1, <4>1, JobsAtValues
    <3>2. CASE N # {}
      <4>1. pc'[w] = "load"
        BY <1>1, <3>2 DEF Step, TypeOK
      <4> QED BY <1>3, <4>1, JobsAtValues
    <3> QED BY <3>1, <3>2
  <2> QED BY <1>2, <2>1 DEF PhasesRespected, SameWorker
<1>8. OneFunction'
  BY <1>2, <1>3, <1>6 DEF OneFunction, Holds, SameWorker
<1>9. \A v \in Worker \ {w}, t \in N \cap Task : Holds(v, t) => wq[v] # q
  BY <1>5 DEF HeldAreActive, In
<1>10. HeldOnce'
  BY <1>2, <1>3, <1>9 DEF HeldOnce, Holds, SameWorker
<1>11. StaleAreActive'
  BY <1>4 DEF StaleAreActive
<1>12. HeldAreActive'
  <2>1. ASSUME NEW t \in Task, Holds(w, t)' PROVE In(ACTIVE, q, t)' /\ t \notin stale'[q]
    <3>1. t \in N
      BY <1>3, <2>1 DEF Holds
    <3> QED BY <1>4, <1>5, <3>1 DEF In, StaleAreActive
  <2>2. ASSUME NEW v \in Worker \ {w}, NEW t \in Task, Holds(v, t)'
        PROVE  In(ACTIVE, wq[v], t)' /\ t \notin stale'[wq[v]]
    <3>1. Holds(v, t) /\ wq[v] \in Queue
      BY <1>2, <2>2 DEF Holds, SameWorker, TypeOK
    <3>2. t \in zset[ACTIVE][wq[v]] /\ t \notin stale[wq[v]]
      BY <3>1 DEF HeldAreActive, In
    <3>3. wq'[v] = wq[v]
      BY <1>2 DEF SameWorker
    <3>4. stale'[wq[v]] = stale[wq[v]] /\ zset[ACTIVE][wq[v]] \subseteq zset'[ACTIVE][wq[v]]
      <4> HIDE DEF Ownership, N
      <4> QED BY <1>4, <3>1
    <3>5. t \in zset'[ACTIVE][wq'[v]] /\ t \notin stale'[wq'[v]]
      BY <3>2, <3>3, <3>4
    <3> QED BY <3>3, <3>5 DEF In
  <2> QED BY <1>2, <2>1, <2>2 DEF HeldAreActive, SameWorker
<1>13. ExpiredAreStale'
  <2>1. expired'[w] = {}
    BY <1>2 DEF ExpiredAreStale, Pop, Expiring
  <2> QED BY <1>2, <1>4, <2>1, EntryTypes DEF ExpiredAreStale, SameWorker
<1> QED BY <1>7, <1>8, <1>10, <1>11, <1>12, <1>13

\* The steps of a worker on its batch.
LEMMA ProcessKeeps ==
  ASSUME TypeOK, Ownership, QueuesRespected', SafeBatches, NEW w \in Worker, Process(w)
  PROVE  Ownership'
<1> USE DEF workerVars, lockVars, ghostVars, storeVars
<1>a. \A u \in Task : job[w][u] \in JobsAt(pc[w])
  BY DEF Ownership, PhasesRespected
<1>b. wq[w] \in Queue /\ ACTIVE \in State
  BY DEF TypeOK, State
<1>1. ASSUME NEW q \in Queue, Pop(w, q) PROVE Ownership'
  BY <1>1, PopKeeps
<1>2. ASSUME NEW t \in Task, Drop(w, t) PROVE Ownership'
  <2> QUEUED \in State \ {ACTIVE}
    BY DEF State, QUEUED, ACTIVE
  <2> Holds(w, t) /\ pc[w] = "batch"
    BY <1>2 DEF Drop, Holds
  <2>1. CASE Raise(w, wq[w], t, ACTIVE)
    BY <2>1, DieKeeps DEF Raise, Gone
  <2>2. CASE ~Raise(w, wq[w], t, ACTIVE)
    BY <1>2, <2>2, FinishKeeps DEF Drop
  <2> QED BY <2>1, <2>2
<1>3. ASSUME NEW t \in Task, LockedOut(w, t) PROVE Ownership'
  <2> SCHEDULED \in State \ {ACTIVE}
    BY DEF State, SCHEDULED, ACTIVE
  <2> Holds(w, t) /\ pc[w] = "lock"
    BY <1>3 DEF LockedOut, Holds
  <2>1. CASE Raise(w, wq[w], t, ACTIVE)
    BY <2>1, DieKeeps DEF Raise, Gone
  <2>2. CASE ~Raise(w, wq[w], t, ACTIVE)
    BY <1>3, <2>2, FinishKeeps DEF LockedOut
  <2> QED BY <2>1, <2>2
<1>4. ASSUME NEW t \in Task, FinishDone(w, t) PROVE Ownership'
  <2> QUEUED \in State \ {ACTIVE}
    BY DEF State, QUEUED, ACTIVE
  <2> Holds(w, t) /\ pc[w] \in {"done", "failed"}
    BY <1>4 DEF FinishDone, Holds
  <2>1. CASE Raise(w, wq[w], t, ACTIVE)
    BY <2>1, DieKeeps DEF Raise, Gone
  <2>2. CASE ~Raise(w, wq[w], t, ACTIVE)
    BY <1>4, <2>2, FinishKeeps DEF FinishDone
  <2> QED BY <2>1, <2>2
<1>5. ASSUME NEW t \in Task, FinishFailed(w, t) PROVE Ownership'
  <2>1. CASE Raise(w, wq[w], t, ACTIVE)
    BY <2>1, DieKeeps DEF Raise, Gone
  <2>2. CASE ~Raise(w, wq[w], t, ACTIVE)
    <3>1. PICK to \in {ERROR, SCHEDULED} :
            /\ MoveTask(wq[w], t, ACTIVE, to)
            /\ Step(w, "failed", {t}, "none")
            /\ UNCHANGED <<wq, expired, cur, expLock>>
      BY <1>5, <2>2 DEF FinishFailed
    <3>2. Holds(w, t)
      BY <1>5 DEF FinishFailed, Holds
    <3>3. to \in State \ {ACTIVE}
      BY DEF State, ERROR, SCHEDULED, ACTIVE
    <3> QED BY <1>5, <3>1, <3>2, <3>3, FinishKeeps DEF FinishFailed
  <2> QED BY <2>1, <2>2
<1>6. CASE Heartbeat(w)
  <2>1. \A t \in JobsIn(w, {"ready"}) : t \notin stale[wq[w]]
    BY DEF Ownership, HeldAreActive, Holds, JobsIn
  <2>2. \A r \in Queue : stale'[r] = stale[r]
    BY <1>6, <2>1 DEF Heartbeat, TouchActive, Unstale, TypeOK, StoreTypeOK
  <2>3. \A r \in Queue : zset[ACTIVE][r] \subseteq zset'[ACTIVE][r]
    BY <1>6, <1>b DEF Heartbeat, TouchActive, TypeOK, StoreTypeOK
  <2> QED BY <1>6, <2>2, <2>3, Unrelated DEF Heartbeat
<1>7. CASE Load(w)
  <2>1. NoNewJobs
    BY <1>7, ProcessShrinks DEF Load, Pop
  <2>2. \A u \in Task : job'[w][u] \in JobsAt("batch")
    BY <1>7, <1>a, JobsAtValues DEF Load, TypeOK
  <2>3. "batch" \notin Expiring /\ pc[w] \notin Expiring
    BY <1>7 DEF Load, Expiring
  <2> QED BY <1>7, <2>1, <2>2, <2>3, LocalKeeps DEF Load, TypeOK
<1>8. CASE BeginGroup(w)
  <2>1. NoNewJobs
    BY <1>8, ProcessShrinks DEF BeginGroup, Pop
  <2>2. PICK t \in JobsIn(w, {"loaded"}) :
          Step(w, "lock", {u \in JobsIn(w, {"loaded"}) : FuncOf[u] = FuncOf[t]}, "locking")
    BY <1>8 DEF BeginGroup
  <2>3. \A u \in Task : job[w][u] = "loaded" => FuncOf[u] = FuncOf[t]
    BY DEF Ownership, OneFunction, Holds, JobsIn
  <2>4. \A u \in Task : job[w][u] \in {"none", "loaded"}
    BY <1>8, <1>a, JobsAtValues DEF BeginGroup, JobsIn
  <2>5. \A u \in Task : job'[w][u] \in {"none", "locking"}
    BY <2>2, <2>3, <2>4 DEF Step, JobsIn, TypeOK
  <2>6. \A u \in Task : job'[w][u] \in JobsAt("lock")
    BY <2>5, JobsAtValues
  <2>7. "lock" \notin Expiring /\ pc[w] \notin Expiring
    BY <1>8 DEF BeginGroup, Expiring
  <2> QED BY <1>8, <2>1, <2>2, <2>6, <2>7, LocalKeeps DEF BeginGroup, Step, TypeOK
<1>9. ASSUME NEW t \in Task, AcquireLock(w, t) PROVE Ownership'
  <2>1. NoNewJobs
    BY <1>9, StepShrinks DEF AcquireLock, Holds
  <2>2. \A u \in Task : job'[w][u] \in JobsAt("lock")
    BY <1>9, <1>a, JobsAtValues DEF AcquireLock, Step, TypeOK
  <2>3. "lock" \notin Expiring /\ pc[w] \notin Expiring
    BY <1>9 DEF AcquireLock, Expiring
  <2> QED BY <1>9, <2>1, <2>2, <2>3, LocalKeeps DEF AcquireLock, Step, TypeOK
<1>10. ASSUME NEW t \in Task, CountExecutions(w, t) PROVE Ownership'
  <2>1. CASE Die(w, "raised")
    BY <2>1, DieKeeps DEF Gone
  <2>2. CASE ~Die(w, "raised")
    <3>1. PICK j \in {"retrying", "quiet"} : Step(w, "failed", {t}, j)
      BY <1>10, <2>2 DEF CountExecutions
    <3>2. NoNewJobs
      BY <1>10, <2>2, <3>1, StepShrinks DEF CountExecutions, Holds
    <3>3. \A u \in Task : job'[w][u] \in JobsAt("failed")
      BY <1>10, <3>1, <1>a, JobsAtValues DEF CountExecutions, Step, TypeOK
    <3>4. "failed" \notin Expiring /\ pc[w] \notin Expiring
      BY <1>10 DEF CountExecutions, Expiring
    <3> QED BY <1>10, <2>2, <3>1, <3>2, <3>3, <3>4, LocalKeeps DEF CountExecutions, Step, TypeOK
  <2> QED BY <2>1, <2>2
<1>11. ASSUME NEW p \in {"exec", "done", "failed", "batch", "idle"},
              pc' = [pc EXCEPT ![w] = p], UNCHANGED <<wq, job, expired, cur, expLock>>,
              UNCHANGED <<zset, stale>>, pc[w] \notin Expiring,
              \A u \in Task : job[w][u] \in JobsAt(p)
       PROVE  Ownership'
  <2>1. NoNewJobs /\ p \notin Expiring
    BY <1>11, JobsKept DEF Expiring
  <2> QED BY <1>11, <2>1, LocalKeeps DEF TypeOK
<1>12. CASE Execute(w)
  <2>1. \A u \in Task : job[w][u] \in JobsAt("exec")
    BY <1>12, <1>a, JobsAtValues DEF Execute, JobsIn
  <2> QED BY <1>12, <2>1, <1>11 DEF Execute, Expiring
<1>13. CASE Succeed(w)
  BY <1>13, <1>a, <1>11, JobsAtValues DEF Succeed, Expiring
<1>14. CASE Fail(w)
  <2>1. \A u \in Task : job[w][u] \in JobsAt("failed")
    BY <1>14, <1>a, JobsAtValues DEF Fail
  <2> QED BY <1>14, <2>1, <1>11 DEF Fail, Expiring
<1>15. CASE EndGroup(w)
  <2>1. \A u \in Task : job[w][u] = "none"
    BY <1>15, <1>a, JobsAtValues DEF EndGroup, JobsIn, InGroup
  <2> QED BY <1>15, <2>1, <1>11, JobsAtValues DEF EndGroup, Expiring
<1>16. CASE EndBatch(w)
  <2>1. \A u \in Task : job[w][u] = "none"
    BY <1>16 DEF EndBatch, NoJobs
  <2> QED BY <1>16, <2>1, <1>11, JobsAtValues DEF EndBatch, Expiring
<1> QED BY <1>1, <1>2, <1>3, <1>4, <1>5, <1>6, <1>7, <1>8, <1>9, <1>10,
           <1>12, <1>13, <1>14, <1>15, <1>16 DEF Process

\* w alone changes what it does about expired entries; it holds no task.  The
\* entries it still has to handle, and the one it handles, must remain stale,
\* and the other workers have none.
LEMMA ExpirerKeeps ==
  ASSUME TypeOK, Ownership, QueuesRespected', NEW w \in Worker,
         \A v \in Worker \ {w} : SameWorker(v) /\ pc[v] \notin Expiring,
         UNCHANGED <<wq, job>>, pc[w] \in {"idle"} \cup Expiring,
         pc'[w] \in Expiring, expLock' = w,
         \A e \in expired'[w] : e[1] \in Queue /\ e[2] \in stale'[e[1]],
         pc'[w] # "expire" => cur'[w] \notin expired'[w] /\ cur'[w][2] \in stale'[cur'[w][1]],
         \A r \in Queue : stale'[r] \subseteq stale[r],
         \A r \in Queue : \A u \in zset[ACTIVE][r] :
           u \in zset'[ACTIVE][r] \/ (u \in stale[r] /\ u \notin stale'[r])
  PROVE  Ownership'
<1> USE DEF Ownership, SameWorker
<1>1. JobsAt(pc[w]) = {"none"} /\ JobsAt(pc'[w]) = {"none"}
  BY JobsAtValues
<1>2. \A t \in Task : job'[w][t] \in JobsAt(pc'[w])
  BY <1>1 DEF PhasesRespected
<1>3. PhasesRespected' /\ OneFunction' /\ HeldOnce'
  BY <1>2 DEF PhasesRespected, OneFunction, HeldOnce, Holds
<1>4. HeldAreActive'
  <2> SUFFICES ASSUME NEW v \in Worker, NEW t \in Task, Holds(v, t)
               PROVE  t \in zset'[ACTIVE][wq[v]] /\ t \notin stale'[wq[v]]
    BY DEF HeldAreActive, Holds, In
  <2>1. wq[v] \in Queue /\ t \in zset[ACTIVE][wq[v]] /\ t \notin stale[wq[v]]
    BY DEF HeldAreActive, In, TypeOK
  <2> QED BY <2>1
<1>5. StaleAreActive'
  BY DEF StaleAreActive
<1>6. ExpiredAreStale'
  BY DEF ExpiredAreStale
<1> QED BY <1>3, <1>4, <1>5, <1>6

\* The steps of a worker on scheduled and on expired tasks.
LEMMA MaintainKeeps ==
  ASSUME TypeOK, Ownership, QueuesRespected', Timely, NEW w \in Worker, Maintain(w)
  PROVE  Ownership'
<1> USE DEF workerVars, lockVars, ghostVars, storeVars
<1>c. cur[w][1] \in Queue /\ cur[w][2] \in Task /\ cur[w] = <<cur[w][1], cur[w][2]>>
  BY DEF TypeOK, Entry
<1>d. \A e \in expired[w] : e[1] \in Queue /\ e[2] \in Task /\ e = <<e[1], e[2]>>
  <2>1. expired[w] \subseteq Entry
    BY DEF TypeOK
  <2> QED BY <2>1 DEF Entry
<1>e. pc[w] \in Expiring =>
        /\ expLock = w
        /\ \A v \in Worker \ {w} : pc[v] \notin Expiring
        /\ \A e \in expired[w] : e[2] \in stale[e[1]]
        /\ pc[w] # "expire" => cur[w] \notin expired[w] /\ cur[w][2] \in stale[cur[w][1]]
  BY DEF Ownership, ExpiredAreStale
<1>1. ASSUME NEW q \in Queue, Schedule(w, q) PROVE Ownership'
  <2>1. \A r \in Queue : stale'[r] = stale[r]
    BY <1>1 DEF Schedule, PopToQueued
  <2>2. \A r \in Queue : zset[ACTIVE][r] \subseteq zset'[ACTIVE][r]
    BY <1>1 DEF Schedule, PopToQueued, TypeOK, StoreTypeOK, State, ACTIVE, SCHEDULED, QUEUED, ERROR
  <2> QED BY <1>1, <2>1, <2>2, Unrelated DEF Schedule
<1>2. CASE ExpireScan(w)
  <2>1. \A v \in Worker \ {w} : SameWorker(v) /\ pc[v] \notin Expiring
    <3>1. \A v \in Worker : pc[v] \notin Expiring
      BY <1>2, ConstantsOK DEF ExpireScan, Ownership, ExpiredAreStale
    <3> QED BY <1>2, <3>1 DEF ExpireScan, SameWorker, TypeOK
  <2>2. expired'[w] \subseteq StaleEntries /\ pc'[w] = "expire" /\ expLock' = w
    BY <1>2 DEF ExpireScan, TypeOK
  <2>3. \A e \in expired'[w] : e[1] \in Queue /\ e[2] \in stale'[e[1]]
    BY <1>2, <2>2 DEF ExpireScan, StaleEntries
  <2> QED BY <1>2, <2>1, <2>2, <2>3, ExpirerKeeps DEF ExpireScan, Expiring
<1>3. CASE ExpireLoad(w)
  <2>1. PICK e \in expired[w] :
          /\ expired' = [expired EXCEPT ![w] = @ \ {e}]
          /\ cur' = [cur EXCEPT ![w] = e]
          /\ pc' = [pc EXCEPT ![w] = IF e[2] \in object /\ In(ACTIVE, e[1], e[2])
                                     THEN "expMove" ELSE "expCheck"]
    BY <1>3 DEF ExpireLoad
  <2>2. pc[w] \in Expiring
    BY <1>3 DEF ExpireLoad, Expiring
  <2>3. \A v \in Worker \ {w} : SameWorker(v) /\ pc[v] \notin Expiring
    BY <1>3, <1>e, <2>1, <2>2 DEF ExpireLoad, SameWorker, TypeOK
  <2>4. /\ expired'[w] = expired[w] \ {e} /\ cur'[w] = e /\ pc'[w] \in Expiring
        /\ expLock' = w /\ stale' = stale
    BY <1>3, <1>e, <2>1, <2>2 DEF ExpireLoad, TypeOK, Expiring
  <2>5. \A x \in expired'[w] : x[1] \in Queue /\ x[2] \in stale'[x[1]]
    BY <1>d, <1>e, <2>2, <2>4
  <2>6. cur'[w] \notin expired'[w] /\ cur'[w][2] \in stale'[cur'[w][1]]
    BY <1>e, <2>2, <2>4
  <2> QED BY <1>3, <2>2, <2>3, <2>4, <2>5, <2>6, ExpirerKeeps DEF ExpireLoad
<1>4. ASSUME NEW p \in Expiring, Goto(w, p), pc[w] \in Expiring,
             \/ UNCHANGED storeVars /\ pc[w] # "expire"
             \/ /\ p = "expire" /\ pc[w] # "expire"
                /\ \/ \E to \in {QUEUED, ERROR} : MoveTask(cur[w][1], cur[w][2], ACTIVE, to)
                   \/ RemoveTask(cur[w][1], cur[w][2], ACTIVE, FALSE)
      PROVE  Ownership'
  <2>1. \A v \in Worker \ {w} : SameWorker(v) /\ pc[v] \notin Expiring
    BY <1>4, <1>e DEF Goto, SameWorker, TypeOK
  <2>2. /\ expired'[w] = expired[w] /\ cur'[w] = cur[w] /\ pc'[w] = p
        /\ expLock' = w /\ wq' = wq /\ job' = job
    BY <1>4, <1>e DEF Goto, TypeOK
  <2>3. CASE UNCHANGED storeVars
    <3>1. \A x \in expired'[w] : x[1] \in Queue /\ x[2] \in stale'[x[1]]
      BY <1>4, <1>d, <1>e, <2>2, <2>3
    <3>2. cur'[w] \notin expired'[w] /\ cur'[w][2] \in stale'[cur'[w][1]]
      BY <1>4, <1>e, <2>2, <2>3
    <3> QED BY <1>4, <2>1, <2>2, <2>3, <3>1, <3>2, ExpirerKeeps
  <2>4. CASE ~UNCHANGED storeVars
    <3>1. ACTIVE \in State /\ QUEUED \in State \ {ACTIVE} /\ ERROR \in State \ {ACTIVE}
      BY DEF State, ACTIVE, QUEUED, ERROR
    <3>2. /\ \A r \in Queue : stale'[r] =
               IF r = cur[w][1] THEN stale[r] \ {cur[w][2]} ELSE stale[r]
          /\ \A r \in Queue : zset'[ACTIVE][r] =
               IF r = cur[w][1] THEN zset[ACTIVE][r] \ {cur[w][2]} ELSE zset[ACTIVE][r]
      <4> DEFINE q == cur[w][1]
                 t == cur[w][2]
      <4>1. \E to \in State \ {ACTIVE} :
              MoveTask(q, t, ACTIVE, to) \/ RemoveTask(q, t, ACTIVE, FALSE)
        BY <1>4, <2>4, <3>1
      <4>2. q \in Queue /\ t \in Task
        BY <1>c
      <4> HIDE DEF q, t
      <4>3. /\ \A r \in Queue : stale'[r] = IF r = q THEN stale[r] \ {t} ELSE stale[r]
            /\ \A r \in Queue : zset'[ACTIVE][r] =
                 IF r = q THEN zset[ACTIVE][r] \ {t} ELSE zset[ACTIVE][r]
        BY <3>1, <4>1, <4>2, MoveEffect
      <4> QED BY <4>3 DEF q, t
    <3>3. cur[w] \notin expired[w] /\ cur[w][2] \in stale[cur[w][1]]
      BY <1>4, <1>e, <2>4
    <3>4. \A x \in expired'[w] : x[1] \in Queue /\ x[2] \in stale'[x[1]]
      <4> SUFFICES ASSUME NEW x \in expired[w]
                   PROVE  x[1] \in Queue /\ x[2] \in stale'[x[1]]
        BY <2>2
      <4>1. x[1] \in Queue /\ x[2] \in stale[x[1]] /\ x # cur[w]
        BY <1>4, <1>d, <1>e, <3>3
      <4>2. ~(x[1] = cur[w][1] /\ x[2] = cur[w][2])
        BY <1>c, <1>d, <4>1
      <4> QED BY <3>2, <4>1, <4>2
    <3>5. \A r \in Queue : /\ stale'[r] \subseteq stale[r]
                           /\ \A u \in zset[ACTIVE][r] :
                                u \in zset'[ACTIVE][r] \/ (u \in stale[r] /\ u \notin stale'[r])
      BY <1>c, <3>2, <3>3
    <3> QED BY <1>4, <2>1, <2>2, <2>4, <3>4, <3>5, ExpirerKeeps
  <2> QED BY <2>3, <2>4
<1>5. CASE ExpireMove(w)
  <2>1. pc[w] \in Expiring /\ "expire" \in Expiring /\ "expCheck" \in Expiring
    BY <1>5 DEF ExpireMove, Expiring
  <2> QED BY <1>4, <1>5, <2>1 DEF ExpireMove
<1>6. CASE ExpireCheck(w)
  <2>1. pc[w] \in Expiring /\ "expire" \in Expiring /\ "expDrop" \in Expiring
    BY <1>6 DEF ExpireCheck, Expiring
  <2> QED BY <1>4, <1>6, <2>1 DEF ExpireCheck
<1>7. CASE ExpireDrop(w)
  <2>1. pc[w] \in Expiring /\ "expire" \in Expiring
    BY <1>7 DEF ExpireDrop, Expiring
  <2>2. CASE Raise(w, cur[w][1], cur[w][2], ACTIVE)
    BY <2>2, DieKeeps DEF Raise, Gone
  <2>3. CASE ~Raise(w, cur[w][1], cur[w][2], ACTIVE)
    BY <1>4, <1>7, <2>1, <2>3 DEF ExpireDrop
  <2> QED BY <2>2, <2>3
<1>8. CASE ExpireDone(w)
  <2>1. \A v \in Worker \ {w} : SameWorker(v) /\ pc[v] \notin Expiring
    BY <1>8, <1>e DEF ExpireDone, SameWorker, TypeOK, Expiring
  <2>2. /\ pc'[w] = "idle" /\ expired'[w] = {} /\ UNCHANGED <<wq, job, zset, stale>>
        /\ \A t \in Task : job[w][t] = "none"
    BY <1>8, JobsAtValues DEF ExpireDone, TypeOK, Ownership, PhasesRespected, Expiring
  <2>3. PhasesRespected' /\ OneFunction' /\ HeldOnce'
    BY <2>1, <2>2, JobsAtValues
       DEF Ownership, PhasesRespected, OneFunction, HeldOnce, Holds, SameWorker
  <2>4. HeldAreActive' /\ StaleAreActive'
    BY <2>2 DEF Ownership, HeldAreActive, StaleAreActive, Holds, In
  <2>5. ExpiredAreStale'
    BY <2>1, <2>2 DEF Ownership, ExpiredAreStale, SameWorker, Expiring
  <2> QED BY <2>3, <2>4, <2>5 DEF Ownership
<1> QED BY <1>1, <1>2, <1>3, <1>5, <1>6, <1>7, <1>8 DEF Maintain

\* Clients add to the queues, but they take nothing from the active sets.
LEMMA ClientKeeps ==
  ASSUME TypeOK, Ownership, QueuesRespected', Client
  PROVE  Ownership'
<1> USE DEF lockVars
<1> /\ QUEUED \in State \ {ACTIVE} /\ SCHEDULED \in State /\ ERROR \in State
    /\ SCHEDULED # ACTIVE /\ ERROR # ACTIVE
  BY DEF State, QUEUED, ACTIVE, SCHEDULED, ERROR
<1>1. UNCHANGED workerVars /\ expLock' = expLock
  BY DEF Client, Delay, Retry, Cancel, Delete, Vanish
<1> DEFINE Kept == /\ \A r \in Queue : stale'[r] = stale[r]
                   /\ \A r \in Queue : zset[ACTIVE][r] \subseteq zset'[ACTIVE][r]
<1>2. Kept
  <2>1. ASSUME NEW t \in Task, NEW q \in Queue, NEW s \in {QUEUED, SCHEDULED}, Delay(q, t, s)
        PROVE  Kept
    BY <2>1 DEF Delay, AddTask, TypeOK, StoreTypeOK, State
  <2>2. ASSUME NEW t \in Task, NEW q \in Queue, Retry(q, t) PROVE Kept
    BY <2>2, MoveEffect DEF Retry
  <2>3. ASSUME NEW t \in Task, NEW q \in Queue, Cancel(q, t) PROVE Kept
    BY <2>3, MoveEffect DEF Cancel
  <2>4. ASSUME NEW t \in Task, NEW q \in Queue, Delete(q, t) PROVE Kept
    BY <2>4, MoveEffect DEF Delete
  <2>5. ASSUME NEW t \in Task, Vanish(t) PROVE Kept
    BY <2>5 DEF Vanish
  <2> QED BY <2>1, <2>2, <2>3, <2>4, <2>5 DEF Client
<1> QED BY <1>1, <1>2, Unrelated

\* Time and failures: an entry that becomes stale is one that nobody holds.
LEMMA EnvironmentKeeps ==
  ASSUME TypeOK, Ownership, QueuesRespected', Timely, Environment
  PROVE  Ownership'
<1> USE DEF workerVars, lockVars, storeVars
<1>1. ASSUME NEW q \in Queue, NEW t \in Task, Lapse(q, t) PROVE Ownership'
  <2>1. UNCHANGED <<pc, wq, job, expired, cur, expLock, zset>>
    BY <1>1 DEF Lapse, GrowStale
  <2>2. \A r \in Queue : stale'[r] = IF r = q THEN stale[r] \cup {t} ELSE stale[r]
    BY <1>1 DEF Lapse, GrowStale, TypeOK, StoreTypeOK
  <2>3. \A w \in Worker : Holds(w, t) => wq[w] # q
    <3> SUFFICES ASSUME NEW w \in Worker, Holds(w, t), wq[w] = q PROVE FALSE
      OBVIOUS
    <3>1. job[w][t] = "loaded" => pc[w] # "exec"
      BY JobsAtValues DEF Ownership, PhasesRespected
    <3>2. job[w][t] \in {"popped", "missing", "loaded"} \cup InGroup
      BY DEF Holds, TypeOK, Job
    <3>3. Renewing(w, q, t)
      BY <3>1, <3>2 DEF Renewing
    <3> QED BY <1>1, <3>3 DEF Lapse
  <2>4. PhasesRespected' /\ OneFunction' /\ HeldOnce'
    BY <2>1 DEF Ownership, PhasesRespected, OneFunction, HeldOnce, Holds
  <2>5. HeldAreActive'
    <3> SUFFICES ASSUME NEW w \in Worker, NEW u \in Task, Holds(w, u)
                 PROVE  In(ACTIVE, wq[w], u) /\ u \notin stale'[wq[w]]
      BY <2>1 DEF HeldAreActive, Holds, In
    <3>1. In(ACTIVE, wq[w], u) /\ u \notin stale[wq[w]] /\ wq[w] \in Queue
      BY DEF Ownership, HeldAreActive, TypeOK
    <3> QED BY <2>2, <2>3, <3>1
  <2>6. StaleAreActive'
    BY <1>1, <2>1, <2>2 DEF Ownership, StaleAreActive, Lapse, GrowStale, In
  <2>7. ExpiredAreStale'
    <3>1. \A r \in Queue : stale[r] \subseteq stale'[r]
      BY <2>2
    <3> SUFFICES ASSUME NEW w \in Worker
                 PROVE  /\ pc[w] \in Expiring => expLock = w
                        /\ pc[w] \notin Expiring => expired[w] = {}
                        /\ \A e \in expired[w] : e[2] \in stale'[e[1]]
                        /\ pc[w] \in Expiring \ {"expire"} =>
                             cur[w] \notin expired[w] /\ cur[w][2] \in stale'[cur[w][1]]
      BY <2>1 DEF ExpiredAreStale
    <3>2. \A e \in expired[w] : e[2] \in stale[e[1]] /\ e[1] \in Queue
      BY EntryTypes DEF Ownership, ExpiredAreStale
    <3>3. cur[w][1] \in Queue
      BY EntryTypes
    <3> QED BY <3>1, <3>2, <3>3 DEF Ownership, ExpiredAreStale
  <2> QED BY <2>4, <2>5, <2>6, <2>7 DEF Ownership
<1>2. ASSUME NEW l \in Lock, LockLapse(l) PROVE Ownership'
  BY <1>2, Unrelated DEF LockLapse
<1>3. CASE ExpireLockLapse
  <2>1. UNCHANGED <<pc, wq, job, expired, cur, zset, stale>>
    BY <1>3 DEF ExpireLockLapse
  <2>2. \A w \in Worker : pc[w] \notin Expiring
    BY <1>3, ConstantsOK DEF ExpireLockLapse, Ownership, ExpiredAreStale
  <2>3. PhasesRespected' /\ OneFunction' /\ HeldOnce' /\ HeldAreActive' /\ StaleAreActive'
    BY <2>1 DEF Ownership, PhasesRespected, OneFunction, HeldOnce, HeldAreActive,
                StaleAreActive, Holds, In
  <2>4. ExpiredAreStale'
    BY <2>1, <2>2 DEF Ownership, ExpiredAreStale
  <2> QED BY <2>3, <2>4 DEF Ownership
<1>4. ASSUME NEW w \in Worker, Crash(w) PROVE Ownership'
  BY <1>4, DieKeeps DEF Crash, Gone
<1>5. ASSUME NEW w \in Worker, Restart(w) PROVE Ownership'
  <2>1. NoNewJobs
    BY <1>5, JobsKept DEF Restart
  <2>2. \A t \in Task : job'[w][t] \in JobsAt("idle")
    BY <1>5, JobsAtValues DEF Restart, Ownership, PhasesRespected
  <2>3. pc[w] \notin Expiring /\ "idle" \notin Expiring
    BY <1>5 DEF Restart, Gone, Expiring
  <2> QED BY <1>5, <2>1, <2>2, <2>3, LocalKeeps DEF Restart
<1>6. ASSUME NEW e \in Entry, ChildEnds(e) PROVE Ownership'
  BY <1>6, Unrelated DEF ChildEnds
<1> QED BY <1>1, <1>2, <1>3, <1>4, <1>5, <1>6 DEF Environment

\* In the initial state nothing is queued and nobody holds anything.
LEMMA OwnershipInit == Init => Ownership
<1> SUFFICES ASSUME Init PROVE Ownership
  OBVIOUS
<1> USE DEF Init, StoreInit, Holds, NoJobs
<1> ACTIVE \in State
  BY DEF State
<1>1. QueuesRespected
  BY DEF QueuesRespected, In
<1>2. PhasesRespected
  BY JobsAtValues DEF PhasesRespected
<1>3. OneFunction /\ HeldAreActive /\ HeldOnce
  BY DEF OneFunction, HeldAreActive, HeldOnce
<1>4. StaleAreActive /\ ExpiredAreStale
  BY DEF StaleAreActive, ExpiredAreStale, Expiring
<1> QED BY <1>1, <1>2, <1>3, <1>4 DEF Ownership

\* Every step preserves Ownership when workers are timely and batches safe.
LEMMA OwnershipNext ==
  ASSUME Timely, SafeBatches, TypeOK, Ownership, [Next]_vars
  PROVE  Ownership'
<1>1. QueuesRespected'
  BY QueuesNext DEF Ownership
<1>2. CASE UNCHANGED vars
  BY <1>1, <1>2, Unrelated DEF vars, workerVars, lockVars, storeVars
<1> QED BY <1>1, <1>2, ClientKeeps, ProcessKeeps, MaintainKeeps, EnvironmentKeeps DEF Next

-----------------------------------------------------------------------------
(* The active set is the record of who executes what.                       *)

(* If workers are timely and no batch mixes functions, a task that a worker *)
(* has taken is in the active set with a fresh heartbeat until that worker  *)
(* lets it go, and no other worker has taken it from the same queue.        *)
THEOREM TakenOnce ==
  ASSUME Timely, SafeBatches
  PROVE  Spec => []Ownership
<1>1. TypeOK /\ Ownership /\ [Next]_vars => Ownership'
  BY OwnershipNext
<1> QED BY <1>1, OwnershipInit, TypeCorrect, PTL DEF Spec

(* Under the same assumptions two workers never execute the same task of a  *)
(* queue at once, whatever crashes, restarts, expirations and client calls  *)
(* come between the round trips of the workers.                             *)
THEOREM ExecutedByOne ==
  ASSUME Timely, SafeBatches
  PROVE  Spec => []NoConcurrentExecution
<1>1. Ownership => NoConcurrentExecution
  BY DEF Ownership, HeldOnce, NoConcurrentExecution, Executing, Holds
<1> QED BY <1>1, TakenOnce, PTL

-----------------------------------------------------------------------------
(* Locks.                                                                   *)

\* A step of w that makes no task ready, takes no lock from another worker, and
\* takes w's own only when it leaves the execution.
LEMMA LocksKept ==
  ASSUME TypeOK, LocksHeld, NEW w \in Worker,
         \A v \in Worker \ {w} : pc'[v] = pc[v] /\ job'[v] = job[v],
         \A t \in Task : job'[w][t] = "ready" => /\ job[w][t] = "ready"
                                                /\ pc'[w] \in {"lock", "exec", "done", "failed"},
         pc'[w] \in {"lock", "exec"} => pc[w] \notin {"done", "failed"},
         \A l \in Lock : lock[l] \in Worker =>
           \/ lock'[l] = lock[l]
           \/ lock[l] = w /\ \A t \in Task : job'[w][t] = "ready" => pc'[w] \notin {"lock", "exec"}
  PROVE  LocksHeld'
<1> SUFFICES ASSUME NEW v \in Worker, NEW t \in Task, job'[v][t] = "ready"
             PROVE  /\ pc'[v] \in {"lock", "exec", "done", "failed"}
                    /\ pc'[v] \in {"lock", "exec"} /\ LockOf[t] # NoLock => lock'[LockOf[t]] = v
  BY DEF LocksHeld
<1>1. LockOf[t] # NoLock => LockOf[t] \in Lock
  BY DEF Lock
<1>2. CASE v # w
  BY <1>1, <1>2 DEF LocksHeld
<1>3. CASE v = w
  BY <1>1, <1>3 DEF LocksHeld
<1> QED BY <1>2, <1>3

\* Steps that make no task ready, in the same phase or without any ready task.
LEMMA LocksStep ==
  ASSUME TypeOK, LocksHeld, NEW w \in Worker, NEW p, NEW S, NEW j, j # "ready",
         Step(w, p, S, j), UNCHANGED lock,
         p = pc[w] \/ \A t \in Task : job[w][t] # "ready"
  PROVE  LocksHeld'
<1>1. /\ \A v \in Worker \ {w} : pc'[v] = pc[v] /\ job'[v] = job[v]
      /\ pc'[w] = p /\ \A t \in Task : job'[w][t] = "ready" => job[w][t] = "ready"
  BY DEF Step, TypeOK
<1>2. CASE p = pc[w]
  BY <1>1, <1>2 DEF LocksHeld
<1>3. CASE \A t \in Task : job[w][t] # "ready"
  BY <1>1, <1>3 DEF LocksHeld
<1> QED BY <1>2, <1>3

\* The end of a process leaves its locks to their leases.
LEMMA LocksDie ==
  ASSUME TypeOK, LocksHeld, NEW w \in Worker, NEW p, Die(w, p)
  PROVE  LocksHeld'
<1>1. /\ \A v \in Worker \ {w} : pc'[v] = pc[v] /\ job'[v] = job[v]
      /\ \A t \in Task : job'[w][t] = "none"
      /\ \A l \in Lock : lock[l] = w \/ lock'[l] = lock[l]
  BY DEF Die, NoJobs, TypeOK
<1> SUFFICES ASSUME NEW v \in Worker \ {w}, NEW t \in Task, job[v][t] = "ready"
             PROVE  /\ pc[v] \in {"lock", "exec", "done", "failed"}
                    /\ pc[v] \in {"lock", "exec"} /\ LockOf[t] # NoLock => lock'[LockOf[t]] = v
  BY <1>1 DEF LocksHeld
<1>2. LockOf[t] # NoLock => LockOf[t] \in Lock
  BY DEF Lock
<1> QED BY <1>1, <1>2 DEF LocksHeld

\* The steps of a worker on its batch.
LEMMA LocksProcess ==
  ASSUME TypeOK, LocksHeld, NEW w \in Worker, Process(w)
  PROVE  LocksHeld'
<1> USE DEF workerVars, lockVars, ghostVars
<1>1. CASE \E q \in Queue : Pop(w, q)
  <2>1. PICK S :
          /\ \/ UNCHANGED <<pc, job>>
             \/ Step(w, "load", S, "popped")
          /\ UNCHANGED lock /\ pc[w] = "idle"
    BY <1>1 DEF Pop
  <2>2. \A t \in Task : job[w][t] # "ready"
    BY <2>1 DEF LocksHeld
  <2>3. CASE UNCHANGED <<pc, job>>
    BY <2>1, <2>3 DEF LocksHeld
  <2> QED BY <2>1, <2>2, <2>3, LocksStep
<1>2. CASE Load(w)
  BY <1>2, LocksKept DEF Load, LocksHeld, TypeOK
<1>3. ASSUME NEW t \in Task, Drop(w, t) PROVE LocksHeld'
  <2>1. CASE Raise(w, wq[w], t, ACTIVE)
    BY <2>1, LocksDie DEF Raise
  <2>2. CASE ~Raise(w, wq[w], t, ACTIVE)
    BY <1>3, <2>2, LocksStep DEF Drop
  <2> QED BY <2>1, <2>2
<1>4. CASE BeginGroup(w)
  <2>1. \A t \in Task : job[w][t] # "ready"
    BY <1>4 DEF BeginGroup, LocksHeld
  <2>2. PICK S \in SUBSET Task : Step(w, "lock", S, "locking") /\ UNCHANGED lock
    BY <1>4 DEF BeginGroup, JobsIn
  <2> QED BY <2>1, <2>2, LocksStep
<1>5. ASSUME NEW t \in Task, AcquireLock(w, t) PROVE LocksHeld'
  <2>1. /\ \A v \in Worker \ {w} : pc'[v] = pc[v] /\ job'[v] = job[v]
        /\ pc'[w] = "lock" /\ pc[w] = "lock" /\ job'[w][t] = "ready"
        /\ \A u \in Task : job'[w][u] = "ready" => u = t \/ job[w][u] = "ready"
    BY <1>5 DEF AcquireLock, Step, TypeOK
  <2>2. \A l \in Lock : lock[l] \in Worker => lock'[l] = lock[l]
    BY <1>5, ConstantsOK DEF AcquireLock, TypeOK
  <2>3. LockOf[t] # NoLock => lock'[LockOf[t]] = w
    <3>1. LockOf[t] # NoLock => LockOf[t] \in Lock
      BY DEF Lock
    <3>2. CASE NeedsLock(w, t)
      BY <1>5, <3>1, <3>2 DEF AcquireLock, TypeOK, NeedsLock
    <3>3. CASE ~NeedsLock(w, t)
      BY <1>5, <3>1, <3>3 DEF AcquireLock, NeedsLock, JobsIn, LocksHeld
    <3> QED BY <3>2, <3>3
  <2> SUFFICES ASSUME NEW v \in Worker, NEW u \in Task, job'[v][u] = "ready"
               PROVE  /\ pc'[v] \in {"lock", "exec", "done", "failed"}
                      /\ pc'[v] \in {"lock", "exec"} /\ LockOf[u] # NoLock
                           => lock'[LockOf[u]] = v
    BY DEF LocksHeld
  <2>4. LockOf[u] # NoLock => LockOf[u] \in Lock
    BY DEF Lock
  <2>5. CASE v = w /\ u = t
    BY <2>1, <2>3, <2>5
  <2>6. CASE ~(v = w /\ u = t)
    BY <2>1, <2>2, <2>4, <2>6 DEF LocksHeld
  <2> QED BY <2>5, <2>6
<1>6. ASSUME NEW t \in Task, LockedOut(w, t) PROVE LocksHeld'
  <2>1. CASE Raise(w, wq[w], t, ACTIVE)
    BY <2>1, LocksDie DEF Raise
  <2>2. CASE ~Raise(w, wq[w], t, ACTIVE)
    BY <1>6, <2>2, LocksStep DEF LockedOut
  <2> QED BY <2>1, <2>2
<1>7. CASE Execute(w) \/ Heartbeat(w)
  <2>1. pc[w] \in {"lock", "exec"} /\ pc'[w] = "exec" /\ UNCHANGED <<job, lock>>
    BY <1>7 DEF Execute, Heartbeat, TypeOK, workerVars, lockVars
  <2>2. \A v \in Worker \ {w} : pc'[v] = pc[v]
    BY <1>7 DEF Execute, Heartbeat, TypeOK, workerVars
  <2> QED BY <2>1, <2>2, LocksKept
<1>8. CASE Succeed(w) \/ Fail(w)
  <2>1. \A l \in Lock : lock[l] = w \/ lock'[l] = lock[l]
    BY <1>8 DEF Succeed, Fail, Release
  <2>2. UNCHANGED job /\ pc'[w] \in {"done", "failed"}
        /\ \A v \in Worker \ {w} : pc'[v] = pc[v]
    BY <1>8 DEF Succeed, Fail, TypeOK
  <2> QED BY <2>1, <2>2, LocksKept
<1>9. ASSUME NEW t \in Task, FinishDone(w, t) PROVE LocksHeld'
  <2>1. CASE Raise(w, wq[w], t, ACTIVE)
    BY <2>1, LocksDie DEF Raise
  <2>2. CASE ~Raise(w, wq[w], t, ACTIVE)
    BY <1>9, <2>2, LocksStep DEF FinishDone
  <2> QED BY <2>1, <2>2
<1>10. ASSUME NEW t \in Task, CountExecutions(w, t) PROVE LocksHeld'
  <2>1. CASE Die(w, "raised")
    BY <2>1, LocksDie
  <2>2. CASE ~Die(w, "raised")
    BY <1>10, <2>2, LocksStep DEF CountExecutions
  <2> QED BY <2>1, <2>2
<1>11. ASSUME NEW t \in Task, FinishFailed(w, t) PROVE LocksHeld'
  <2>1. CASE Raise(w, wq[w], t, ACTIVE)
    BY <2>1, LocksDie DEF Raise
  <2>2. CASE ~Raise(w, wq[w], t, ACTIVE)
    BY <1>11, <2>2, LocksStep DEF FinishFailed
  <2> QED BY <2>1, <2>2
<1>12. CASE EndGroup(w)
  <2>1. \A t \in Task : job[w][t] # "ready"
    BY <1>12 DEF EndGroup, JobsIn, InGroup
  <2> QED BY <1>12, <2>1, LocksKept DEF EndGroup, TypeOK
<1>13. CASE EndBatch(w)
  BY <1>13, LocksKept DEF EndBatch, LocksHeld, TypeOK
<1> QED BY <1>1, <1>2, <1>3, <1>4, <1>5, <1>6, <1>7, <1>8, <1>9, <1>10, <1>11,
           <1>12, <1>13 DEF Process

\* The steps on scheduled and expired tasks, of a worker that executes nothing.
LEMMA LocksMaintain ==
  ASSUME TypeOK, LocksHeld, NEW w \in Worker, Maintain(w)
  PROVE  LocksHeld'
<1> USE DEF workerVars, lockVars, ghostVars, Goto
<1>1. CASE Raise(w, cur[w][1], cur[w][2], ACTIVE)
  BY <1>1, LocksDie DEF Raise
<1>2. CASE ~Raise(w, cur[w][1], cur[w][2], ACTIVE)
  <2>1. /\ \A v \in Worker \ {w} : pc'[v] = pc[v]
        /\ UNCHANGED <<job, lock>>
        /\ pc[w] \in {"idle"} \cup Expiring
    BY <1>2 DEF Maintain, Schedule, ExpireScan, ExpireLoad, ExpireMove, ExpireCheck, ExpireDrop,
                ExpireDone, Expiring, TypeOK
  <2>2. \A t \in Task : job[w][t] # "ready"
    BY <2>1 DEF LocksHeld, Expiring
  <2> QED BY <2>1, <2>2 DEF LocksHeld
<1> QED BY <1>1, <1>2

(* If leases outlive the renewals, workers never execute two tasks that     *)
(* need the same lock at once, not even in batches that mix functions, and  *)
(* none executes a task whose lock a worker that is gone left behind.       *)
THEOREM LocksExclude ==
  ASSUME Timely
  PROVE  Spec => []LockExclusion
<1>1. Init => LocksHeld
  BY DEF Init, NoJobs, LocksHeld
<1>2. TypeOK /\ LocksHeld /\ [Next]_vars => LocksHeld'
  <2> SUFFICES ASSUME TypeOK, LocksHeld, [Next]_vars PROVE LocksHeld'
    OBVIOUS
  <2>1. CASE Client \/ UNCHANGED vars
    <3>1. UNCHANGED <<pc, job, lock>>
      BY <2>1 DEF vars, workerVars, lockVars, Client, Delay, Retry, Cancel, Delete, Vanish
    <3> QED BY <3>1 DEF LocksHeld
  <2>2. CASE Environment
    <3>1. ASSUME NEW w \in Worker, Crash(w) PROVE LocksHeld'
      BY <3>1, LocksDie DEF Crash
    <3>2. ASSUME NEW w \in Worker, Restart(w) PROVE LocksHeld'
      <4>1. \A t \in Task : job[w][t] # "ready"
        BY <3>2 DEF Restart, Gone, LocksHeld
      <4>2. UNCHANGED <<job, lock>> /\ \A v \in Worker \ {w} : pc'[v] = pc[v]
        BY <3>2 DEF Restart, lockVars, TypeOK
      <4> QED BY <4>1, <4>2 DEF LocksHeld
    <3>3. ASSUME NEW l \in Lock, LockLapse(l) PROVE LocksHeld'
      <4>1. UNCHANGED <<pc, job>> /\ \A m \in Lock : lock[m] \in Worker => lock'[m] = lock[m]
        BY <3>3, ConstantsOK DEF LockLapse, workerVars, TypeOK
      <4>2. \A t \in Task : LockOf[t] # NoLock => LockOf[t] \in Lock
        BY DEF Lock
      <4> QED BY <4>1, <4>2 DEF LocksHeld
    <3>4. CASE \/ ExpireLockLapse \/ \E q \in Queue, t \in Task : Lapse(q, t)
               \/ \E e \in Entry : ChildEnds(e)
      BY <3>4 DEF ExpireLockLapse, Lapse, ChildEnds, workerVars, lockVars, LocksHeld
    <3> QED BY <2>2, <3>1, <3>2, <3>3, <3>4 DEF Environment
  <2> QED BY <2>1, <2>2, LocksProcess, LocksMaintain DEF Next
<1>3. LocksHeld => LockExclusion
  BY ConstantsOK DEF LocksHeld, LockExclusion, Executing
<1> QED BY <1>1, <1>2, <1>3, TypeCorrect, PTL DEF Spec

-----------------------------------------------------------------------------
(* The indexes.                                                             *)

\* Every script and pipeline but the heartbeat's zadd keeps the indexes sound.
LEMMA IndexMoves ==
  ASSUME StoreTypeOK, IndexSound,
         NEW q \in Queue, NEW t \in Task, NEW from \in State, NEW to \in State
  PROVE  /\ MoveTask(q, t, from, to) /\ from # to => IndexSound'
         /\ RemoveTask(q, t, from, FALSE) => IndexSound'
         /\ RemoveTask(q, t, from, t \in Unique) => IndexSound'
         /\ AddTask(q, t, to) => IndexSound'
<1> USE DEF StoreTypeOK
<1> DEFINE Left == zset[from][q] \ {t}
           NewIndex == SRemIfNotExists(from, q, Left)
           Sound(s, r) == /\ r \in index'[s] => zset'[s][r] # {}
                          /\ s # ACTIVE /\ zset'[s][r] # {} => r \in index'[s]
<1>1. \A r \in Queue : r \in NewIndex <=> r \in index[from] /\ (r = q => Left # {})
  BY DEF SRemIfNotExists
<1> HIDE DEF NewIndex
<1>a. zset[to][q] \cup {t} # {}
  OBVIOUS
<1>2. ASSUME MoveTask(q, t, from, to), from # to PROVE IndexSound'
  <2>1. /\ zset'[from] = [zset[from] EXCEPT ![q] = Left] /\ index'[from] = NewIndex
        /\ zset'[to] = [zset[to] EXCEPT ![q] = @ \cup {t}] /\ index'[to] = index[to] \cup {q}
        /\ \A s \in State \ {from, to} : zset'[s] = zset[s] /\ index'[s] = index[s]
    BY <1>2 DEF MoveTask, NewIndex
  <2> SUFFICES ASSUME NEW s \in State, NEW r \in Queue PROVE Sound(s, r)
    BY DEF IndexSound
  <2>2. CASE s = from
    BY <1>1, <2>1, <2>2 DEF IndexSound
  <2>3. CASE s = to
    <3>1. zset'[to][r] = IF r = q THEN zset[to][q] \cup {t} ELSE zset[to][r]
      BY <2>1
    <3>2. r \in index'[to] <=> r \in index[to] \/ r = q
      BY <2>1
    <3> QED BY <1>a, <2>3, <3>1, <3>2 DEF IndexSound
  <2>4. CASE s \notin {from, to}
    BY <2>1, <2>4 DEF IndexSound
  <2> QED BY <2>2, <2>3, <2>4
<1>3. ASSUME /\ zset' = [zset EXCEPT ![from][q] = Left]
             /\ index' = [index EXCEPT ![from] = NewIndex]
      PROVE  IndexSound'
  <2> SUFFICES ASSUME NEW s \in State, NEW r \in Queue PROVE Sound(s, r)
    BY DEF IndexSound
  <2>1. CASE s = from
    BY <1>1, <1>3, <2>1 DEF IndexSound
  <2>2. CASE s # from
    BY <1>3, <2>2 DEF IndexSound
  <2> QED BY <2>1, <2>2
<1>4. ASSUME AddTask(q, t, to) PROVE IndexSound'
  <2> SUFFICES ASSUME NEW s \in State, NEW r \in Queue PROVE Sound(s, r)
    BY DEF IndexSound
  <2>1. CASE s = to
    BY <1>a, <1>4, <2>1 DEF AddTask, IndexSound
  <2>2. CASE s # to
    BY <1>4, <2>2 DEF AddTask, IndexSound
  <2> QED BY <2>1, <2>2
<1>5. RemoveTask(q, t, from, FALSE) \/ RemoveTask(q, t, from, t \in Unique) => IndexSound'
  BY <1>3 DEF RemoveTask, NewIndex
<1> QED BY <1>2, <1>4, <1>5

\* So do the batches, and the heartbeat itself only adds to the active set.
LEMMA IndexBatches ==
  ASSUME StoreTypeOK, IndexSound, NEW q \in Queue, NEW M
  PROVE  /\ PopToActive(q, M) /\ M \subseteq zset[QUEUED][q] => IndexSound'
         /\ PopToQueued(q, M) /\ M \subseteq zset[SCHEDULED][q] => IndexSound'
         /\ TouchActive(q, M) => IndexSound'
<1> USE DEF StoreTypeOK, IndexSound, SRemIfNotExists
<1> USE DEF State, QUEUED, ACTIVE, SCHEDULED, ERROR
<1>1. PopToActive(q, M) /\ M \subseteq zset[QUEUED][q] => IndexSound'
  BY DEF PopToActive, PopMoved, PopDeferred
<1>2. PopToQueued(q, M) /\ M \subseteq zset[SCHEDULED][q] => IndexSound'
  BY DEF PopToQueued
<1>3. TouchActive(q, M) => IndexSound'
  BY DEF TouchActive
<1> QED BY <1>1, <1>2, <1>3

(* Whatever the workers' timing: the indexes of the queued, scheduled and   *)
(* error states list exactly the queues with a task in that state, and the  *)
(* index of the active state lists no queue without one.                    *)
THEOREM IndexesSound == Spec => []IndexSound
<1> USE DEF workerVars, lockVars, ghostVars, storeVars
<1>1. Init => IndexSound
  BY DEF Init, StoreInit, IndexSound
<1>2. TypeOK /\ IndexSound /\ [Next]_vars => IndexSound'
  <2> SUFFICES ASSUME TypeOK, IndexSound, [Next]_vars PROVE IndexSound'
    OBVIOUS
  <2> StoreTypeOK
    BY DEF TypeOK
  <2> /\ QUEUED \in State /\ SCHEDULED \in State /\ ERROR \in State /\ ACTIVE \in State
    BY DEF State
  <2> /\ ACTIVE \notin {QUEUED, SCHEDULED, ERROR} /\ QUEUED # ERROR
    BY DEF QUEUED, ACTIVE, SCHEDULED, ERROR
  <2>0. UNCHANGED <<zset, index>> => IndexSound'
    BY DEF IndexSound
  <2>1. CASE Client
    BY <2>0, <2>1, IndexMoves DEF Client, Delay, Retry, Cancel, Delete, Vanish
  <2>2. ASSUME NEW w \in Worker, Process(w) PROVE IndexSound'
    <3>1. wq[w] \in Queue
      BY DEF TypeOK
    <3>2. ASSUME NEW q \in Queue, Pop(w, q) PROVE IndexSound'
      BY <3>2, IndexBatches DEF Pop
    <3>3. CASE Heartbeat(w)
      BY <3>1, <3>3, IndexBatches DEF Heartbeat
    <3>4. ASSUME NEW t \in Task,
                 Drop(w, t) \/ LockedOut(w, t) \/ FinishDone(w, t) \/ FinishFailed(w, t)
          PROVE  IndexSound'
      BY <2>0, <3>1, <3>4, IndexMoves DEF Drop, LockedOut, FinishDone, FinishFailed, Raise, Die
    <3>5. CASE ~((\E q \in Queue : Pop(w, q)) \/ Heartbeat(w) \/ \E t \in Task :
                   Drop(w, t) \/ LockedOut(w, t) \/ FinishDone(w, t) \/ FinishFailed(w, t))
      BY <2>0, <2>2, <3>5
         DEF Process, Load, BeginGroup, AcquireLock, Execute, Succeed, Fail, CountExecutions,
             EndGroup, EndBatch, Die
    <3> QED BY <3>2, <3>3, <3>4, <3>5
  <2>3. ASSUME NEW w \in Worker, Maintain(w) PROVE IndexSound'
    <3>1. cur[w][1] \in Queue /\ cur[w][2] \in Task
      BY EntryTypes
    <3>2. ASSUME NEW q \in Queue, Schedule(w, q) PROVE IndexSound'
      BY <3>2, IndexBatches DEF Schedule
    <3>3. CASE ExpireMove(w) \/ ExpireDrop(w)
      BY <2>0, <3>1, <3>3, IndexMoves DEF ExpireMove, ExpireDrop, Raise, Die
    <3>4. CASE ExpireScan(w) \/ ExpireLoad(w) \/ ExpireCheck(w) \/ ExpireDone(w)
      BY <2>0, <3>4 DEF ExpireScan, ExpireLoad, ExpireCheck, ExpireDone
    <3> QED BY <2>3, <3>2, <3>3, <3>4 DEF Maintain
  <2>4. CASE Environment
    BY <2>0, <2>4
       DEF Environment, Lapse, GrowStale, LockLapse, ExpireLockLapse, Crash, Die, Restart,
           ChildEnds
  <2>5. CASE UNCHANGED vars
    BY <2>0, <2>5 DEF vars
  <2> QED BY <2>1, <2>2, <2>3, <2>4, <2>5 DEF Next
<1> QED BY <1>1, <1>2, TypeCorrect, PTL DEF Spec
=============================================================================
