------------------------- MODULE TaskQueuesSafetyProofs -------------------------
(****************************************************************************)
(* What Ownership is good for: theorems about the store and the requests,   *)
(* of timely workers and safe batches, for any number of tasks, queues and  *)
(* workers.                                                                 *)
(****************************************************************************)
EXTENDS TaskQueuesProofs

-----------------------------------------------------------------------------
(* What the scripts do to the places of a task.                             *)

\* The states, for the provers.
LEMMA StateValues ==
  /\ State = {QUEUED, ACTIVE, SCHEDULED, ERROR}
  /\ QUEUED # ACTIVE /\ QUEUED # SCHEDULED /\ QUEUED # ERROR
  /\ ACTIVE # SCHEDULED /\ ACTIVE # ERROR /\ SCHEDULED # ERROR
BY DEF State, QUEUED, ACTIVE, SCHEDULED, ERROR

\* move_task with a to_state: t leaves one state for the other.
LEMMA MoveIn ==
  ASSUME StoreTypeOK, NEW q \in Queue, NEW t \in Task, NEW from \in State, NEW to \in State,
         from # to, MoveTask(q, t, from, to),
         NEW s \in State, NEW r \in Queue, NEW u \in Task
  PROVE  In(s, r, u)' <=> IF r = q /\ u = t THEN s = to \/ (s # from /\ In(s, r, u))
                          ELSE In(s, r, u)
<1>1. zset' = [zset EXCEPT ![from][q] = @ \ {t}, ![to][q] = @ \cup {t}]
  BY DEF MoveTask
<1>2. zset'[s][r] = IF s = from /\ r = q THEN zset[s][r] \ {t}
                    ELSE IF s = to /\ r = q THEN zset[s][r] \cup {t} ELSE zset[s][r]
  BY <1>1 DEF StoreTypeOK
<1> QED BY <1>2 DEF In

\* move_task without one: t leaves the state.
LEMMA RemoveIn ==
  ASSUME StoreTypeOK, NEW q \in Queue, NEW t \in Task, NEW from \in State, NEW unique,
         RemoveTask(q, t, from, unique),
         NEW s \in State, NEW r \in Queue, NEW u \in Task
  PROVE  In(s, r, u)' <=> In(s, r, u) /\ ~(s = from /\ r = q /\ u = t)
<1>1. zset' = [zset EXCEPT ![from][q] = @ \ {t}]
  BY DEF RemoveTask
<1> QED BY <1>1 DEF In, StoreTypeOK

\* The pipeline of delay: t is in one more state, if it was not there already.
LEMMA AddIn ==
  ASSUME StoreTypeOK, NEW q \in Queue, NEW t \in Task, NEW to \in State, AddTask(q, t, to),
         NEW s \in State, NEW r \in Queue, NEW u \in Task
  PROVE  In(s, r, u)' <=> In(s, r, u) \/ (s = to /\ r = q /\ u = t)
BY DEF AddTask, In, StoreTypeOK

\* zpoppush to the active set: what is active already is scheduled instead.
LEMMA PopIn ==
  ASSUME StoreTypeOK, NEW q \in Queue, NEW M \in SUBSET zset[QUEUED][q], PopToActive(q, M),
         NEW s \in State, NEW r \in Queue, NEW u \in Task
  PROVE  In(s, r, u)' <=>
           IF r = q /\ u \in M
           THEN \/ s = ACTIVE
                \/ s = SCHEDULED /\ (In(SCHEDULED, r, u) \/ In(ACTIVE, r, u))
                \/ s = ERROR /\ In(ERROR, r, u)
           ELSE In(s, r, u)
<1> USE StateValues DEF StoreTypeOK
<1>1. zset' = [zset EXCEPT ![QUEUED][q] = @ \ M,
                           ![ACTIVE][q] = @ \cup PopMoved(q, M),
                           ![SCHEDULED][q] = @ \cup PopDeferred(q, M)]
  BY DEF PopToActive
<1>2. CASE r # q
  BY <1>1, <1>2 DEF In
<1>3. CASE r = q
  <2>1. /\ zset'[QUEUED][q] = zset[QUEUED][q] \ M
        /\ zset'[ACTIVE][q] = zset[ACTIVE][q] \cup PopMoved(q, M)
        /\ zset'[SCHEDULED][q] = zset[SCHEDULED][q] \cup PopDeferred(q, M)
        /\ zset'[ERROR][q] = zset[ERROR][q]
    BY <1>1
  <2> QED BY <1>3, <2>1 DEF In, PopMoved, PopDeferred
<1> QED BY <1>2, <1>3

\* zpoppush to the queued set.
LEMMA QueueIn ==
  ASSUME StoreTypeOK, NEW q \in Queue, NEW M \in SUBSET zset[SCHEDULED][q], PopToQueued(q, M),
         NEW s \in State, NEW r \in Queue, NEW u \in Task
  PROVE  In(s, r, u)' <=>
           IF r = q /\ u \in M THEN s = QUEUED \/ (s # SCHEDULED /\ In(s, r, u))
           ELSE In(s, r, u)
<1> USE StateValues DEF StoreTypeOK
<1>1. zset' = [zset EXCEPT ![SCHEDULED][q] = @ \ M, ![QUEUED][q] = @ \cup M]
  BY DEF PopToQueued
<1>2. zset'[s][r] = IF s = SCHEDULED /\ r = q THEN zset[s][r] \ M
                    ELSE IF s = QUEUED /\ r = q THEN zset[s][r] \cup M ELSE zset[s][r]
  BY <1>1
<1> QED BY <1>2 DEF In

-----------------------------------------------------------------------------
(* What a step does to the store, whoever takes it.                         *)

Moved == \E q \in Queue, t \in Task, from \in {ACTIVE, ERROR}, to \in State \ {ACTIVE} :
           from # to /\ MoveTask(q, t, from, to)

Removed == \E t \in Task :
  \/ \E q \in Queue : Cancel(q, t) \/ Delete(q, t)
  \/ \E w \in Worker : FinishDone(w, t)

\* A worker that found no object for t takes it for a stub, whatever t was.
Stub(q, t) ==
  \E w \in Worker :
    \/ pc[w] = "batch" /\ job[w][t] = "missing" /\ wq[w] = q
    \/ pc[w] = "expDrop" /\ cur[w][1] = q /\ cur[w][2] = t

StubRemoved == \E q \in Queue, t \in Task : Stub(q, t) /\ RemoveTask(q, t, ACTIVE, FALSE)

Popped == \E q \in Queue : \E M \in SUBSET zset[QUEUED][q] : PopToActive(q, M)

Queued == \E q \in Queue : \E M \in SUBSET zset[SCHEDULED][q] : PopToQueued(q, M)

Delayed == \E t \in Task, q \in Queue, s \in {QUEUED, SCHEDULED} : Delay(q, t, s)

Vanished == \E t \in Task : Vanish(t)

Untouched == UNCHANGED <<zset, index, object>>

\* The heartbeat of a worker finds its entries where they are.
LEMMA HeartbeatQuiet ==
  ASSUME TypeOK, Ownership, NEW w \in Worker, Heartbeat(w)
  PROVE  UNCHANGED <<zset, stale, index, object, executions>>
<1>1. \A t \in JobsIn(w, {"ready"}) : t \in zset[ACTIVE][wq[w]] /\ t \notin stale[wq[w]]
  BY DEF Ownership, HeldAreActive, Holds, JobsIn, In
<1>2. wq[w] \in Queue /\ ACTIVE \in State
  BY StateValues DEF TypeOK
<1>3. zset[ACTIVE][wq[w]] \cup JobsIn(w, {"ready"}) = zset[ACTIVE][wq[w]]
  BY <1>1
<1>4. stale[wq[w]] \ JobsIn(w, {"ready"}) = stale[wq[w]]
  BY <1>1
<1>5. zset' = [zset EXCEPT ![ACTIVE][wq[w]] = @ \cup JobsIn(w, {"ready"})]
  BY DEF Heartbeat, TouchActive
<1>6. zset' = zset
  BY <1>2, <1>3, <1>5 DEF TypeOK, StoreTypeOK
<1>7. stale' = stale
  BY <1>2, <1>4 DEF Heartbeat, TouchActive, Unstale, TypeOK, StoreTypeOK
<1> QED BY <1>6, <1>7 DEF Heartbeat, TouchActive

\* A worker that finishes its tasks, or gives them back, finds them where it put
\* them: _move raises TaskNotFound for none of them.
LEMMA NeverRaised ==
  ASSUME TypeOK, Ownership, NEW w \in Worker, NEW t \in Task
  PROVE  /\ FinishDone(w, t) => /\ RemoveTask(wq[w], t, ACTIVE, t \in Unique)
                                /\ Step(w, pc[w], {t}, "none") /\ Settle(w, t)
                                /\ UNCHANGED <<wq, expired, full, cur, lockVars, created, vanished,
                                               covered, spent>>
         /\ LockedOut(w, t) => MoveTask(wq[w], t, ACTIVE, SCHEDULED)
         /\ Drop(w, t) => /\ RemoveTask(wq[w], t, ACTIVE, FALSE)
                          /\ UNCHANGED <<created, vanished>>
         /\ FinishFailed(w, t) => ~Raise(w, wq[w], t, ACTIVE)
<1>1. Holds(w, t) => In(ACTIVE, wq[w], t)
  BY DEF Ownership, HeldAreActive
<1>2. ASSUME FinishDone(w, t)
      PROVE  /\ RemoveTask(wq[w], t, ACTIVE, t \in Unique)
             /\ Step(w, pc[w], {t}, "none") /\ Settle(w, t)
             /\ UNCHANGED <<wq, expired, full, cur, lockVars, created, vanished, covered, spent>>
  BY <1>1, <1>2 DEF FinishDone, Raise, Holds
<1>3. LockedOut(w, t) => MoveTask(wq[w], t, ACTIVE, SCHEDULED)
  BY <1>1 DEF LockedOut, Raise, Holds
<1>4. Drop(w, t) => RemoveTask(wq[w], t, ACTIVE, FALSE) /\ UNCHANGED <<created, vanished>>
  BY <1>1 DEF Drop, Raise, Holds, ghostVars
<1>5. FinishFailed(w, t) => Holds(w, t)
  BY DEF FinishFailed, Holds
<1> QED BY <1>1, <1>2, <1>3, <1>4, <1>5 DEF Raise

\* A task whose processing is complete, or that a client cancels or deletes, is
\* removed as what it is.
LEMMA RemovedEffect ==
  ASSUME TypeOK, Ownership, Removed
  PROVE  /\ \E q \in Queue, t \in Task, from \in State : RemoveTask(q, t, from, t \in Unique)
         /\ UNCHANGED <<created, vanished>>
<1> USE StateValues
<1>1. CASE \E t \in Task, q \in Queue : Cancel(q, t) \/ Delete(q, t)
  BY <1>1 DEF Cancel, Delete
<1>2. ASSUME NEW w \in Worker, NEW t \in Task, FinishDone(w, t)
      PROVE  /\ RemoveTask(wq[w], t, ACTIVE, t \in Unique) /\ wq[w] \in Queue
             /\ UNCHANGED <<created, vanished>>
  BY <1>2, NeverRaised DEF TypeOK
<1> QED BY <1>1, <1>2 DEF Removed

\* Every step does one of these to the store; only clients create tasks, and
\* objects vanish by themselves only.
LEMMA StoreSteps ==
  ASSUME TypeOK, Ownership, [Next]_vars
  PROVE  \/ Delayed \/ Vanished
         \/ /\ Moved \/ Removed \/ StubRemoved \/ Popped \/ Queued \/ Untouched
            /\ UNCHANGED <<created, vanished>>
<1> USE DEF workerVars, lockVars, ghostVars, storeVars
<1> USE StateValues
<1> DEFINE Other == Moved \/ Removed \/ StubRemoved \/ Popped \/ Queued \/ Untouched
<1>0. UNCHANGED <<zset, index, object>> => Other
  BY DEF Untouched
<1>1. ASSUME NEW q \in Queue, NEW t \in Task, NEW from \in {ACTIVE, ERROR},
             NEW to \in State \ {ACTIVE}, MoveTask(q, t, from, to), from # to
      PROVE  Other
  BY <1>1 DEF Moved
<1>2. Removed => Other /\ UNCHANGED <<created, vanished>>
  BY RemovedEffect
<1>3. ASSUME NEW w \in Worker, NEW p, Die(w, p) PROVE Other /\ UNCHANGED <<created, vanished>>
  BY <1>0, <1>3 DEF Die
<1>4. CASE Client
  <2>1. ASSUME NEW t \in Task, NEW q \in Queue, Retry(q, t)
        PROVE  Other /\ UNCHANGED <<created, vanished>>
    BY <1>1, <2>1 DEF Retry
  <2>2. ASSUME NEW t \in Task, NEW q \in Queue, Cancel(q, t) \/ Delete(q, t)
        PROVE  Other /\ UNCHANGED <<created, vanished>>
    BY <1>2, <2>2 DEF Removed
  <2> QED BY <1>4, <2>1, <2>2 DEF Client, Delayed, Vanished
<1>5. ASSUME NEW w \in Worker, Process(w) PROVE Other /\ UNCHANGED <<created, vanished>>
  <2> wq[w] \in Queue
    BY DEF TypeOK
  <2>1. ASSUME NEW q \in Queue, Pop(w, q) PROVE Other /\ UNCHANGED <<created, vanished>>
    BY <2>1 DEF Pop, Popped
  <2>2. CASE Heartbeat(w)
    BY <1>0, <2>2, HeartbeatQuiet DEF Heartbeat
  <2>3. ASSUME NEW t \in Task, Drop(w, t) PROVE Other /\ UNCHANGED <<created, vanished>>
    <3>1. Stub(wq[w], t)
      BY <2>3 DEF Drop, Stub
    <3> QED BY <1>3, <2>3, <3>1 DEF Drop, Raise, StubRemoved
  <2>4. ASSUME NEW t \in Task, LockedOut(w, t) PROVE Other /\ UNCHANGED <<created, vanished>>
    BY <1>1, <1>3, <2>4 DEF LockedOut, Raise
  <2>5. ASSUME NEW t \in Task, FinishDone(w, t) PROVE Other /\ UNCHANGED <<created, vanished>>
    BY <1>2, <2>5 DEF Removed
  <2>6. ASSUME NEW t \in Task, FinishFailed(w, t) PROVE Other /\ UNCHANGED <<created, vanished>>
    <3>1. PICK to \in {ERROR, SCHEDULED} :
            \/ MoveTask(wq[w], t, ACTIVE, to) /\ UNCHANGED <<created, vanished>>
            \/ Raise(w, wq[w], t, ACTIVE)
      BY <2>6 DEF FinishFailed
    <3> QED BY <1>1, <1>3, <3>1 DEF Raise
  <2>7. ASSUME NEW t \in Task, CountExecutions(w, t)
        PROVE  Other /\ UNCHANGED <<created, vanished>>
    BY <1>0, <1>3, <2>7 DEF CountExecutions
  <2>8. CASE \/ Load(w) \/ BeginGroup(w) \/ (\E t \in Task : AcquireLock(w, t)) \/ Execute(w)
             \/ Succeed(w) \/ Fail(w) \/ EndGroup(w) \/ EndBatch(w)
    BY <1>0, <2>8
       DEF Load, BeginGroup, AcquireLock, Execute, Succeed, Fail, EndGroup, EndBatch
  <2> QED BY <1>5, <2>1, <2>2, <2>3, <2>4, <2>5, <2>6, <2>7, <2>8 DEF Process
<1>6. ASSUME NEW w \in Worker, Maintain(w) PROVE Other /\ UNCHANGED <<created, vanished>>
  <2> cur[w][1] \in Queue /\ cur[w][2] \in Task
    BY EntryTypes
  <2>1. ASSUME NEW q \in Queue, Schedule(w, q) PROVE Other /\ UNCHANGED <<created, vanished>>
    BY <2>1 DEF Schedule, Queued
  <2>2. CASE ExpireMove(w)
    BY <1>0, <1>1, <2>2 DEF ExpireMove, Goto
  <2>3. CASE ExpireDrop(w)
    <3>1. Stub(cur[w][1], cur[w][2])
      BY <2>3 DEF ExpireDrop, Stub
    <3> QED BY <1>3, <2>3, <3>1 DEF ExpireDrop, Raise, Goto, StubRemoved
  <2>4. CASE ExpireScan(w) \/ ExpireLoad(w) \/ ExpireCheck(w) \/ ExpireDone(w)
    BY <1>0, <2>4 DEF ExpireScan, ExpireLoad, ExpireCheck, ExpireDone, Goto
  <2> QED BY <1>6, <2>1, <2>2, <2>3, <2>4 DEF Maintain
<1>7. CASE Environment
  BY <1>0, <1>3, <1>7
     DEF Environment, Lapse, GrowStale, LockLapse, ExpireLockLapse, Crash, Restart, ChildEnds
<1>8. CASE UNCHANGED vars
  BY <1>0, <1>8 DEF vars
<1> QED BY <1>4, <1>5, <1>6, <1>7, <1>8 DEF Next

-----------------------------------------------------------------------------
(* The index of the active state.                                           *)

\* What IndexSound leaves out.
ActiveListed == \A q \in Queue : zset[ACTIVE][q] # {} => q \in index[ACTIVE]

\* Every script that fills an active set lists its queue, and none empties the
\* index before the set.
LEMMA ActiveListedMoves ==
  ASSUME StoreTypeOK, ActiveListed,
         NEW q \in Queue, NEW t \in Task, NEW from \in State, NEW to \in State
  PROVE  /\ MoveTask(q, t, from, to) /\ from # to => ActiveListed'
         /\ \A unique : RemoveTask(q, t, from, unique) => ActiveListed'
         /\ AddTask(q, t, to) => ActiveListed'
<1> USE StateValues DEF StoreTypeOK
<1> DEFINE Left == zset[from][q] \ {t}
           NewIndex == SRemIfNotExists(from, q, Left)
<1>1. \A r \in Queue : r \in NewIndex <=> r \in index[from] /\ (r = q => Left # {})
  BY DEF SRemIfNotExists
<1> HIDE DEF NewIndex
<1>2. ASSUME MoveTask(q, t, from, to), from # to PROVE ActiveListed'
  <2>1. /\ zset'[from] = [zset[from] EXCEPT ![q] = Left] /\ index'[from] = NewIndex
        /\ zset'[to] = [zset[to] EXCEPT ![q] = @ \cup {t}] /\ index'[to] = index[to] \cup {q}
        /\ \A s \in State \ {from, to} : zset'[s] = zset[s] /\ index'[s] = index[s]
    BY <1>2 DEF MoveTask, NewIndex
  <2>2. CASE from = ACTIVE
    <3>0. zset[ACTIVE] \in [Queue -> SUBSET Task]
      BY DEF StoreTypeOK
    <3>1. \A r \in Queue : zset'[ACTIVE][r] = IF r = q THEN Left ELSE zset[ACTIVE][r]
      <4> HIDE DEF Left, StoreTypeOK
      <4> QED BY ONLY <2>1, <2>2, <3>0
    <3>2. \A r \in Queue : zset'[ACTIVE][r] # {} => zset[ACTIVE][r] # {}
      BY <2>2, <3>1
    <3>3. index'[ACTIVE] = NewIndex
      BY <2>1, <2>2
    <3> HIDE DEF Left
    <3> QED BY <1>1, <2>2, <3>1, <3>2, <3>3 DEF ActiveListed
  <2>3. CASE to = ACTIVE
    <3>1. zset[ACTIVE] \in [Queue -> SUBSET Task]
      BY DEF StoreTypeOK
    <3>2. \A r \in Queue \ {q} : zset'[ACTIVE][r] = zset[ACTIVE][r]
      <4> HIDE DEF Left, StoreTypeOK
      <4> QED BY ONLY <2>1, <2>3, <3>1
    <3>3. index'[ACTIVE] = index[ACTIVE] \cup {q}
      BY <2>1, <2>3
    <3> QED BY <3>2, <3>3 DEF ActiveListed
  <2>4. CASE ACTIVE \notin {from, to}
    <3>1. zset'[ACTIVE] = zset[ACTIVE] /\ index'[ACTIVE] = index[ACTIVE]
      BY <2>1, <2>4
    <3> QED BY <3>1 DEF ActiveListed
  <2> QED BY <2>2, <2>3, <2>4
<1>3. ASSUME NEW unique, RemoveTask(q, t, from, unique) PROVE ActiveListed'
  <2>1. /\ zset' = [zset EXCEPT ![from][q] = Left]
        /\ index' = [index EXCEPT ![from] = NewIndex]
    BY <1>3 DEF RemoveTask, NewIndex
  <2>2. CASE from = ACTIVE
    BY <1>1, <2>1, <2>2 DEF ActiveListed
  <2>3. CASE from # ACTIVE
    BY <2>1, <2>3 DEF ActiveListed
  <2> QED BY <2>2, <2>3
<1>4. ASSUME AddTask(q, t, to) PROVE ActiveListed'
  BY <1>4 DEF AddTask, ActiveListed
<1> QED BY <1>2, <1>3, <1>4

\* Every step of a timely system keeps the active queues listed.
LEMMA ActiveListedNext ==
  ASSUME TypeOK, Ownership, ActiveListed, [Next]_vars
  PROVE  ActiveListed'
<1> USE StateValues
<1> StoreTypeOK
  BY DEF TypeOK
<1>1. CASE UNCHANGED <<zset, index>>
  BY <1>1 DEF ActiveListed
<1>2. CASE Delayed
  BY <1>2, ActiveListedMoves DEF Delayed, Delay
<1>3. CASE Moved
  BY <1>3, ActiveListedMoves DEF Moved
<1>4. CASE Removed \/ StubRemoved
  BY <1>4, RemovedEffect, ActiveListedMoves DEF StubRemoved
<1>5. CASE Popped
  <2>1. PICK q \in Queue : \E M \in SUBSET zset[QUEUED][q] : PopToActive(q, M)
    BY <1>5 DEF Popped
  <2>2. PICK M \in SUBSET zset[QUEUED][q] : PopToActive(q, M)
    BY <2>1
  <2>3. /\ index'[ACTIVE] = index[ACTIVE] \cup {q}
        /\ \A r \in Queue \ {q} : zset'[ACTIVE][r] = zset[ACTIVE][r]
    BY <2>2 DEF PopToActive, StoreTypeOK
  <2> QED BY <2>3 DEF ActiveListed
<1>6. CASE Queued
  BY <1>6 DEF Queued, PopToQueued, StoreTypeOK, ActiveListed
<1> QED BY <1>1, <1>2, <1>3, <1>4, <1>5, <1>6, StoreSteps DEF Vanished, Vanish, Untouched

(* Of timely workers, whose heartbeats never bring an entry back, every     *)
(* index lists exactly the queues that have a task in its state.            *)
THEOREM IndexesExact ==
  ASSUME Timely, SafeBatches
  PROVE  Spec => []IndexExact
<1>1. Init => ActiveListed
  BY StateValues DEF Init, StoreInit, ActiveListed
<1>2. TypeOK /\ Ownership /\ ActiveListed /\ [Next]_vars => ActiveListed'
  BY ActiveListedNext
<1>3. IndexSound /\ ActiveListed => IndexExact
  BY DEF IndexSound, ActiveListed, IndexExact
<1> QED BY <1>1, <1>2, <1>3, TypeCorrect, TakenOnce, IndexesSound, PTL DEF Spec

-----------------------------------------------------------------------------
(* A task with an ID of its own.                                            *)

\* It is in one set of one queue at a time, and only after it was delayed.
Single ==
  \A t \in Task \ Unique, s \in State, q \in Queue : In(s, q, t) =>
    /\ t \in created
    /\ \A r \in State, p \in Queue : In(r, p, t) => r = s /\ p = q

\* It is delayed once, and the scripts only take it from one set to another.
LEMMA SingleNext ==
  ASSUME TypeOK, Ownership, Single, [Next]_vars
  PROVE  Single'
<1> USE StateValues
<1> StoreTypeOK
  BY DEF TypeOK
<1> SUFFICES ASSUME NEW u \in Task \ Unique, NEW s \in State, NEW r \in Queue, In(s, r, u)',
                    NEW s2 \in State, NEW r2 \in Queue, In(s2, r2, u)'
             PROVE  u \in created' /\ s2 = s /\ r2 = r
  BY DEF Single
<1>1. CASE UNCHANGED <<zset, created>>
  BY <1>1 DEF Single, In
<1>2. CASE Delayed
  <2>1. PICK t \in Task, q \in Queue, to \in {QUEUED, SCHEDULED} : Delay(q, t, to)
    BY <1>2 DEF Delayed
  <2>2. created' = created \cup ({t} \ Unique) /\ (t \in created => t \in Unique)
        /\ AddTask(q, t, to)
    BY <2>1 DEF Delay
  <2>3. \A x \in State, y \in Queue : In(x, y, u)' <=> In(x, y, u) \/ (x = to /\ y = q /\ u = t)
    BY <2>2, AddIn
  <2> QED BY <2>2, <2>3 DEF Single
<1>3. CASE Moved /\ UNCHANGED created
  <2>1. PICK q \in Queue, t \in Task, from \in {ACTIVE, ERROR}, to \in State \ {ACTIVE} :
          from # to /\ MoveTask(q, t, from, to)
    BY <1>3 DEF Moved
  <2>2. \A x \in State, y \in Queue :
          In(x, y, u)' <=> IF y = q /\ u = t THEN x = to \/ (x # from /\ In(x, y, u))
                           ELSE In(x, y, u)
    BY <2>1, MoveIn
  <2>3. In(from, q, t)
    BY <2>1 DEF MoveTask
  <2> QED BY <1>3, <2>2, <2>3 DEF Single
<1>4. CASE (Removed \/ StubRemoved) /\ UNCHANGED created
  <2>1. ASSUME NEW x \in State, NEW y \in Queue, In(x, y, u)' PROVE In(x, y, u)
    <3>1. CASE Removed
      BY <2>1, <3>1, RemovedEffect, RemoveIn
    <3>2. CASE StubRemoved
      <4>1. PICK q \in Queue, t \in Task : zset' = [zset EXCEPT ![ACTIVE][q] = @ \ {t}]
        BY <3>2 DEF StubRemoved, RemoveTask
      <4> QED BY <2>1, <4>1 DEF In, StoreTypeOK
    <3> QED BY <1>4, <3>1, <3>2
  <2> QED BY <1>4, <2>1 DEF Single
<1>5. CASE Popped /\ UNCHANGED created
  <2>1. PICK q \in Queue : \E M \in SUBSET zset[QUEUED][q] : PopToActive(q, M)
    BY <1>5 DEF Popped
  <2>2. PICK M \in SUBSET zset[QUEUED][q] : PopToActive(q, M)
    BY <2>1
  <2>3. \A x \in State, y \in Queue :
          In(x, y, u)' <=> IF y = q /\ u \in M
                           THEN \/ x = ACTIVE
                                \/ x = SCHEDULED /\ (In(SCHEDULED, y, u) \/ In(ACTIVE, y, u))
                                \/ x = ERROR /\ In(ERROR, y, u)
                           ELSE In(x, y, u)
    BY <2>2, PopIn
  <2>4. u \in M => In(QUEUED, q, u)
    BY DEF In
  <2> QED BY <1>5, <2>3, <2>4 DEF Single
<1>6. CASE Queued /\ UNCHANGED created
  <2>1. PICK q \in Queue : \E M \in SUBSET zset[SCHEDULED][q] : PopToQueued(q, M)
    BY <1>6 DEF Queued
  <2>2. PICK M \in SUBSET zset[SCHEDULED][q] : PopToQueued(q, M)
    BY <2>1
  <2>3. \A x \in State, y \in Queue :
          In(x, y, u)' <=> IF y = q /\ u \in M THEN x = QUEUED \/ (x # SCHEDULED /\ In(x, y, u))
                           ELSE In(x, y, u)
    BY <2>2, QueueIn
  <2>4. u \in M => In(SCHEDULED, q, u)
    BY DEF In
  <2> QED BY <1>6, <2>3, <2>4 DEF Single
<1> QED BY <1>1, <1>2, <1>3, <1>4, <1>5, <1>6, StoreSteps DEF Vanished, Vanish, Untouched, ghostVars

\* Nothing is anywhere at first.
LEMMA SingleInit == Init => Single
BY DEF Init, StoreInit, Single, In

\* What Single is for.
LEMMA SingleHolds ==
  ASSUME Timely, SafeBatches
  PROVE  Spec => []Single
<1>1. TypeOK /\ Ownership /\ Single /\ [Next]_vars => Single'
  BY SingleNext
<1> QED BY <1>1, SingleInit, TypeCorrect, TakenOnce, PTL DEF Spec

(* Of timely workers: a task with an ID of its own is in one state of a     *)
(* queue at a time, through every pop, retry, expiry, lock-out and crash.   *)
THEOREM NeverTwice ==
  ASSUME Timely, SafeBatches
  PROVE  Spec => []SingleCopy
<1>1. Single => SingleCopy
  BY DEF Single, SingleCopy
<1> QED BY <1>1, SingleHolds, PTL

-----------------------------------------------------------------------------
(* Executions.                                                              *)

\* Where a task that was executed is until its worker finishes it.
Busy == {"exec", "done", "failed"}

\* A worker's task is one it had before, and a worker that began to execute goes
\* on to the end, or the task was waiting and the worker popped it.
LEMMA HeldSteps ==
  ASSUME TypeOK, Ownership, [Next]_vars, NEW v \in Worker, NEW t \in Task, Holds(v, t)'
  PROVE  \/ pc[v] = "idle" /\ wq'[v] \in Queue /\ In(QUEUED, wq'[v], t) /\ pc'[v] = "load"
         \/ Holds(v, t) /\ wq'[v] = wq[v] /\ (pc[v] \in Busy => pc'[v] \in Busy)
<1> USE DEF workerVars, lockVars, ghostVars, Busy
<1> DEFINE Went == Holds(v, t) /\ wq'[v] = wq[v] /\ (pc[v] \in Busy => pc'[v] \in Busy)
<1>0. UNCHANGED <<pc, wq, job>> => Went
  BY DEF Holds
<1>1. ASSUME NEW w \in Worker, NEW p, Die(w, p) PROVE Went
  <2>1. v # w
    BY <1>1 DEF Die, Holds, NoJobs, TypeOK
  <2> QED BY <1>1, <2>1 DEF Die, Holds, TypeOK
<1>2. ASSUME NEW w \in Worker, NEW S, NEW j, Step(w, pc[w], S, j), UNCHANGED wq,
             j = "none" \/ \A u \in S \cap Task : Holds(w, u)
      PROVE  Went
  BY <1>2 DEF Step, Holds, TypeOK
<1>3. CASE Client
  BY <1>0, <1>3 DEF Client, Delay, Retry, Cancel, Delete, Vanish
<1>4. ASSUME NEW w \in Worker, NEW q \in Queue, Pop(w, q)
      PROVE  \/ pc[v] = "idle" /\ In(QUEUED, wq'[v], t) /\ wq'[v] \in Queue /\ pc'[v] = "load"
             \/ Went
  <2>1. PICK M \in SUBSET zset[QUEUED][q] :
          \/ UNCHANGED <<pc, job>>
          \/ Step(w, "load", PopMoved(q, M), "popped")
    BY <1>4 DEF Pop
  <2>2. wq' = [wq EXCEPT ![w] = q] /\ pc[w] = "idle"
    BY <1>4 DEF Pop
  <2>3. CASE v # w
    BY <2>1, <2>2, <2>3 DEF Step, Holds, TypeOK
  <2>4. CASE v = w
    <3>1. ~Holds(w, t)
      BY <2>2, JobsAtValues DEF Ownership, PhasesRespected, Holds
    <3>2. Step(w, "load", PopMoved(q, M), "popped") /\ t \in PopMoved(q, M)
      BY <2>1, <2>4, <3>1 DEF Step, Holds, TypeOK
    <3>3. t \in M
      BY <3>2 DEF PopMoved
    <3> QED BY <2>2, <2>4, <3>2, <3>3 DEF In, TypeOK, Step
  <2> QED BY <2>3, <2>4
<1>5. ASSUME NEW w \in Worker, Process(w), ~\E q \in Queue : Pop(w, q) PROVE Went
  <2>1. NoNewJobs
    BY <1>5, ProcessShrinks
  <2>2. CASE v # w
    <3>1. pc'[v] = pc[v]
      BY <1>5, <2>2 DEF Process, Load, Drop, BeginGroup, AcquireLock, LockedOut, Execute, Heartbeat,
         Succeed, Fail, FinishDone, CountExecutions, FinishFailed, EndGroup, EndBatch, Raise, Die,
         Step, TypeOK
    <3> QED BY <2>1, <3>1 DEF NoNewJobs
  <2>3. CASE v = w /\ pc[w] \in Busy /\ pc'[w] \notin Busy
    <3>1. \/ EndGroup(w) \/ \E p : Die(w, p)
      BY <1>5, <2>3 DEF Process, Load, Drop, BeginGroup, AcquireLock, LockedOut, Execute, Heartbeat,
         Succeed, Fail, FinishDone, CountExecutions, FinishFailed, EndBatch, Raise,
         Step, TypeOK
    <3>2. CASE EndGroup(w)
      <4>1. job[w][t] \notin InGroup /\ job'[w][t] = job[w][t]
        BY <3>2 DEF EndGroup, JobsIn
      <4>2. job[w][t] \in {"none", "ready", "retrying", "quiet"}
        BY <2>3, JobsAtValues DEF Ownership, PhasesRespected
      <4> QED BY <2>3, <4>1, <4>2 DEF Holds, InGroup
    <3> QED BY <1>1, <3>1, <3>2
  <2> QED BY <2>1, <2>2, <2>3 DEF NoNewJobs
<1>6. ASSUME NEW w \in Worker, Maintain(w) PROVE Went
  <2>1. NoNewJobs
    BY <1>6, MaintainShrinks
  <2>2. CASE v # w
    <3>1. pc'[v] = pc[v]
      BY <1>6, <2>2 DEF Maintain, Schedule, ExpireScan, ExpireLoad, ExpireMove, ExpireCheck,
         ExpireDrop, ExpireDone, Goto, Raise, Die, TypeOK
    <3> QED BY <2>1, <3>1 DEF NoNewJobs
  <2>3. CASE v = w
    <3>1. pc[w] \notin Busy
      BY <1>6 DEF Maintain, Schedule, ExpireScan, ExpireLoad, ExpireMove, ExpireCheck,
         ExpireDrop, ExpireDone
    <3> QED BY <2>1, <2>3, <3>1 DEF NoNewJobs
  <2> QED BY <2>2, <2>3
<1>7. CASE Environment
  <2>1. ASSUME NEW w \in Worker, Restart(w) PROVE Went
    BY <2>1 DEF Restart, Gone, Holds, TypeOK
  <2> QED BY <1>0, <1>1, <1>7, <2>1 DEF Environment, Lapse, LockLapse, ExpireLockLapse, Crash,
             ChildEnds
<1>8. CASE UNCHANGED vars
  BY <1>0, <1>8 DEF vars
<1> QED BY <1>3, <1>4, <1>5, <1>6, <1>7, <1>8 DEF Next

\* t is in a set from which it will be executed.
Waits(t) == \E q \in Queue : In(QUEUED, q, t) \/ In(SCHEDULED, q, t)

\* A task that was executed and has not been scheduled for a retry since has an ID
\* of its own, waits nowhere, and is held at most by the worker that executed it.
Settled(t) ==
  /\ t \in created \ (Unique \cup Idempotent)
  /\ ~Waits(t)
  /\ \A w \in Worker : Holds(w, t) => pc[w] \in Busy

SpentSettled == \A t \in spent : Settled(t)

\* Moving and removing a task makes no other task wait, nor itself out of a set where
\* it does not go to.
LEMMA WaitsMoves ==
  ASSUME StoreTypeOK, NEW q \in Queue, NEW t \in Task, NEW from \in State, NEW to \in State,
         NEW u \in Task, ~Waits(u), u # t \/ to \notin {QUEUED, SCHEDULED}
  PROVE  /\ MoveTask(q, t, from, to) /\ from # to => ~Waits(u)'
         /\ \A unique : RemoveTask(q, t, from, unique) => ~Waits(u)'
<1> USE StateValues
<1>1. ASSUME MoveTask(q, t, from, to), from # to PROVE ~Waits(u)'
  BY <1>1, MoveIn DEF Waits
<1>2. ASSUME NEW unique, RemoveTask(q, t, from, unique) PROVE ~Waits(u)'
  BY <1>2, RemoveIn DEF Waits
<1> QED BY <1>1, <1>2

\* A settled task waits again only if it is scheduled for a retry.
LEMMA SettledWaits ==
  ASSUME TypeOK, Ownership, [Next]_vars, NEW u \in Task, Settled(u), u \in spent'
  PROVE  ~Waits(u)'
<1> USE DEF workerVars, lockVars, ghostVars, storeVars
<1> USE StateValues
<1> StoreTypeOK
  BY DEF TypeOK
<1>0. UNCHANGED zset => ~Waits(u)'
  BY DEF Settled, Waits, In
<1>1. ASSUME NEW w \in Worker, NEW p, Die(w, p) PROVE ~Waits(u)'
  BY <1>0, <1>1 DEF Die
<1>2. ASSUME NEW q \in Queue, NEW t \in Task, NEW from \in State, NEW to \in State,
             from # to, MoveTask(q, t, from, to), t # u \/ to \notin {QUEUED, SCHEDULED}
      PROVE  ~Waits(u)'
  BY <1>2, WaitsMoves DEF Settled
<1>3. ASSUME NEW q \in Queue, NEW t \in Task, NEW from \in State, NEW unique,
             RemoveTask(q, t, from, unique)
      PROVE  ~Waits(u)'
  BY <1>3, RemoveIn DEF Settled, Waits
<1>4. CASE Client
  <2>1. ASSUME NEW t \in Task, NEW q \in Queue, NEW s \in {QUEUED, SCHEDULED}, Delay(q, t, s)
        PROVE  ~Waits(u)'
    <3>1. u # t /\ AddTask(q, t, s)
      BY <2>1 DEF Delay, Settled
    <3> QED BY <3>1, AddIn DEF Settled, Waits
  <2>2. ASSUME NEW t \in Task, NEW q \in Queue, Retry(q, t) PROVE ~Waits(u)'
    <3>1. u # t
      BY <2>2 DEF Retry
    <3> QED BY <1>2, <2>2, <3>1 DEF Retry
  <2>3. ASSUME NEW t \in Task, NEW q \in Queue, Cancel(q, t) \/ Delete(q, t) PROVE ~Waits(u)'
    BY <1>3, <2>3 DEF Cancel, Delete
  <2>4. ASSUME NEW t \in Task, Vanish(t) PROVE ~Waits(u)'
    BY <1>0, <2>4 DEF Vanish
  <2> QED BY <1>4, <2>1, <2>2, <2>3, <2>4 DEF Client
<1>5. ASSUME NEW w \in Worker, Process(w) PROVE ~Waits(u)'
  <2> wq[w] \in Queue
    BY DEF TypeOK
  <2>1. ASSUME NEW q \in Queue, Pop(w, q) PROVE ~Waits(u)'
    <3>1. PICK M \in SUBSET zset[QUEUED][q] : PopToActive(q, M)
      BY <2>1 DEF Pop
    <3>2. u \notin M
      BY DEF Settled, Waits, In
    <3> QED BY <3>1, <3>2, PopIn DEF Settled, Waits
  <2>2. CASE Heartbeat(w)
    BY <1>0, <2>2, HeartbeatQuiet
  <2>3. ASSUME NEW t \in Task, Drop(w, t) \/ FinishDone(w, t) PROVE ~Waits(u)'
    BY <1>1, <1>3, <2>3 DEF Drop, FinishDone, Raise
  <2>4. ASSUME NEW t \in Task, LockedOut(w, t) PROVE ~Waits(u)'
    <3>1. Holds(w, t) /\ pc[w] \notin Busy
      BY <2>4 DEF LockedOut, Holds, Busy
    <3>2. u # t
      BY <3>1 DEF Settled
    <3> QED BY <1>1, <1>2, <2>4, <3>2 DEF LockedOut, Raise
  <2>5. ASSUME NEW t \in Task, FinishFailed(w, t) PROVE ~Waits(u)'
    <3>1. PICK to \in {ERROR, SCHEDULED} :
            \/ /\ MoveTask(wq[w], t, ACTIVE, to)
               /\ spent' = IF to = SCHEDULED THEN spent \ {t} ELSE spent
            \/ Raise(w, wq[w], t, ACTIVE)
      BY <2>5 DEF FinishFailed
    <3>2. CASE Raise(w, wq[w], t, ACTIVE)
      BY <1>1, <3>2 DEF Raise
    <3>3. CASE ~Raise(w, wq[w], t, ACTIVE)
      <4>1. t # u \/ to = ERROR
        BY <3>1, <3>3
      <4> QED BY <1>2, <3>1, <3>3, <4>1
    <3> QED BY <3>2, <3>3
  <2>6. ASSUME NEW t \in Task, CountExecutions(w, t) PROVE ~Waits(u)'
    BY <1>0, <1>1, <2>6 DEF CountExecutions
  <2>7. CASE \/ Load(w) \/ BeginGroup(w) \/ (\E t \in Task : AcquireLock(w, t)) \/ Execute(w)
             \/ Succeed(w) \/ Fail(w) \/ EndGroup(w) \/ EndBatch(w)
    BY <1>0, <2>7
       DEF Load, BeginGroup, AcquireLock, Execute, Succeed, Fail, EndGroup, EndBatch
  <2> QED BY <1>5, <2>1, <2>2, <2>3, <2>4, <2>5, <2>6, <2>7 DEF Process
<1>6. ASSUME NEW w \in Worker, Maintain(w) PROVE ~Waits(u)'
  <2> cur[w][1] \in Queue /\ cur[w][2] \in Task
    BY EntryTypes
  <2>1. ASSUME NEW q \in Queue, Schedule(w, q) PROVE ~Waits(u)'
    <3>1. PICK M \in SUBSET zset[SCHEDULED][q] : PopToQueued(q, M)
      BY <2>1 DEF Schedule
    <3>2. u \notin M
      BY DEF Settled, Waits, In
    <3> QED BY <3>1, <3>2, QueueIn DEF Settled, Waits
  <2>2. CASE ExpireMove(w)
    <3>1. u \notin Idempotent
      BY DEF Settled
    <3> QED BY <1>0, <1>2, <2>2, <3>1 DEF ExpireMove, Goto
  <2>3. CASE ExpireDrop(w)
    BY <1>1, <1>3, <2>3 DEF ExpireDrop, Raise, Goto
  <2>4. CASE ExpireScan(w) \/ ExpireLoad(w) \/ ExpireCheck(w) \/ ExpireDone(w)
    BY <1>0, <2>4 DEF ExpireScan, ExpireLoad, ExpireCheck, ExpireDone, Goto
  <2> QED BY <1>6, <2>1, <2>2, <2>3, <2>4 DEF Maintain
<1>7. CASE Environment
  BY <1>0, <1>1, <1>7
     DEF Environment, Lapse, GrowStale, LockLapse, ExpireLockLapse, Crash, Restart, ChildEnds
<1>8. CASE UNCHANGED vars
  BY <1>0, <1>8 DEF vars
<1> QED BY <1>4, <1>5, <1>6, <1>7, <1>8 DEF Next

\* Only an execution makes a task spent, and only one that was taken from the queue.
LEMMA SpentSteps ==
  ASSUME [Next]_vars, NEW u \in Task, u \in spent', u \notin spent
  PROVE  \E w \in Worker : Execute(w) /\ job[w][u] = "ready" /\ u \notin Idempotent \cup Unique
<1> USE DEF workerVars, lockVars, ghostVars
<1>1. CASE Client
  BY <1>1 DEF Client, Delay, Retry, Cancel, Delete, Vanish
<1>2. ASSUME NEW w \in Worker, Process(w), ~Execute(w) PROVE FALSE
  <2>1. ASSUME NEW t \in Task, FinishFailed(w, t) PROVE FALSE
    BY <2>1 DEF FinishFailed, Raise, Die
  <2> QED BY <1>2, <2>1 DEF Process, Pop, Load, Drop, BeginGroup, AcquireLock, LockedOut, Heartbeat,
         Succeed, Fail, FinishDone, CountExecutions, EndGroup, EndBatch, Raise, Die
<1>3. ASSUME NEW w \in Worker, Execute(w)
      PROVE  job[w][u] = "ready" /\ u \notin Idempotent \cup Unique
  BY <1>3 DEF Execute, JobsIn
<1>4. ASSUME NEW w \in Worker, Maintain(w) PROVE FALSE
  BY <1>4 DEF Maintain, Schedule, ExpireScan, ExpireLoad, ExpireMove, ExpireCheck, ExpireDrop,
              ExpireDone, Goto, Raise, Die
<1>5. CASE Environment
  BY <1>5 DEF Environment, Lapse, LockLapse, ExpireLockLapse, Crash, Restart, ChildEnds,
         Die
<1>6. CASE UNCHANGED vars
  BY <1>6 DEF vars
<1> QED BY <1>1, <1>2, <1>3, <1>4, <1>5, <1>6 DEF Next

\* Every step keeps the executed tasks settled.
LEMMA SpentNext ==
  ASSUME TypeOK, Ownership, Single, SpentSettled, [Next]_vars
  PROVE  SpentSettled'
<1> USE StateValues
<1> SUFFICES ASSUME NEW u \in spent' PROVE Settled(u)'
  BY DEF SpentSettled
<1>1. u \in Task
  <2>1. TypeOK'
    BY TypeNext
  <2> QED BY <2>1 DEF TypeOK
<1>2. CASE u \in spent
  <2>1. Settled(u)
    BY <1>2 DEF SpentSettled
  <2>2. ~Waits(u)'
    BY <1>1, <2>1, SettledWaits
  <2>3. u \in created'
    BY <2>1, StoreSteps DEF Settled, Delayed, Delay, Vanished, Vanish, ghostVars
  <2>4. ASSUME NEW v \in Worker, Holds(v, u)' PROVE pc'[v] \in Busy
    BY <1>1, <2>1, <2>4, HeldSteps DEF Settled, Waits
  <2> QED BY <2>1, <2>2, <2>3, <2>4 DEF Settled
<1>3. CASE u \notin spent
  <2>1. PICK w \in Worker :
          Execute(w) /\ job[w][u] = "ready" /\ u \notin Idempotent \cup Unique
    BY <1>1, <1>3, SpentSteps
  <2>2. UNCHANGED <<zset, job, created, wq>> /\ pc' = [pc EXCEPT ![w] = "exec"]
    BY <2>1 DEF Execute, storeVars
  <2>3. In(ACTIVE, wq[w], u) /\ wq[w] \in Queue
    BY <1>1, <2>1 DEF Ownership, HeldAreActive, Holds, TypeOK
  <2>4. u \in created /\ ~Waits(u)
    BY <1>1, <2>1, <2>3 DEF Single, Waits
  <2>5. ASSUME NEW v \in Worker, Holds(v, u) PROVE v = w
    <3>1. In(ACTIVE, wq[v], u) /\ wq[v] \in Queue
      BY <1>1, <2>5 DEF Ownership, HeldAreActive, TypeOK
    <3>2. wq[v] = wq[w]
      BY <1>1, <2>1, <2>3, <3>1 DEF Single
    <3> QED BY <1>1, <2>1, <2>5, <3>2 DEF Ownership, HeldOnce, Holds
  <2> QED BY <2>1, <2>2, <2>4, <2>5 DEF Settled, Waits, In, Holds, Busy, TypeOK
<1> QED BY <1>2, <1>3

\* Only Execute leads to an execution, and only an execution to its end.
LEMMA BusySteps ==
  ASSUME TypeOK, [Next]_vars, NEW v \in Worker, pc'[v] \in Busy, pc'[v] # pc[v]
  PROVE  Execute(v) \/ Succeed(v) \/ Fail(v)
<1> USE DEF workerVars, lockVars, ghostVars, Busy
<1> DEFINE Goal == Execute(v) \/ Succeed(v) \/ Fail(v)
<1>1. CASE Client
  BY <1>1 DEF Client, Delay, Retry, Cancel, Delete, Vanish
<1>2. ASSUME NEW w \in Worker, Process(w) PROVE Goal
  <2>1. ASSUME NEW q \in Queue, Pop(w, q) PROVE FALSE
    BY <2>1 DEF Pop, Step, TypeOK
  <2>2. ASSUME NEW t \in Task, FinishFailed(w, t) PROVE FALSE
    BY <2>2 DEF FinishFailed, Raise, Die, Step, TypeOK
  <2>3. CASE Execute(w) \/ Succeed(w) \/ Fail(w)
    <3>1. v # w => pc'[v] = pc[v]
      BY <2>3 DEF Execute, Succeed, Fail, TypeOK
    <3> QED BY <2>3, <3>1
  <2>4. ASSUME NEW t \in Task,
               Drop(w, t) \/ LockedOut(w, t) \/ FinishDone(w, t) \/ CountExecutions(w, t)
        PROVE  FALSE
    BY <2>4 DEF Drop, LockedOut, FinishDone, CountExecutions, Raise, Die, Step, TypeOK
  <2> QED BY <1>2, <2>1, <2>2, <2>3, <2>4
          DEF Process, Load, BeginGroup, AcquireLock, Heartbeat, EndGroup, EndBatch, Step, TypeOK
<1>3. ASSUME NEW w \in Worker, Maintain(w) PROVE FALSE
  BY <1>3 DEF Maintain, Schedule, ExpireScan, ExpireLoad, ExpireMove, ExpireCheck, ExpireDrop,
              ExpireDone, Goto, Raise, Die, TypeOK
<1>4. CASE Environment
  BY <1>4 DEF Environment, Lapse, LockLapse, ExpireLockLapse, Crash, Restart, ChildEnds,
         Die, Gone, TypeOK
<1>5. CASE UNCHANGED vars
  BY <1>5 DEF vars
<1> QED BY <1>1, <1>2, <1>3, <1>4, <1>5 DEF Next

(* Of timely workers: a task that is neither unique nor idempotent is       *)
(* executed again only after its retry method, or a client, asked for it;   *)
(* no crash, expiry, lock-out or requeue executes it a second time.         *)
THEOREM ExecutedOnceUnlessRetried ==
  ASSUME Timely, SafeBatches
  PROVE  Spec => AtMostOnce
<1> DEFINE OnlyFresh == \A w \in Worker : pc[w] # "exec" /\ pc'[w] = "exec"
                          => JobsIn(w, {"ready"}) \cap spent = {}
<1>1. Init => SpentSettled
  BY DEF Init, SpentSettled
<1>2. TypeOK /\ Ownership /\ Single /\ SpentSettled /\ [Next]_vars => SpentSettled'
  BY SpentNext
<1>3. TypeOK /\ SpentSettled /\ [Next]_vars => OnlyFresh
  <2> SUFFICES ASSUME TypeOK, SpentSettled, [Next]_vars, NEW w \in Worker,
                      pc[w] # "exec", pc'[w] = "exec", NEW t \in spent, job[w][t] = "ready"
               PROVE  FALSE
    BY DEF JobsIn
  <2>1. Execute(w)
    BY BusySteps DEF Succeed, Fail, Busy, TypeOK
  <2>2. Holds(w, t) /\ pc[w] \notin Busy
    BY <2>1 DEF Execute, Holds, Busy
  <2> QED BY <2>2 DEF SpentSettled, Settled
<1> QED BY <1>1, <1>2, <1>3, TypeCorrect, TakenOnce, SingleHolds, PTL DEF Spec, AtMostOnce

-----------------------------------------------------------------------------
(* Requests.                                                                *)

(* Clients delay a unique task to one queue only.  KeepObject looks at the  *)
(* sets of one queue: a unique task that a second queue holds loses its     *)
(* object when it leaves the first.                                         *)
OwnHome == \A t \in Unique : \A q, r \in QueuesOf[t] : q = r

Somewhere(q, t) == \E s \in State : In(s, q, t)

\* The object of a task exists exactly while some queue holds the task, unless
\* something else deleted it.
DataKept ==
  \A t \in Task \ vanished : t \in object <=> \E q \in Queue : Somewhere(q, t)

\* What a worker takes for a stub had an object that something else deleted.
NothingMissing ==
  \A w \in Worker :
    /\ pc[w] \in {"expCheck", "expDrop"} => cur[w][2] \in vanished
    /\ \A t \in Task : job[w][t] = "missing" => t \in vanished

\* Objects that something else deleted stay known as such.
LEMMA VanishedGrows ==
  ASSUME TypeOK, Ownership, [Next]_vars
  PROVE  vanished \subseteq vanished'
BY StoreSteps DEF Delayed, Delay, Vanished, Vanish

\* What a stub is.
LEMMA StubVanished ==
  ASSUME NothingMissing, NEW q \in Queue, NEW t \in Task, Stub(q, t)
  PROVE  t \in vanished
BY DEF NothingMissing, Stub

\* Removing a task keeps DataKept: the object goes with the last place of the task.
LEMMA DataKeptRemoval ==
  ASSUME OwnHome, TypeOK, Ownership, Single, DataKept,
         NEW q \in Queue, NEW t \in Task, NEW from \in State,
         RemoveTask(q, t, from, t \in Unique), UNCHANGED vanished
  PROVE  DataKept'
<1> StoreTypeOK
  BY DEF TypeOK
<1> SUFFICES ASSUME NEW u \in Task \ vanished
             PROVE  u \in object' <=> \E r \in Queue : Somewhere(r, u)'
  BY DEF DataKept
<1>1. \A s \in State, r \in Queue :
        In(s, r, u)' <=> In(s, r, u) /\ ~(s = from /\ r = q /\ u = t)
  BY RemoveIn
<1>2. u \in object <=> \E r \in Queue : Somewhere(r, u)
  BY DEF DataKept
<1>3. object' = KeepObject(q, t, from, t \in Unique) /\ In(from, q, t)
  BY DEF RemoveTask
<1>4. CASE u # t
  BY <1>1, <1>2, <1>3, <1>4 DEF KeepObject, Somewhere
<1>5. CASE u = t /\ t \in Unique
  <2>1. \A s \in State, r \in Queue : In(s, r, t) => r = q
    BY <1>3, <1>5 DEF OwnHome, Ownership, QueuesRespected
  <2>2. (\E r \in Queue : Somewhere(r, t)') <=> HeldOutside({from}, q, t)
    BY <1>1, <1>5, <2>1 DEF Somewhere, HeldOutside
  <2>3. t \in object
    BY <1>2, <1>3, <1>5 DEF Somewhere
  <2> QED BY <1>3, <1>5, <2>2, <2>3 DEF KeepObject
<1>6. CASE u = t /\ t \notin Unique
  <2>1. \A s \in State, r \in Queue : In(s, r, t) => s = from /\ r = q
    BY <1>3, <1>6 DEF Single
  <2>2. ~\E r \in Queue : Somewhere(r, t)'
    BY <1>1, <1>6, <2>1 DEF Somewhere
  <2> QED BY <1>3, <1>6, <2>2 DEF KeepObject
<1> QED BY <1>4, <1>5, <1>6

\* No script but a removal takes a task out of a queue.
LEMMA SomewhereStays ==
  ASSUME TypeOK, NEW q \in Queue, NEW t \in Task, Somewhere(q, t),
         Delayed \/ Vanished \/ Moved \/ Popped \/ Queued \/ Untouched
  PROVE  Somewhere(q, t)'
<1> USE StateValues
<1> StoreTypeOK
  BY DEF TypeOK
<1>1. CASE UNCHANGED zset
  BY <1>1 DEF Somewhere, In
<1>2. CASE Delayed
  BY <1>2, AddIn DEF Delayed, Delay, Somewhere
<1>3. CASE Moved
  BY <1>3, MoveIn DEF Moved, Somewhere
<1>4. CASE Popped
  <2>1. PICK r \in Queue : \E M \in SUBSET zset[QUEUED][r] : PopToActive(r, M)
    BY <1>4 DEF Popped
  <2>2. PICK M \in SUBSET zset[QUEUED][r] : PopToActive(r, M)
    BY <2>1
  <2> QED BY <2>2, PopIn DEF Somewhere
<1>5. CASE Queued
  <2>1. PICK r \in Queue : \E M \in SUBSET zset[SCHEDULED][r] : PopToQueued(r, M)
    BY <1>5 DEF Queued
  <2>2. PICK M \in SUBSET zset[SCHEDULED][r] : PopToQueued(r, M)
    BY <2>1
  <2> QED BY <2>2, QueueIn DEF Somewhere
<1> QED BY <1>1, <1>2, <1>3, <1>4, <1>5 DEF Vanished, Vanish, Untouched

\* None but the addition of delay brings a task to a queue that has it nowhere.
LEMMA NowhereStays ==
  ASSUME TypeOK, Ownership, NEW q \in Queue, NEW t \in Task, ~Somewhere(q, t),
         Vanished \/ Moved \/ Removed \/ StubRemoved \/ Popped \/ Queued \/ Untouched
  PROVE  ~Somewhere(q, t)'
<1> USE StateValues
<1> StoreTypeOK
  BY DEF TypeOK
<1>1. CASE UNCHANGED zset
  BY <1>1 DEF Somewhere, In
<1>2. CASE Removed \/ StubRemoved
  BY <1>2, RemovedEffect, RemoveIn DEF StubRemoved, Somewhere
<1>3. CASE Moved
  <2>1. PICK r \in Queue, u \in Task, from \in {ACTIVE, ERROR}, to \in State \ {ACTIVE} :
          from # to /\ MoveTask(r, u, from, to)
    BY <1>3 DEF Moved
  <2>2. ~(r = q /\ u = t)
    BY <2>1 DEF MoveTask, Somewhere
  <2> QED BY <2>1, <2>2, MoveIn DEF Somewhere
<1>4. CASE Popped
  <2>1. PICK r \in Queue : \E M \in SUBSET zset[QUEUED][r] : PopToActive(r, M)
    BY <1>4 DEF Popped
  <2>2. PICK M \in SUBSET zset[QUEUED][r] : PopToActive(r, M)
    BY <2>1
  <2>3. ~(r = q /\ t \in M)
    BY DEF Somewhere, In
  <2> QED BY <2>2, <2>3, PopIn DEF Somewhere
<1>5. CASE Queued
  <2>1. PICK r \in Queue : \E M \in SUBSET zset[SCHEDULED][r] : PopToQueued(r, M)
    BY <1>5 DEF Queued
  <2>2. PICK M \in SUBSET zset[SCHEDULED][r] : PopToQueued(r, M)
    BY <2>1
  <2>3. ~(r = q /\ t \in M)
    BY DEF Somewhere, In
  <2> QED BY <2>2, <2>3, QueueIn DEF Somewhere
<1> QED BY <1>1, <1>2, <1>3, <1>4, <1>5 DEF Vanished, Vanish, Untouched

\* Every step keeps the data of the tasks.
LEMMA DataKeptNext ==
  ASSUME OwnHome, TypeOK, Ownership, Single, DataKept, NothingMissing, [Next]_vars
  PROVE  DataKept'
<1> USE StateValues
<1> StoreTypeOK
  BY DEF TypeOK
<1>1. CASE Removed
  BY <1>1, RemovedEffect, DataKeptRemoval
<1>2. CASE ~Removed
  <2> SUFFICES ASSUME NEW u \in Task \ vanished'
               PROVE  u \in object' <=> \E r \in Queue : Somewhere(r, u)'
    BY DEF DataKept
  <2>0. u \notin vanished /\ (u \in object <=> \E r \in Queue : Somewhere(r, u))
    BY VanishedGrows DEF DataKept
  <2>1. CASE Delayed
    <3>1. PICK t \in Task, q \in Queue, s \in {QUEUED, SCHEDULED} : AddTask(q, t, s)
      BY <2>1 DEF Delayed, Delay
    <3>2. object' = object \cup {t}
      BY <3>1 DEF AddTask
    <3>3. \A r \in Queue : Somewhere(r, u)' <=> Somewhere(r, u) \/ (r = q /\ u = t)
      BY <3>1, AddIn DEF Somewhere
    <3> QED BY <2>0, <3>2, <3>3
  <2>2. CASE StubRemoved
    <3>1. PICK q \in Queue, t \in Task : Stub(q, t) /\ RemoveTask(q, t, ACTIVE, FALSE)
      BY <2>2 DEF StubRemoved
    <3>2. u # t
      BY <2>0, <3>1, StubVanished
    <3>3. u \in object' <=> u \in object
      BY <3>1, <3>2 DEF RemoveTask, KeepObject
    <3>4. \A r \in Queue : Somewhere(r, u)' <=> Somewhere(r, u)
      <4>1. zset' = [zset EXCEPT ![ACTIVE][q] = @ \ {t}]
        BY <3>1 DEF RemoveTask
      <4>2. \A x \in State, r \in Queue : In(x, r, u)' <=> In(x, r, u)
        BY <3>2, <4>1 DEF In, StoreTypeOK
      <4> QED BY <4>2 DEF Somewhere
    <3> QED BY <2>0, <3>3, <3>4
  <2>3. CASE Vanished \/ Moved \/ Popped \/ Queued \/ Untouched
    <3>1. \A r \in Queue : Somewhere(r, u)' <=> Somewhere(r, u)
      BY <2>3, SomewhereStays, NowhereStays
    <3>2. u \in object' <=> u \in object
      <4>1. CASE Vanished
        BY <4>1 DEF Vanished, Vanish
      <4>2. CASE Moved
        BY <4>2 DEF Moved, MoveTask
      <4>3. CASE Popped
        BY <4>3 DEF Popped, PopToActive
      <4>4. CASE Queued
        BY <4>4 DEF Queued, PopToQueued
      <4>5. CASE Untouched
        BY <4>5 DEF Untouched
      <4> QED BY <2>3, <4>1, <4>2, <4>3, <4>4, <4>5
    <3> QED BY <2>0, <3>1, <3>2
  <2> QED BY <1>2, <2>1, <2>2, <2>3, StoreSteps
<1> QED BY <1>1, <1>2

\* Only mget finds an object missing.
LEMMA MissingSteps ==
  ASSUME TypeOK, [Next]_vars, NEW v \in Worker, NEW t \in Task, job'[v][t] = "missing"
  PROVE  job[v][t] = "missing" \/ Load(v)
<1> USE DEF workerVars, lockVars, ghostVars
<1>0. ASSUME NEW w \in Worker, NEW p, Die(w, p) PROVE job[v][t] = "missing"
  BY <1>0 DEF Die, NoJobs, TypeOK
<1>1. ASSUME NEW w \in Worker, NEW p, NEW S, NEW j, Step(w, p, S, j), j # "missing"
      PROVE  job[v][t] = "missing"
  BY <1>1 DEF Step, TypeOK
<1>2. CASE Client
  BY <1>2 DEF Client, Delay, Retry, Cancel, Delete, Vanish
<1>3. ASSUME NEW w \in Worker, Process(w) PROVE job[v][t] = "missing" \/ Load(v)
  <2>1. CASE Load(w)
    BY <2>1 DEF Load, TypeOK
  <2>2. ASSUME NEW q \in Queue, Pop(w, q) PROVE job[v][t] = "missing"
    BY <1>1, <2>2 DEF Pop
  <2>3. CASE BeginGroup(w)
    BY <1>1, <2>3 DEF BeginGroup
  <2>4. ASSUME NEW u \in Task, Drop(w, u) \/ AcquireLock(w, u) \/ LockedOut(w, u)
        PROVE  job[v][t] = "missing"
    BY <1>0, <1>1, <2>4 DEF Drop, AcquireLock, LockedOut, Raise
  <2>5. ASSUME NEW u \in Task, FinishDone(w, u) \/ FinishFailed(w, u)
        PROVE  job[v][t] = "missing"
    BY <1>0, <1>1, <2>5 DEF FinishDone, FinishFailed, Raise
  <2>6. ASSUME NEW u \in Task, CountExecutions(w, u) PROVE job[v][t] = "missing"
    BY <1>0, <1>1, <2>6 DEF CountExecutions
  <2>7. CASE Execute(w) \/ Heartbeat(w) \/ Succeed(w) \/ Fail(w) \/ EndGroup(w) \/ EndBatch(w)
    BY <2>7 DEF Execute, Heartbeat, Succeed, Fail, EndGroup, EndBatch
  <2> QED BY <1>3, <2>1, <2>2, <2>3, <2>4, <2>5, <2>6, <2>7 DEF Process
<1>4. ASSUME NEW w \in Worker, Maintain(w) PROVE job[v][t] = "missing"
  BY <1>0, <1>4 DEF Maintain, Schedule, ExpireScan, ExpireLoad, ExpireMove, ExpireCheck,
                    ExpireDrop, ExpireDone, Goto, Raise
<1>5. CASE Environment
  BY <1>0, <1>5 DEF Environment, Lapse, LockLapse, ExpireLockLapse, Crash, Restart, ChildEnds
<1>6. CASE UNCHANGED vars
  BY <1>6 DEF vars
<1> QED BY <1>2, <1>3, <1>4, <1>5, <1>6 DEF Next

\* An expirer doubts a task only when it cannot load or move it.
LEMMA DoubtSteps ==
  ASSUME TypeOK, [Next]_vars, NEW v \in Worker, pc'[v] \in {"expCheck", "expDrop"}
  PROVE  \/ pc[v] \in {"expCheck", "expDrop"} /\ cur'[v] = cur[v]
         \/ ExpireLoad(v) \/ ExpireMove(v)
<1> USE DEF workerVars, lockVars, ghostVars
<1> DEFINE Doubts == pc[v] \in {"expCheck", "expDrop"} /\ cur'[v] = cur[v]
<1>1. CASE Client
  BY <1>1 DEF Client, Delay, Retry, Cancel, Delete, Vanish
<1>2. ASSUME NEW w \in Worker, Process(w) PROVE Doubts
  <2>1. ASSUME NEW q \in Queue, Pop(w, q) PROVE Doubts
    BY <2>1 DEF Pop, Step, TypeOK
  <2>2. ASSUME NEW t \in Task, FinishFailed(w, t) PROVE Doubts
    BY <2>2 DEF FinishFailed, Raise, Die, Step, TypeOK
  <2>3. ASSUME NEW t \in Task,
               Drop(w, t) \/ LockedOut(w, t) \/ FinishDone(w, t) \/ CountExecutions(w, t)
        PROVE  Doubts
    BY <2>3 DEF Drop, LockedOut, FinishDone, CountExecutions, Raise, Die, Step, TypeOK
  <2>4. CASE Execute(w) \/ Heartbeat(w) \/ Succeed(w) \/ Fail(w)
    BY <2>4 DEF Execute, Heartbeat, Succeed, Fail, TypeOK
  <2> QED BY <1>2, <2>1, <2>2, <2>3, <2>4
          DEF Process, Load, BeginGroup, AcquireLock, EndGroup, EndBatch, Step, TypeOK
<1>3. ASSUME NEW w \in Worker, Maintain(w) PROVE Doubts \/ ExpireLoad(v) \/ ExpireMove(v)
  <2>1. CASE ExpireLoad(w) \/ ExpireMove(w)
    <3>1. v # w => pc'[v] = pc[v] /\ cur'[v] = cur[v]
      BY <2>1 DEF ExpireLoad, ExpireMove, Goto, TypeOK
    <3> QED BY <2>1, <3>1
  <2>2. CASE ~(ExpireLoad(w) \/ ExpireMove(w))
    BY <1>3, <2>2 DEF Maintain, Schedule, ExpireScan, ExpireCheck, ExpireDrop, ExpireDone, Goto,
                      Raise, Die, TypeOK
  <2> QED BY <2>1, <2>2
<1>4. CASE Environment
  BY <1>4 DEF Environment, Lapse, LockLapse, ExpireLockLapse, Crash, Restart, ChildEnds,
         Die, Gone, TypeOK
<1>5. CASE UNCHANGED vars
  BY <1>5 DEF vars
<1> QED BY <1>1, <1>2, <1>3, <1>4, <1>5 DEF Next

\* Every step keeps to it that only tasks without an object are taken for stubs.
LEMMA NothingMissingNext ==
  ASSUME TypeOK, Ownership, DataKept, NothingMissing, [Next]_vars
  PROVE  NothingMissing'
<1> USE StateValues
<1>1. \A q \in Queue, t \in Task : In(ACTIVE, q, t) /\ t \notin object => t \in vanished
  BY DEF DataKept, Somewhere
<1>2. ASSUME NEW v \in Worker, NEW t \in Task, job'[v][t] = "missing"
      PROVE  t \in vanished'
  <2>1. CASE job[v][t] = "missing"
    BY <2>1, VanishedGrows DEF NothingMissing
  <2>2. CASE Load(v)
    <3>1. job[v][t] = "missing" \/ (job[v][t] = "popped" /\ t \notin object)
      BY <1>2, <2>2 DEF Load, TypeOK
    <3>2. CASE job[v][t] = "popped" /\ t \notin object
      <4>1. In(ACTIVE, wq[v], t) /\ wq[v] \in Queue
        BY <3>2 DEF Ownership, HeldAreActive, Holds, TypeOK
      <4> QED BY <1>1, <3>2, <4>1, VanishedGrows
    <3> QED BY <2>1, <3>1, <3>2
  <2> QED BY <1>2, <2>1, <2>2, MissingSteps
<1>3. ASSUME NEW v \in Worker, pc'[v] \in {"expCheck", "expDrop"}
      PROVE  cur'[v][2] \in vanished'
  <2>1. CASE pc[v] \in {"expCheck", "expDrop"} /\ cur'[v] = cur[v]
    BY <2>1, VanishedGrows DEF NothingMissing
  <2>2. CASE ExpireLoad(v)
    <3>1. PICK e \in expired[v] :
            /\ cur'[v] = e
            /\ pc'[v] = IF e[2] \in object /\ In(ACTIVE, e[1], e[2]) THEN "expMove" ELSE "expCheck"
      BY <2>2 DEF ExpireLoad, TypeOK
    <3>2. e[1] \in Queue /\ e[2] \in Task /\ In(ACTIVE, e[1], e[2])
      BY EntryTypes DEF Ownership, ExpiredAreStale, StaleAreActive, In
    <3>3. e[2] \notin object
      BY <1>3, <3>1, <3>2
    <3> QED BY <1>1, <3>1, <3>2, <3>3, VanishedGrows
  <2>3. CASE ExpireMove(v)
    <3>1. In(ACTIVE, cur[v][1], cur[v][2])
      BY <2>3, EntryTypes
         DEF ExpireMove, Ownership, ExpiredAreStale, StaleAreActive, In, Expiring
    <3>2. pc' = [pc EXCEPT ![v] = "expire"]
      BY <2>3, <3>1 DEF ExpireMove, Goto
    <3> QED BY <1>3, <3>2 DEF TypeOK
  <2> QED BY <1>3, <2>1, <2>2, <2>3, DoubtSteps
<1> QED BY <1>2, <1>3 DEF NothingMissing

-----------------------------------------------------------------------------
(* A request keeps its task in the queue, and one that came during an       *)
(* execution keeps it where it will be executed again.                      *)

OwedHeld ==
  \A q \in Queue, t \in Task \ vanished : <<q, t>> \in owed => Somewhere(q, t)

WaitsIn(q, t) == In(QUEUED, q, t) \/ In(SCHEDULED, q, t)

UncoveredWaits ==
  \A w \in Worker, t \in Task \ vanished :
    pc[w] \in Busy /\ Holds(w, t) /\ t \notin covered[w] /\ <<wq[w], t>> \in owed
    => WaitsIn(wq[w], t)

\* Clients make requests, and their tasks wait then.
LEMMA AskSteps ==
  ASSUME TypeOK, [Next]_vars, NEW e \in owed', e \notin owed
  PROVE  \E q \in Queue, t \in Task :
           e = <<q, t>> /\ (Retry(q, t) \/ \E s \in {QUEUED, SCHEDULED} : Delay(q, t, s))
<1> USE DEF workerVars, lockVars, ghostVars
<1>1. CASE Client
  BY <1>1 DEF Client, Delay, Retry, Cancel, Delete, Vanish
<1>2. ASSUME NEW w \in Worker, Process(w) PROVE FALSE
  <2>1. ASSUME NEW t \in Task, FinishFailed(w, t) PROVE FALSE
    BY <2>1 DEF FinishFailed, Raise, Die
  <2> QED BY <1>2, <2>1 DEF Process, Pop, Load, Drop, BeginGroup, AcquireLock, LockedOut, Execute,
         Heartbeat, Succeed, Fail, FinishDone, Settle, CountExecutions, EndGroup, EndBatch, Raise, Die
<1>3. ASSUME NEW w \in Worker, Maintain(w) PROVE FALSE
  BY <1>3 DEF Maintain, Schedule, ExpireScan, ExpireLoad, ExpireMove, ExpireCheck, ExpireDrop,
              ExpireDone, Goto, Raise, Die
<1>4. CASE Environment
  BY <1>4 DEF Environment, Lapse, LockLapse, ExpireLockLapse, Crash, Restart, ChildEnds,
         Die
<1>5. CASE UNCHANGED vars
  BY <1>5 DEF vars
<1> QED BY <1>1, <1>2, <1>3, <1>4, <1>5 DEF Next

\* The task of a request that was just made waits.
LEMMA AskedWaits ==
  ASSUME TypeOK, NEW q \in Queue, NEW t \in Task,
         Retry(q, t) \/ \E s \in {QUEUED, SCHEDULED} : Delay(q, t, s)
  PROVE  WaitsIn(q, t)'
<1> USE StateValues
<1> StoreTypeOK
  BY DEF TypeOK
<1>1. CASE Retry(q, t)
  BY <1>1, MoveIn DEF Retry, WaitsIn
<1>2. ASSUME NEW s \in {QUEUED, SCHEDULED}, Delay(q, t, s) PROVE WaitsIn(q, t)'
  BY <1>2, AddIn DEF Delay, WaitsIn
<1> QED BY <1>1, <1>2

\* A task that waits while it is active goes on waiting, unless a client cancels it.
LEMMA WaitsInStays ==
  ASSUME TypeOK, Ownership, [Next]_vars, NEW q \in Queue, NEW t \in Task,
         WaitsIn(q, t), In(ACTIVE, q, t)
  PROVE  WaitsIn(q, t)' \/ (Cancel(q, t) /\ ~In(QUEUED, q, t))
<1> USE StateValues
<1> StoreTypeOK
  BY DEF TypeOK
<1>1. CASE UNCHANGED zset
  BY <1>1 DEF WaitsIn, In
<1>2. CASE Delayed
  BY <1>2, AddIn DEF Delayed, Delay, WaitsIn
<1>3. CASE Moved
  BY <1>3, MoveIn DEF Moved, WaitsIn
<1>4. CASE Popped
  <2>1. PICK r \in Queue : \E M \in SUBSET zset[QUEUED][r] : PopToActive(r, M)
    BY <1>4 DEF Popped
  <2>2. PICK M \in SUBSET zset[QUEUED][r] : PopToActive(r, M)
    BY <2>1
  <2> QED BY <2>2, PopIn DEF WaitsIn
<1>5. CASE Queued
  <2>1. PICK r \in Queue : \E M \in SUBSET zset[SCHEDULED][r] : PopToQueued(r, M)
    BY <1>5 DEF Queued
  <2>2. PICK M \in SUBSET zset[SCHEDULED][r] : PopToQueued(r, M)
    BY <2>1
  <2> QED BY <2>2, QueueIn DEF WaitsIn
<1>6. ASSUME NEW r \in Queue, NEW u \in Task, RemoveTask(r, u, ACTIVE, u \in Unique)
      PROVE  WaitsIn(q, t)'
  BY <1>6, RemoveIn DEF WaitsIn
<1>7. CASE StubRemoved
  <2>1. PICK r \in Queue, u \in Task : RemoveTask(r, u, ACTIVE, FALSE)
    BY <1>7 DEF StubRemoved
  <2>2. zset' = [zset EXCEPT ![ACTIVE][r] = @ \ {u}]
    BY <2>1 DEF RemoveTask
  <2> QED BY <2>2 DEF StoreTypeOK, WaitsIn, In
<1>8. CASE Removed
  <2>1. ASSUME NEW u \in Task, NEW r \in Queue, Cancel(r, u)
        PROVE  WaitsIn(q, t)' \/ (Cancel(q, t) /\ ~In(QUEUED, q, t))
    <3>1. RemoveTask(r, u, SCHEDULED, u \in Unique)
      BY <2>1 DEF Cancel
    <3> QED BY <2>1, <3>1, RemoveIn DEF WaitsIn
  <2>2. ASSUME NEW u \in Task, NEW r \in Queue, Delete(r, u) PROVE WaitsIn(q, t)'
    <3>1. RemoveTask(r, u, ERROR, u \in Unique)
      BY <2>2 DEF Delete
    <3> QED BY <3>1, RemoveIn DEF WaitsIn
  <2>3. ASSUME NEW w \in Worker, NEW u \in Task, FinishDone(w, u) PROVE WaitsIn(q, t)'
    BY <1>6, <2>3, NeverRaised DEF TypeOK
  <2> QED BY <1>8, <2>1, <2>2, <2>3 DEF Removed
<1> QED BY <1>1, <1>2, <1>3, <1>4, <1>5, <1>7, <1>8, StoreSteps DEF Vanished, Vanish, Untouched

\* Removing a task takes no other task out of a queue, and itself only if the queue
\* has it nowhere else.
LEMMA SomewhereElse ==
  ASSUME TypeOK, NEW q \in Queue, NEW t \in Task, Somewhere(q, t),
         NEW r \in Queue, NEW u \in Task, NEW from \in State,
         RemoveTask(r, u, from, u \in Unique),
         r # q \/ u # t \/ HeldOutside({from}, q, t)
  PROVE  Somewhere(q, t)'
<1>1. \A s \in State : In(s, q, t)' <=> In(s, q, t) /\ ~(s = from /\ q = r /\ t = u)
  BY RemoveIn DEF TypeOK
<1> QED BY <1>1 DEF Somewhere, HeldOutside

\* Every step leaves a requested task somewhere in the queue.
LEMMA OwedHeldNext ==
  ASSUME TypeOK, Ownership, NothingMissing, OwedHeld, UncoveredWaits, [Next]_vars
  PROVE  OwedHeld'
<1> USE StateValues
<1> StoreTypeOK
  BY DEF TypeOK
<1> SUFFICES ASSUME NEW q \in Queue, NEW t \in Task \ vanished', <<q, t>> \in owed'
             PROVE  Somewhere(q, t)'
  BY DEF OwedHeld
<1>1. t \in Task /\ t \notin vanished
  BY VanishedGrows
<1>2. CASE <<q, t>> \notin owed
  <2>1. Retry(q, t) \/ \E s \in {QUEUED, SCHEDULED} : Delay(q, t, s)
    BY <1>2, AskSteps
  <2> QED BY <1>1, <2>1, AskedWaits DEF WaitsIn, Somewhere
<1>3. CASE <<q, t>> \in owed
  <2>1. Somewhere(q, t)
    BY <1>1, <1>3 DEF OwedHeld
  <2>2. CASE Delayed \/ Vanished \/ Moved \/ Popped \/ Queued \/ Untouched
    BY <1>1, <2>1, <2>2, SomewhereStays
  <2>3. CASE StubRemoved
    <3>1. PICK r \in Queue, u \in Task : Stub(r, u) /\ RemoveTask(r, u, ACTIVE, FALSE)
      BY <2>3 DEF StubRemoved
    <3>2. u # t
      BY <1>1, <3>1, StubVanished
    <3>3. zset' = [zset EXCEPT ![ACTIVE][r] = @ \ {u}]
      BY <3>1 DEF RemoveTask
    <3> QED BY <2>1, <3>2, <3>3 DEF Somewhere, In, StoreTypeOK
  <2>4. ASSUME NEW u \in Task, NEW r \in Queue, Cancel(r, u) PROVE Somewhere(q, t)'
    <3>1. /\ RemoveTask(r, u, SCHEDULED, u \in Unique)
          /\ r # q \/ u # t \/ HeldOutside({SCHEDULED}, q, t)
      BY <2>4 DEF Cancel
    <3> QED BY <1>1, <2>1, <3>1, SomewhereElse
  <2>5. ASSUME NEW u \in Task, NEW r \in Queue, Delete(r, u) PROVE Somewhere(q, t)'
    <3>1. /\ RemoveTask(r, u, ERROR, u \in Unique)
          /\ r # q \/ u # t \/ HeldOutside({ERROR}, q, t)
      BY <2>5 DEF Delete
    <3> QED BY <1>1, <2>1, <3>1, SomewhereElse
  <2>6. ASSUME NEW w \in Worker, NEW u \in Task, FinishDone(w, u) PROVE Somewhere(q, t)'
    <3>1. RemoveTask(wq[w], u, ACTIVE, u \in Unique) /\ Settle(w, u) /\ wq[w] \in Queue
      BY <2>6, NeverRaised DEF TypeOK
    <3>2. ASSUME wq[w] = q, u = t PROVE HeldOutside({ACTIVE}, q, t)
      <4>1. t \notin covered[w]
        BY <3>1, <3>2 DEF Settle
      <4>2. pc[w] \in Busy /\ Holds(w, t)
        BY <2>6, <3>2 DEF FinishDone, Busy, Holds
      <4>3. WaitsIn(q, t)
        BY <1>1, <1>3, <3>2, <4>1, <4>2 DEF UncoveredWaits
      <4> QED BY <4>3 DEF WaitsIn, HeldOutside
    <3> QED BY <1>1, <2>1, <3>1, <3>2, SomewhereElse
  <2> QED BY <2>2, <2>3, <2>4, <2>5, <2>6, StoreSteps DEF Removed
<1> QED BY <1>2, <1>3

\* A worker's execution ceases to cover a task it holds only by a new request.
LEMMA CoveredSteps ==
  ASSUME TypeOK, Ownership, [Next]_vars, NEW v \in Worker, NEW t \in Task,
         pc[v] \in Busy, Holds(v, t)', t \in covered[v], t \notin covered'[v]
  PROVE  Retry(wq[v], t) \/ \E s \in {QUEUED, SCHEDULED} : Delay(wq[v], t, s)
<1> USE DEF workerVars, lockVars, ghostVars
<1>0. pc'[v] \in Busy
  BY HeldSteps DEF Busy
<1>1. ASSUME NEW w \in Worker, NEW p, Die(w, p) PROVE FALSE
  <2>1. v # w
    BY <1>1 DEF Die, Holds, NoJobs, TypeOK
  <2> QED BY <1>1, <2>1 DEF Die, TypeOK
<1>2. CASE Client
  <2>1. ASSUME NEW u \in Task, NEW q \in Queue, Cancel(q, u) \/ Delete(q, u) PROVE FALSE
    BY <2>1 DEF Cancel, Delete, TypeOK
  <2>2. ASSUME NEW u \in Task, NEW q \in Queue, Uncover(q, u) PROVE q = wq[v] /\ u = t
    BY <2>2 DEF Uncover, TypeOK
  <2> QED BY <1>2, <2>1, <2>2 DEF Client, Delay, Retry, Vanish
<1>3. ASSUME NEW w \in Worker, Process(w) PROVE FALSE
  <2>1. CASE EndGroup(w)
    BY <1>0, <2>1 DEF EndGroup, TypeOK, Busy
  <2>2. CASE Execute(w)
    BY <2>2 DEF Execute, TypeOK, Busy
  <2>3. ASSUME NEW u \in Task, FinishFailed(w, u) PROVE FALSE
    BY <1>1, <2>3 DEF FinishFailed, Raise
  <2> QED BY <1>1, <1>3, <2>1, <2>2, <2>3 DEF Process, Pop, Load, Drop, BeginGroup, AcquireLock,
         LockedOut, Heartbeat, Succeed, Fail, FinishDone, CountExecutions, EndBatch, Raise
<1>4. ASSUME NEW w \in Worker, Maintain(w) PROVE FALSE
  BY <1>1, <1>4 DEF Maintain, Schedule, ExpireScan, ExpireLoad, ExpireMove, ExpireCheck, ExpireDrop,
              ExpireDone, Goto, Raise
<1>5. CASE Environment
  BY <1>1, <1>5 DEF Environment, Lapse, LockLapse, ExpireLockLapse, Crash, Restart, ChildEnds
<1>6. CASE UNCHANGED vars
  BY <1>6 DEF vars
<1> QED BY <1>2, <1>3, <1>4, <1>5, <1>6 DEF Next

\* Every step leaves a task that was requested during its execution waiting.
LEMMA UncoveredNext ==
  ASSUME TypeOK, Ownership, UncoveredWaits, [Next]_vars
  PROVE  UncoveredWaits'
<1> SUFFICES ASSUME NEW v \in Worker, NEW t \in Task \ vanished', pc'[v] \in Busy, Holds(v, t)',
                    t \notin covered'[v], <<wq'[v], t>> \in owed'
             PROVE  WaitsIn(wq[v], t)'
  BY DEF UncoveredWaits
<1>1. t \in Task /\ t \notin vanished
  BY VanishedGrows
<1>2. Holds(v, t)
  BY <1>1, HeldSteps DEF Busy
<1>3. PICK q \in Queue : q = wq[v] /\ q = wq'[v]
  BY <1>1, HeldSteps DEF Busy, TypeOK
<1>4. WaitsIn(q, t)' => WaitsIn(wq[v], t)'
  BY <1>3
<1>5. ASSUME Retry(q, t) \/ \E s \in {QUEUED, SCHEDULED} : Delay(q, t, s)
      PROVE  WaitsIn(wq[v], t)'
  BY <1>1, <1>4, <1>5, AskedWaits
<1>6. CASE pc[v] \notin Busy
  <2>1. Execute(v)
    BY <1>6, BusySteps DEF Succeed, Fail, Busy
  <2>2. job[v][t] = "ready"
    <3>1. job[v][t] \in {"none", "locking", "ready"} /\ job[v][t] # "locking"
      BY <1>1, <2>1, JobsAtValues DEF Execute, JobsIn, Ownership, PhasesRespected
    <3> QED BY <1>2, <3>1 DEF Holds
  <2> QED BY <1>1, <2>1, <2>2 DEF Execute, JobsIn, TypeOK
<1>7. CASE pc[v] \in Busy /\ <<q, t>> \notin owed
  BY <1>3, <1>5, <1>7, AskSteps
<1>8. CASE pc[v] \in Busy /\ t \in covered[v]
  BY <1>1, <1>3, <1>5, <1>8, CoveredSteps
<1>9. CASE pc[v] \in Busy /\ <<q, t>> \in owed /\ t \notin covered[v]
  <2>1. WaitsIn(q, t) /\ In(ACTIVE, q, t)
    BY <1>1, <1>2, <1>3, <1>9 DEF UncoveredWaits, Ownership, HeldAreActive
  <2>2. ~(Cancel(q, t) /\ ~In(QUEUED, q, t))
    <3> SUFFICES ASSUME Cancel(q, t), ~In(QUEUED, q, t) PROVE t \in covered'[v]
      OBVIOUS
    <3>1. job[v][t] \in InGroup
      <4>1. job[v][t] \in {"none", "ready", "retrying", "quiet"}
        BY <1>1, <1>9, JobsAtValues DEF Ownership, PhasesRespected, Busy
      <4> QED BY <1>2, <4>1 DEF Holds, InGroup
    <3> QED BY <1>3, <3>1 DEF Cancel
  <2> QED BY <1>1, <1>4, <2>1, <2>2, WaitsInStays
<1> QED BY <1>6, <1>7, <1>8, <1>9

\* The inductive invariant behind NoLostTask.
Requests == Single /\ DataKept /\ NothingMissing /\ OwedHeld /\ UncoveredWaits

\* Nothing is asked for at the start.
LEMMA RequestsInit == Init => Requests
BY SingleInit DEF Init, StoreInit, NoJobs, Requests, DataKept, NothingMissing, OwedHeld,
                  UncoveredWaits, Somewhere, In, Busy

\* The invariant of all that is asked for, of timely workers.
LEMMA RequestsHold ==
  ASSUME Timely, SafeBatches, OwnHome
  PROVE  Spec => []Requests
<1>1. TypeOK /\ Ownership /\ Requests /\ [Next]_vars => Requests'
  BY SingleNext, DataKeptNext, NothingMissingNext, OwedHeldNext, UncoveredNext DEF Requests
<1> QED BY <1>1, RequestsInit, TypeCorrect, TakenOnce, PTL DEF Spec

(* No request is lost: until a request is served or given up, its task has  *)
(* its object and is in a set of its queue that the index lists, through    *)
(* crashes, expiries, lock-outs, duplicates of unique tasks that clients    *)
(* delay, cancel, retry or delete while they execute.                       *)
THEOREM NothingLost ==
  ASSUME Timely, SafeBatches, OwnHome
  PROVE  Spec => []NoLostTask
<1>1. TypeOK /\ IndexExact /\ Requests => NoLostTask
  <2> SUFFICES ASSUME TypeOK, IndexExact, Requests,
                      NEW q \in Queue, NEW t \in Task, <<q, t>> \in owed, t \notin vanished
               PROVE  Retrievable(q, t)
    BY DEF NoLostTask, TypeOK, Entry
  <2>1. PICK s \in State : In(s, q, t)
    BY DEF Requests, OwedHeld, Somewhere
  <2>2. q \in index[s]
    BY <2>1 DEF IndexExact, In
  <2>3. t \in object
    BY <2>1 DEF Requests, DataKept, Somewhere
  <2> QED BY <2>1, <2>2, <2>3 DEF Retrievable
<1> QED BY <1>1, RequestsHold, IndexesExact, TypeCorrect, PTL

-----------------------------------------------------------------------------
(* When nothing but TaskTiger deletes objects.                              *)

\* Objects vanish only of tasks whose objects may.
LEMMA VanishedBounded == Spec => [](vanished \subseteq Vanishing)
<1> USE DEF workerVars, lockVars, ghostVars
<1>1. Init => vanished \subseteq Vanishing
  BY DEF Init
<1>2. TypeOK /\ vanished \subseteq Vanishing /\ [Next]_vars => (vanished \subseteq Vanishing)'
  <2> SUFFICES ASSUME vanished \subseteq Vanishing, [Next]_vars PROVE vanished' \subseteq Vanishing
    OBVIOUS
  <2>1. CASE Client
    BY <2>1 DEF Client, Delay, Retry, Cancel, Delete, Vanish
  <2>2. ASSUME NEW w \in Worker, Process(w) PROVE UNCHANGED vanished
    <3>1. ASSUME NEW t \in Task, FinishFailed(w, t) PROVE UNCHANGED vanished
      BY <3>1 DEF FinishFailed, Raise, Die
    <3> QED BY <2>2, <3>1 DEF Process, Pop, Load, Drop, BeginGroup, AcquireLock, LockedOut, Execute,
           Heartbeat, Succeed, Fail, FinishDone, CountExecutions, EndGroup, EndBatch, Raise, Die
  <2>3. ASSUME NEW w \in Worker, Maintain(w) PROVE UNCHANGED vanished
    BY <2>3 DEF Maintain, Schedule, ExpireScan, ExpireLoad, ExpireMove, ExpireCheck, ExpireDrop,
                ExpireDone, Goto, Raise, Die
  <2>4. CASE Environment
    BY <2>4 DEF Environment, Lapse, LockLapse, ExpireLockLapse, Crash, Restart, ChildEnds,
         Die
  <2>5. CASE UNCHANGED vars
    BY <2>5 DEF vars
  <2> QED BY <2>1, <2>2, <2>3, <2>4, <2>5 DEF Next
<1> QED BY <1>1, <1>2, TypeCorrect, PTL DEF Spec

(* Then the object of a task exists exactly while some queue holds the      *)
(* task, whichever of the scripts of the task's sets runs last.             *)
THEOREM ObjectsExact ==
  ASSUME Timely, SafeBatches, OwnHome, Vanishing = {}
  PROVE  Spec => []StoreConsistent
<1>1. Requests /\ vanished \subseteq Vanishing => StoreConsistent
  BY DEF Requests, DataKept, Somewhere, StoreConsistent
<1> QED BY <1>1, RequestsHold, VanishedBounded, PTL

\* A worker is ended by a TaskNotFound only over a task whose object vanished.
LEMMA RaiseSteps ==
  ASSUME TypeOK, Ownership, DataKept, [Next]_vars,
         NEW v \in Worker, pc[v] # "raised", pc'[v] = "raised"
  PROVE  vanished # {}
<1> USE DEF workerVars, lockVars, ghostVars
<1> USE StateValues
<1>1. CASE Client
  BY <1>1 DEF Client, Delay, Retry, Cancel, Delete, Vanish
<1>2. ASSUME NEW w \in Worker, Process(w) PROVE vanished # {}
  <2>1. ASSUME NEW q \in Queue, Pop(w, q) PROVE FALSE
    BY <2>1 DEF Pop, Step, TypeOK
  <2>2. ASSUME NEW t \in Task, FinishFailed(w, t) PROVE FALSE
    BY <2>2, NeverRaised DEF FinishFailed, Step, TypeOK
  <2>3. ASSUME NEW t \in Task, LockedOut(w, t) \/ FinishDone(w, t) \/ Drop(w, t) PROVE FALSE
    <3>1. In(ACTIVE, wq[w], t)
      BY <2>3, NeverRaised DEF MoveTask, RemoveTask
    <3> QED BY <2>3, <3>1 DEF LockedOut, FinishDone, Drop, Raise, Step, TypeOK
  <2>4. ASSUME NEW t \in Task, CountExecutions(w, t) PROVE vanished # {}
    <3>1. In(ACTIVE, wq[w], t) /\ wq[w] \in Queue
      BY <2>4 DEF CountExecutions, Ownership, HeldAreActive, Holds, TypeOK
    <3>2. t \notin object
      BY <2>4 DEF CountExecutions, Step, TypeOK
    <3> QED BY <3>1, <3>2 DEF DataKept, Somewhere
  <2> QED BY <1>2, <2>1, <2>2, <2>3, <2>4 DEF Process, Load, BeginGroup, AcquireLock, Execute,
         Heartbeat, Succeed, Fail, EndGroup, EndBatch, Step, TypeOK
<1>3. ASSUME NEW w \in Worker, Maintain(w) PROVE FALSE
  <2>1. CASE ExpireDrop(w)
    <3>1. In(ACTIVE, cur[w][1], cur[w][2])
      BY <2>1, EntryTypes
         DEF ExpireDrop, Ownership, ExpiredAreStale, StaleAreActive, In, Expiring
    <3> QED BY <2>1, <3>1 DEF ExpireDrop, Goto, Raise, TypeOK
  <2> QED BY <1>3, <2>1 DEF Maintain, Schedule, ExpireScan, ExpireLoad, ExpireMove, ExpireCheck,
         ExpireDone, Goto, TypeOK
<1>4. CASE Environment
  BY <1>4 DEF Environment, Lapse, LockLapse, ExpireLockLapse, Crash, Restart, ChildEnds,
         Die, TypeOK
<1>5. CASE UNCHANGED vars
  BY <1>5 DEF vars
<1> QED BY <1>1, <1>2, <1>3, <1>4, <1>5 DEF Next

(* And no worker is ended by a TaskNotFound that nothing catches: not when  *)
(* it finishes, gives back or counts the executions of a task, and not over *)
(* a stub, wherever clients and other workers put the task meanwhile.       *)
THEOREM NoneRaised ==
  ASSUME Timely, SafeBatches, OwnHome, Vanishing = {}
  PROVE  Spec => []NoUnhandledTaskNotFound
<1>1. Init => NoUnhandledTaskNotFound
  BY DEF Init, NoUnhandledTaskNotFound
<1>2. /\ TypeOK /\ Ownership /\ Requests /\ vanished \subseteq Vanishing
      /\ NoUnhandledTaskNotFound /\ [Next]_vars
      => NoUnhandledTaskNotFound'
  BY RaiseSteps DEF Requests, NoUnhandledTaskNotFound
<1> QED BY <1>1, <1>2, RequestsHold, VanishedBounded, TypeCorrect, TakenOnce, PTL DEF Spec

\* Only the removal of a task deletes its stored executions.
LEMMA ExecutionsSteps ==
  ASSUME TypeOK, Ownership, [Next]_vars, NEW t \in executions, t \notin executions'
  PROVE  StubRemoved \/ \E q \in Queue, from \in State : RemoveTask(q, t, from, t \in Unique)
<1> USE DEF workerVars, lockVars, ghostVars, storeVars
<1> USE StateValues
<1> DEFINE Lost == \E q \in Queue, from \in State : RemoveTask(q, t, from, t \in Unique)
<1>1. ASSUME NEW q \in Queue, NEW u \in Task, NEW from \in State, RemoveTask(q, u, from, u \in Unique)
      PROVE  Lost
  BY <1>1 DEF RemoveTask, KeepExecutions
<1>2. CASE Client
  <2>1. ASSUME NEW q \in Queue, NEW u \in Task, Cancel(q, u) \/ Delete(q, u) PROVE Lost
    BY <1>1, <2>1 DEF Cancel, Delete
  <2>2. ASSUME NEW q \in Queue, NEW u \in Task, Retry(q, u) PROVE FALSE
    BY <2>2 DEF Retry, MoveTask
  <2>3. ASSUME NEW q \in Queue, NEW u \in Task, NEW s \in {QUEUED, SCHEDULED}, Delay(q, u, s)
        PROVE  FALSE
    BY <2>3 DEF Delay, AddTask
  <2>4. ASSUME NEW u \in Task, Vanish(u) PROVE FALSE
    BY <2>4 DEF Vanish
  <2> QED BY <1>2, <2>1, <2>2, <2>3, <2>4 DEF Client
<1>3. ASSUME NEW w \in Worker, Process(w) PROVE StubRemoved \/ Lost
  <2> wq[w] \in Queue
    BY DEF TypeOK
  <2>1. ASSUME NEW u \in Task, FinishDone(w, u) PROVE Lost
    BY <1>1, <2>1, NeverRaised
  <2>2. ASSUME NEW u \in Task, Drop(w, u) PROVE StubRemoved
    BY <2>2, NeverRaised DEF Drop, StubRemoved, Stub
  <2>3. ASSUME NEW u \in Task, FinishFailed(w, u) PROVE FALSE
    BY <2>3 DEF FinishFailed, MoveTask, Raise, Die
  <2>4. CASE Heartbeat(w)
    BY <2>4, HeartbeatQuiet
  <2> QED BY <1>3, <2>1, <2>2, <2>3, <2>4 DEF Process, Pop, PopToActive, Load, BeginGroup,
         AcquireLock, LockedOut, MoveTask, Execute, Succeed, Fail, CountExecutions, EndGroup,
         EndBatch, Raise, Die
<1>4. ASSUME NEW w \in Worker, Maintain(w) PROVE StubRemoved \/ Lost
  <2>1. CASE ExpireDrop(w)
    <3>1. cur[w][1] \in Queue /\ cur[w][2] \in Task
      BY EntryTypes
    <3>2. RemoveTask(cur[w][1], cur[w][2], ACTIVE, FALSE) /\ Stub(cur[w][1], cur[w][2])
      BY <2>1 DEF ExpireDrop, Stub, Raise, Die
    <3> QED BY <3>1, <3>2 DEF StubRemoved
  <2> QED BY <1>4, <2>1 DEF Maintain, Schedule, PopToQueued, ExpireScan, ExpireLoad, ExpireMove,
         MoveTask, ExpireCheck, ExpireDone, Goto
<1>5. CASE Environment
  BY <1>5 DEF Environment, Lapse, GrowStale, LockLapse, ExpireLockLapse, Crash, Restart, ChildEnds,
         Die
<1>6. CASE UNCHANGED vars
  BY <1>6 DEF vars
<1> QED BY <1>2, <1>3, <1>4, <1>5, <1>6 DEF Next

(* The stored executions of a task outlive every removal of the task from   *)
(* other sets while it is in the error set.                                 *)
THEOREM FailuresOnRecord ==
  ASSUME Timely, SafeBatches, OwnHome, Vanishing = {}
  PROVE  Spec => HistoryKept
<1> DEFINE Kept == \A t \in executions \ executions' : \A q \in Queue : ~In(ERROR, q, t)'
<1>1. TypeOK /\ Ownership /\ Requests /\ vanished \subseteq Vanishing /\ [Next]_vars => Kept
  <2> SUFFICES ASSUME TypeOK, Ownership, Requests, vanished = {}, [Next]_vars,
                      NEW t \in executions, t \notin executions', NEW r \in Queue, In(ERROR, r, t)'
               PROVE  FALSE
    OBVIOUS
  <2> USE StateValues
  <2>1. t \in Task /\ StoreTypeOK
    BY DEF TypeOK, StoreTypeOK
  <2>2. ~StubRemoved
    BY StubVanished DEF StubRemoved, Requests
  <2>3. PICK q \in Queue, from \in State : RemoveTask(q, t, from, t \in Unique)
    BY <2>2, ExecutionsSteps
  <2>4. In(from, q, t) /\ In(ERROR, r, t) /\ ~(from = ERROR /\ r = q)
    <3>1. In(from, q, t)
      BY <2>3 DEF RemoveTask
    <3>2. In(ERROR, r, t)' <=> In(ERROR, r, t) /\ ~(ERROR = from /\ r = q /\ t = t)
      BY <2>1, <2>3, RemoveIn
    <3> QED BY <3>1, <3>2
  <2>5. CASE t \in Unique
    <3>1. r = q
      BY <2>1, <2>4, <2>5 DEF OwnHome, Ownership, QueuesRespected
    <3> QED BY <2>3, <2>4, <2>5, <3>1 DEF RemoveTask, KeepExecutions
  <2>6. CASE t \notin Unique
    BY <2>1, <2>4, <2>6 DEF Requests, Single
  <2> QED BY <2>5, <2>6
<1> QED BY <1>1, RequestsHold, VanishedBounded, TypeCorrect, TakenOnce, PTL DEF Spec, HistoryKept
=============================================================================
