--------------------------- MODULE WorkerLoopProofs ---------------------------
(****************************************************************************)
(* Theorems about WorkerLoop, for any number of tasks, queues and workers,  *)
(* of which some may poll and some may crash: subscribed workers hear of    *)
(* the queues with tasks, and no such queue is forgotten by all of them,    *)
(* unless what brings them back is cancelled, or dies with its worker.      *)
(****************************************************************************)
EXTENDS WorkerLoop, FiniteSetTheorems, TLAPS

USE DEF ghosts

\* A queue holds an ordinary task in one state at a time.
OrdinaryOnce ==
  \A s, r \in State, q \in Queue, t \in Task \ Unique : In(s, q, t) /\ In(r, q, t) => s = r

\* The index that a starting worker scans has every queue with queued tasks.
QueuedIndexed == \A q \in Queue : zset[QUEUED][q] # {} => q \in index[QUEUED]

StoreInv == TypeOK /\ OrdinaryOnce /\ QueuedIndexed

-----------------------------------------------------------------------------
\* What move_task does to the sorted sets and to the index of queued queues.
LEMMA MoveStore ==
  ASSUME StoreInv, NEW q \in Queue, NEW t \in Task, NEW from \in State, NEW to \in State,
         from # to, MoveTask(q, t, from, to)
  PROVE  /\ StoreTypeOK' /\ OrdinaryOnce' /\ QueuedIndexed'
         /\ \A r \in Queue : (r # q \/ to # QUEUED) => zset'[QUEUED][r] \subseteq zset[QUEUED][r]
<1> StoreTypeOK /\ OrdinaryOnce /\ QueuedIndexed
  BY DEF StoreInv, TypeOK
<1> USE DEF StoreTypeOK, State, QUEUED, ACTIVE, SCHEDULED, ERROR
<1>1. StoreTypeOK'
  BY DEF MoveTask, SRemIfNotExists, Unstale
<1>2. OrdinaryOnce'
  BY DEF MoveTask, OrdinaryOnce, In
<1>3. QueuedIndexed'
  BY DEF MoveTask, QueuedIndexed, SRemIfNotExists
<1>4. \A r \in Queue : (r # q \/ to # QUEUED) => zset'[QUEUED][r] \subseteq zset[QUEUED][r]
  BY DEF MoveTask
<1> QED BY <1>1, <1>2, <1>3, <1>4

\* A task that moves to the queued set leaves the other queues' sets alone.
LEMMA RequeueStore ==
  ASSUME StoreInv, NEW q \in Queue, NEW t \in Task, NEW from \in {ACTIVE, ERROR},
         MoveTask(q, t, from, QUEUED)
  PROVE  /\ StoreTypeOK' /\ OrdinaryOnce' /\ QueuedIndexed'
         /\ \A r \in Queue : r # q => zset'[QUEUED][r] \subseteq zset[QUEUED][r]
<1> DEFINE to == QUEUED
<1>1. from \in State /\ to \in State /\ from # to
  BY DEF State, QUEUED, ACTIVE, ERROR
<1>2. MoveTask(q, t, from, to)
  OBVIOUS
<1> HIDE DEF to
<1>3. /\ StoreTypeOK' /\ OrdinaryOnce' /\ QueuedIndexed'
      /\ \A r \in Queue : (r # q \/ to # QUEUED) => zset'[QUEUED][r] \subseteq zset[QUEUED][r]
  BY <1>1, <1>2, MoveStore
<1> QED BY <1>3

\* The same of removals.
LEMMA RemoveStore ==
  ASSUME StoreInv, NEW q \in Queue, NEW t \in Task, NEW from \in State,
         RemoveTask(q, t, from, t \in Unique)
  PROVE  /\ StoreTypeOK' /\ OrdinaryOnce' /\ QueuedIndexed'
         /\ \A r \in Queue : zset'[QUEUED][r] \subseteq zset[QUEUED][r]
<1> StoreTypeOK /\ OrdinaryOnce /\ QueuedIndexed
  BY DEF StoreInv, TypeOK
<1> USE DEF StoreTypeOK, State, QUEUED, ACTIVE, SCHEDULED, ERROR
<1>1. StoreTypeOK'
  BY DEF RemoveTask, SRemIfNotExists, Unstale, KeepExecutions, KeepObject
<1>2. OrdinaryOnce'
  BY DEF RemoveTask, OrdinaryOnce, In
<1>3. QueuedIndexed'
  BY DEF RemoveTask, QueuedIndexed, SRemIfNotExists
<1>4. \A r \in Queue : zset'[QUEUED][r] \subseteq zset[QUEUED][r]
  BY DEF RemoveTask
<1> QED BY <1>1, <1>2, <1>3, <1>4

\* The same of a new task.
LEMMA AddStore ==
  ASSUME StoreInv, NEW q \in Queue, NEW t \in Task, NEW s \in State, t \in Unique \/ ~Known(t),
         AddTask(q, t, s)
  PROVE  /\ StoreTypeOK' /\ OrdinaryOnce' /\ QueuedIndexed'
         /\ \A r \in Queue : (r # q \/ s # QUEUED) => zset'[QUEUED][r] = zset[QUEUED][r]
<1> StoreTypeOK /\ OrdinaryOnce /\ QueuedIndexed
  BY DEF StoreInv, TypeOK
<1> USE DEF StoreTypeOK, State, QUEUED, ACTIVE, SCHEDULED, ERROR
<1>1. StoreTypeOK'
  BY DEF AddTask
<1>2. OrdinaryOnce'
  BY DEF AddTask, OrdinaryOnce, In, Known
<1>3. QueuedIndexed'
  BY DEF AddTask, QueuedIndexed
<1>4. \A r \in Queue : (r # q \/ s # QUEUED) => zset'[QUEUED][r] = zset[QUEUED][r]
  BY DEF AddTask
<1> QED BY <1>1, <1>2, <1>3, <1>4

\* The same of the batches of zpoppush.
LEMMA PopStore ==
  ASSUME StoreInv, NEW q \in Queue, NEW M \in SUBSET Task
  PROVE  /\ PopToActive(q, M) /\ M \subseteq zset[QUEUED][q] =>
              /\ StoreTypeOK' /\ OrdinaryOnce' /\ QueuedIndexed'
              /\ \A r \in Queue : zset'[QUEUED][r] \subseteq zset[QUEUED][r]
              /\ PopDeferred(q, M) \subseteq Unique
         /\ PopToQueued(q, M) /\ M \subseteq zset[SCHEDULED][q] =>
              /\ StoreTypeOK' /\ OrdinaryOnce' /\ QueuedIndexed'
              /\ \A r \in Queue \ {q} : zset'[QUEUED][r] = zset[QUEUED][r]
<1> StoreTypeOK /\ OrdinaryOnce /\ QueuedIndexed
  BY DEF StoreInv, TypeOK
<1> USE DEF StoreTypeOK, State, QUEUED, ACTIVE, SCHEDULED, ERROR
<1>1. ASSUME PopToActive(q, M), M \subseteq zset[QUEUED][q]
      PROVE  /\ StoreTypeOK' /\ OrdinaryOnce' /\ QueuedIndexed'
             /\ \A r \in Queue : zset'[QUEUED][r] \subseteq zset[QUEUED][r]
             /\ PopDeferred(q, M) \subseteq Unique
  <2>1. PopDeferred(q, M) \subseteq Unique
    BY <1>1 DEF PopDeferred, OrdinaryOnce, In
  <2>2. StoreTypeOK'
    BY <1>1 DEF PopToActive, SRemIfNotExists, PopMoved, PopDeferred
  <2>3. OrdinaryOnce'
    BY <1>1, <2>1 DEF PopToActive, PopMoved, OrdinaryOnce, In
  <2>4. QueuedIndexed'
    BY <1>1 DEF PopToActive, QueuedIndexed, SRemIfNotExists
  <2>5. \A r \in Queue : zset'[QUEUED][r] \subseteq zset[QUEUED][r]
    BY <1>1 DEF PopToActive
  <2> QED BY <2>1, <2>2, <2>3, <2>4, <2>5
<1>2. ASSUME PopToQueued(q, M), M \subseteq zset[SCHEDULED][q]
      PROVE  /\ StoreTypeOK' /\ OrdinaryOnce' /\ QueuedIndexed'
             /\ \A r \in Queue \ {q} : zset'[QUEUED][r] = zset[QUEUED][r]
  <2>2. StoreTypeOK'
    BY <1>2 DEF PopToQueued, SRemIfNotExists
  <2>3. OrdinaryOnce'
    BY <1>2 DEF PopToQueued, OrdinaryOnce, In
  <2>4. QueuedIndexed'
    BY <1>2 DEF PopToQueued, QueuedIndexed
  <2>5. \A r \in Queue \ {q} : zset'[QUEUED][r] = zset[QUEUED][r]
    BY <1>2 DEF PopToQueued
  <2> QED BY <2>2, <2>3, <2>4, <2>5
<1> QED BY <1>1, <1>2

-----------------------------------------------------------------------------
\* A client's call, or a step of a worker, that publishes what it queues.
LEMMA Published ==
  ASSUME TypeOK, Announced, NEW a \in Queue, Publish(a), UNCHANGED <<pc, known, wq>>,
         \A q \in Queue \ {a} : zset'[QUEUED][q] # {} => zset[QUEUED][q] # {}
  PROVE  Announced'
BY DEF Announced, Announcing, Aware, Publish, TypeOK, Gone

\* A step that queues nothing and leaves the workers' knowledge alone.
LEMMA Unqueued ==
  ASSUME TypeOK, Announced, UNCHANGED <<pc, known, inbox, wq, unsaid, putoff>>,
         \A q \in Queue : zset'[QUEUED][q] # {} => zset[QUEUED][q] # {}
  PROVE  Announced'
BY DEF Announced, Announcing, Aware, TypeOK

\* The steps of clients.
LEMMA AnnouncedClient ==
  ASSUME StoreInv, Announced, Client
  PROVE  (StoreInv /\ Announced)'
<1> USE DEF StoreInv, TypeOK, loopVars
<1>a. QUEUED \in State /\ SCHEDULED \in State /\ ERROR \in State /\ QUEUED # ERROR /\ QUEUED # SCHEDULED
  BY DEF State, QUEUED, SCHEDULED, ERROR
<1>b. \A q \in Queue : Publish(q) => /\ inbox' \in [Worker -> SUBSET Queue]
                                      /\ unsaid' \subseteq Queue /\ putoff' \subseteq Queue
                                      /\ cancelled' \subseteq Queue
  BY DEF Publish
<1>1. ASSUME NEW t \in Task, NEW q \in Queue, NEW s \in {QUEUED, SCHEDULED}, Delay(q, t, s)
      PROVE  (StoreInv /\ Announced)'
  <2>1. (t \in Unique \/ ~Known(t)) /\ AddTask(q, t, s) /\ s \in State
    BY <1>1, <1>a DEF Delay
  <2>2. /\ StoreTypeOK' /\ OrdinaryOnce' /\ QueuedIndexed'
        /\ \A r \in Queue : (r # q \/ s # QUEUED) => zset'[QUEUED][r] = zset[QUEUED][r]
    BY <2>1, AddStore
  <2>3. CASE s = QUEUED
    BY <1>1, <1>a, <1>b, <2>2, <2>3, Published DEF Delay
  <2>4. CASE s # QUEUED
    BY <1>1, <2>2, <2>4, Unqueued DEF Delay
  <2> QED BY <2>3, <2>4
<1>2. ASSUME NEW t \in Task, NEW q \in Queue, Retry(q, t)
      PROVE  (StoreInv /\ Announced)'
  <2>1. /\ StoreTypeOK' /\ OrdinaryOnce' /\ QueuedIndexed'
        /\ \A r \in Queue : r # q => zset'[QUEUED][r] \subseteq zset[QUEUED][r]
    <3>1. MoveTask(q, t, ERROR, QUEUED)
      BY <1>2 DEF Retry
    <3> QED BY <3>1, RequeueStore
  <2> QED BY <1>2, <1>b, <2>1, Published DEF Retry
<1>3. ASSUME NEW t \in Task, NEW q \in Queue, Cancel(q, t) \/ Delete(q, t)
      PROVE  (StoreInv /\ Announced)'
  <2>1. /\ StoreTypeOK' /\ OrdinaryOnce' /\ QueuedIndexed'
        /\ \A r \in Queue : zset'[QUEUED][r] \subseteq zset[QUEUED][r]
    BY <1>3, <1>a, RemoveStore DEF Cancel, Delete
  <2> QED BY <1>3, <2>1, Unqueued DEF Cancel, Delete
<1> QED BY <1>1, <1>2, <1>3 DEF Client

\* What is stored stays as it is.
LEMMA StoreKept == StoreInv /\ UNCHANGED storeVars => StoreTypeOK' /\ OrdinaryOnce' /\ QueuedIndexed'
BY DEF StoreInv, TypeOK, storeVars, StoreTypeOK, OrdinaryOnce, QueuedIndexed, In

\* The steps that leave the store alone.
LEMMA AnnouncedLocal ==
  ASSUME StoreInv, Announced, NEW w \in Worker,
         \/ Subscribe(w) \/ FirstScan(w) \/ StartRun(w) \/ StartMaintenance(w)
         \/ \E q \in Queue : Receive(w, q)
         \/ Announce(w) \/ EndRun(w)
  PROVE  (StoreInv /\ Announced)'
<1>a. TypeOK /\ QueuedIndexed
  BY DEF StoreInv
<1>b. UNCHANGED storeVars
  BY DEF Subscribe, FirstScan, StartRun, StartMaintenance, Receive, Announce, EndRun
<1>c. StoreTypeOK' /\ OrdinaryOnce' /\ QueuedIndexed'
  BY <1>b, StoreKept
<1>d. UNCHANGED zset /\ index \in [State -> SUBSET Queue] /\ QUEUED \in State /\ SCHEDULED \in State
  BY <1>a, <1>b DEF storeVars, TypeOK, StoreTypeOK, State
<1>1. CASE Subscribe(w)
  <2>1. TypeOK'
    BY <1>1, <1>a, <1>c DEF Subscribe, TypeOK, PC
  <2>2. Announced'
    BY <1>1, <1>a, <1>d DEF Subscribe, TypeOK, Announced, Announcing, Aware, Gone
  <2> QED BY <1>c, <2>1, <2>2 DEF StoreInv
<1>2. CASE FirstScan(w)
  <2>1. TypeOK'
    BY <1>2, <1>a, <1>c, <1>d DEF FirstScan, TypeOK, PC
  <2>2. Announced'
    BY <1>2, <1>a, <1>d DEF FirstScan, TypeOK, Announced, Announcing, Aware, Gone, QueuedIndexed
  <2> QED BY <1>c, <2>1, <2>2 DEF StoreInv
<1>3. CASE StartRun(w)
  <2>1. Refreshed(w) \in SUBSET Queue /\ (w \notin Polling => Refreshed(w) = known[w])
    BY <1>a, <1>d DEF Refreshed, TypeOK
  <2>2. TypeOK'
    BY <1>3, <1>a, <1>c, <2>1 DEF StartRun, TypeOK, PC
  <2>3. Announced'
    BY <1>3, <1>a, <1>d, <2>1 DEF StartRun, TypeOK, Announced, Announcing, Aware, Gone
  <2> QED BY <1>c, <2>2, <2>3 DEF StoreInv
<1>4. CASE StartMaintenance(w)
  <2>1. TypeOK'
    BY <1>4, <1>a, <1>c, <1>d DEF StartMaintenance, TypeOK, PC
  <2>2. Announced'
    BY <1>4, <1>a, <1>d DEF StartMaintenance, TypeOK, Announced, Announcing, Aware, Gone
  <2> QED BY <1>c, <2>1, <2>2 DEF StoreInv
<1>5. ASSUME NEW q \in Queue, Receive(w, q) PROVE (StoreInv /\ Announced)'
  <2>1. TypeOK'
    BY <1>5, <1>a, <1>c DEF Receive, TypeOK
  <2>2. Announced'
    BY <1>5, <1>a, <1>d DEF Receive, TypeOK, Announced, Announcing, Aware, Gone
  <2> QED BY <1>c, <2>1, <2>2 DEF StoreInv
<1>6. CASE Announce(w)
  <2>1. TypeOK'
    BY <1>6, <1>a, <1>c DEF Announce, Publish, TypeOK, PC
  <2>2. Announced'
    BY <1>6, <1>a, <1>d DEF Announce, Publish, TypeOK, Announced, Announcing, Aware, Gone
  <2> QED BY <1>c, <2>1, <2>2 DEF StoreInv
<1>7. CASE EndRun(w)
  <2>1. TypeOK'
    BY <1>7, <1>a, <1>c DEF EndRun, TypeOK, PC
  <2>2. Announced'
    BY <1>7, <1>a, <1>d DEF EndRun, TypeOK, Announced, Announcing, Aware, Gone
  <2> QED BY <1>c, <2>1, <2>2 DEF StoreInv
<1> QED BY <1>1, <1>2, <1>3, <1>4, <1>5, <1>6, <1>7

\* A visit that moves nothing found the queue empty.
LEMMA EmptyVisit ==
  ASSUME StoreInv, NEW q \in Queue, Batch({}, zset[QUEUED][q], BatchSize)
  PROVE  zset[QUEUED][q] = {}
<1>1. zset[QUEUED][q] \subseteq Task /\ IsFiniteSet(Task)
  BY LoopConstantsOK DEF StoreInv, TypeOK, StoreTypeOK, State
<1>2. IsFiniteSet(zset[QUEUED][q])
  BY <1>1, FS_Subset
<1>3. Cardinality({}) = 0
  BY FS_EmptySet
<1>4. Cardinality(zset[QUEUED][q]) \in Nat
  BY <1>2, FS_CardinalityType
<1>5. Cardinality(zset[QUEUED][q]) = 0
  BY <1>3, <1>4, LoopConstantsOK DEF Batch
<1> QED BY <1>2, <1>5, FS_EmptySet

\* A visit to a queue: what is dropped is empty.
LEMMA AnnouncedPop ==
  ASSUME StoreInv, Announced, NEW w \in Worker, NEW q \in Queue, Pop(w, q)
  PROVE  (StoreInv /\ Announced)'
<1>a. TypeOK
  BY DEF StoreInv
<1>1. PICK M \in SUBSET zset[QUEUED][q] :
        /\ Batch(M, zset[QUEUED][q], BatchSize)
        /\ IF M = {} THEN UNCHANGED storeVars ELSE PopToActive(q, M)
        /\ known' = [known EXCEPT ![w] = Remaining(w, q, PopMoved(q, M))]
        /\ batch' = [batch EXCEPT ![w] = PopMoved(q, M)]
        /\ pc' = [pc EXCEPT ![w] = IF PopMoved(q, M) = {} THEN "run" ELSE "work"]
        /\ putoff' = IF PopMoved(q, M) = {} /\ M # {} THEN putoff \cup {q} ELSE putoff
  BY DEF Pop
<1>2. M \in SUBSET Task
  BY <1>a DEF TypeOK, StoreTypeOK, State
<1>3. CASE M = {}
  <2>1. PopMoved(q, M) = {} /\ zset[QUEUED][q] = {}
    BY <1>1, <1>3, EmptyVisit DEF PopMoved
  <2>2. UNCHANGED storeVars
    BY <1>1, <1>3
  <2>3. StoreTypeOK' /\ OrdinaryOnce' /\ QueuedIndexed'
    BY <2>2, StoreKept
  <2>4. TypeOK'
    BY <1>a, <1>1, <2>1, <2>3 DEF Pop, TypeOK, PC, Remaining
  <2>5. Announced'
    BY <1>a, <1>1, <2>1, <2>2 DEF Pop, TypeOK, Remaining, Announced, Announcing, Aware, Gone, storeVars
  <2> QED BY <2>3, <2>4, <2>5 DEF StoreInv
<1>4. CASE M # {}
  <2>1. PopToActive(q, M)
    BY <1>1, <1>4
  <2>2. /\ StoreTypeOK' /\ OrdinaryOnce' /\ QueuedIndexed'
        /\ \A r \in Queue : zset'[QUEUED][r] \subseteq zset[QUEUED][r]
    BY <1>1, <1>2, <2>1, PopStore
  <2>3. PopMoved(q, M) \in SUBSET Task
    BY <1>2 DEF PopMoved
  <2>4. TypeOK'
    BY <1>a, <1>1, <2>2, <2>3 DEF Pop, TypeOK, PC, Remaining
  <2>5. CASE PopMoved(q, M) = {}
    <3>1. putoff' = putoff \cup {q} /\ known' = [known EXCEPT ![w] = known[w] \ {q}]
      BY <1>1, <1>4, <2>5 DEF Remaining
    <3>2. Announced'
      BY <1>a, <1>1, <2>2, <2>5, <3>1 DEF Pop, TypeOK, Announced, Announcing, Aware, Gone
    <3> QED BY <2>2, <2>4, <3>2 DEF StoreInv
  <2>6. CASE PopMoved(q, M) # {}
    <3>1. known' = known /\ putoff' = putoff
      BY <1>a, <1>1, <2>6 DEF Remaining, TypeOK
    <3>2. Announced'
      BY <1>a, <1>1, <2>2, <2>6, <3>1 DEF Pop, TypeOK, Announced, Announcing, Aware, Gone
    <3> QED BY <2>2, <2>4, <3>2 DEF StoreInv
  <2> QED BY <2>5, <2>6
<1> QED BY <1>3, <1>4

\* The steps that finish, schedule or expire tasks.
LEMMA AnnouncedStore ==
  ASSUME StoreInv, Announced, NEW w \in Worker,
         \/ \E t \in Task : Finish(w, t)
         \/ \E q \in Queue : Schedule(w, q)
         \/ \E q \in Queue, t \in Task : Expire(w, q, t)
  PROVE  (StoreInv /\ Announced)'
<1>a. TypeOK
  BY DEF StoreInv
<1>b. State = {QUEUED, ACTIVE, SCHEDULED, ERROR} /\ QUEUED # SCHEDULED /\ QUEUED # ERROR
      /\ QUEUED # ACTIVE /\ ACTIVE # SCHEDULED /\ ACTIVE # ERROR
  BY DEF State, QUEUED, ACTIVE, SCHEDULED, ERROR
<1>1. ASSUME NEW t \in Task, Finish(w, t) PROVE (StoreInv /\ Announced)'
  <2>1. wq[w] \in Queue
    BY <1>a DEF TypeOK
  <2>2. /\ StoreTypeOK' /\ OrdinaryOnce' /\ QueuedIndexed'
        /\ \A r \in Queue : zset'[QUEUED][r] \subseteq zset[QUEUED][r]
    <3>1. CASE RemoveTask(wq[w], t, ACTIVE, t \in Unique)
      BY <1>b, <2>1, <3>1, RemoveStore
    <3>2. ASSUME NEW s \in {SCHEDULED, ERROR}, MoveTask(wq[w], t, ACTIVE, s)
          PROVE  /\ StoreTypeOK' /\ OrdinaryOnce' /\ QueuedIndexed'
                 /\ \A r \in Queue : zset'[QUEUED][r] \subseteq zset[QUEUED][r]
      BY <1>b, <2>1, <3>2, MoveStore
    <3> QED BY <1>1, <3>1, <3>2 DEF Finish
  <2>3. TypeOK'
    BY <1>a, <1>1, <2>2 DEF Finish, TypeOK, PC
  <2>4. Announced'
    BY <1>a, <1>1, <2>2 DEF Finish, TypeOK, Announced, Announcing, Aware, Gone
  <2> QED BY <2>2, <2>3, <2>4 DEF StoreInv
<1>2. ASSUME NEW q \in Queue, Schedule(w, q) PROVE (StoreInv /\ Announced)'
  <2>1. PICK M \in SUBSET zset[SCHEDULED][q] :
          /\ IF M = {} THEN UNCHANGED storeVars ELSE PopToQueued(q, M)
          /\ IF M \subseteq zset[QUEUED][q] THEN UNCHANGED <<pc, wq>>
             ELSE pc' = [pc EXCEPT ![w] = "announce"] /\ wq' = [wq EXCEPT ![w] = q]
    BY <1>2 DEF Schedule
  <2>2. M \in SUBSET Task
    BY <1>a, <1>b DEF TypeOK, StoreTypeOK
  <2>3. /\ StoreTypeOK' /\ OrdinaryOnce' /\ QueuedIndexed'
        /\ \A r \in Queue \ {q} : zset'[QUEUED][r] = zset[QUEUED][r]
    <3>1. CASE M = {}
      BY <2>1, <3>1, StoreKept DEF storeVars
    <3>2. CASE M # {}
      BY <2>1, <2>2, <3>2, PopStore
    <3> QED BY <3>1, <3>2
  <2>4. TypeOK'
    BY <1>a, <1>2, <2>1, <2>3 DEF Schedule, TypeOK, PC
  <2>5. Announced'
    <3>1. CASE M \subseteq zset[QUEUED][q]
      <4>1. zset'[QUEUED][q] = zset[QUEUED][q]
        <5>1. CASE M = {}
          BY <2>1, <5>1 DEF storeVars
        <5>2. CASE M # {}
          <6>1. PopToQueued(q, M)
            BY <2>1, <5>2
          <6>2. zset \in [State -> [Queue -> SUBSET Task]]
            BY <1>a DEF TypeOK, StoreTypeOK
          <6>3. zset'[QUEUED][q] = zset[QUEUED][q] \cup M
            BY <1>b, <6>1, <6>2 DEF PopToQueued
          <6> QED BY <3>1, <6>3
        <5> QED BY <5>1, <5>2
      <4> QED BY <1>a, <1>2, <2>1, <2>3, <3>1, <4>1, Unqueued DEF Schedule
    <3>2. CASE ~(M \subseteq zset[QUEUED][q])
      BY <1>a, <1>2, <2>1, <2>3, <3>2 DEF Schedule, TypeOK, Announced, Announcing, Aware, Gone
    <3> QED BY <3>1, <3>2
  <2> QED BY <2>3, <2>4, <2>5 DEF StoreInv
<1>3. ASSUME NEW q \in Queue, NEW t \in Task, Expire(w, q, t) PROVE (StoreInv /\ Announced)'
  <2>1. CASE MoveTask(q, t, ACTIVE, QUEUED) /\ Publish(q)
    <3>1. /\ StoreTypeOK' /\ OrdinaryOnce' /\ QueuedIndexed'
          /\ \A r \in Queue : r # q => zset'[QUEUED][r] \subseteq zset[QUEUED][r]
      BY <2>1, RequeueStore
    <3>2. TypeOK'
      BY <1>a, <1>3, <2>1, <3>1 DEF Expire, Publish, TypeOK
    <3>3. Announced'
      BY <1>a, <1>3, <2>1, <3>1, Published DEF Expire
    <3> QED BY <3>1, <3>2, <3>3 DEF StoreInv
  <2>2. CASE MoveTask(q, t, ACTIVE, ERROR) /\ UNCHANGED <<inbox, ghosts>>
    <3>1. /\ StoreTypeOK' /\ OrdinaryOnce' /\ QueuedIndexed'
          /\ \A r \in Queue : zset'[QUEUED][r] \subseteq zset[QUEUED][r]
      BY <1>b, <2>2, MoveStore
    <3>2. TypeOK'
      BY <1>a, <1>3, <2>2, <3>1 DEF Expire, TypeOK
    <3>3. Announced'
      BY <1>a, <1>3, <2>2, <3>1, Unqueued DEF Expire
    <3> QED BY <3>1, <3>2, <3>3 DEF StoreInv
  <2> QED BY <1>3, <2>1, <2>2 DEF Expire
<1> QED BY <1>1, <1>2, <1>3

\* A worker that dies silences at most the queue it was about to announce.
LEMMA AnnouncedCrash ==
  ASSUME StoreInv, Announced, NEW w \in Worker, Crash(w)
  PROVE  (StoreInv /\ Announced)'
<1>a. TypeOK
  BY DEF StoreInv
<1>b. UNCHANGED storeVars /\ QUEUED \in State
  BY DEF Crash, State
<1>1. StoreTypeOK' /\ OrdinaryOnce' /\ QueuedIndexed'
  BY <1>b, StoreKept
<1>2. TypeOK'
  BY <1>a, <1>1 DEF Crash, TypeOK, PC, Gone
<1>3. Announced'
  BY <1>a, <1>b DEF Crash, TypeOK, Announced, Announcing, Aware, Gone, storeVars
<1> QED BY <1>1, <1>2, <1>3 DEF StoreInv

\* Both are inductive.
LEMMA AnnouncedInductive == Spec => [](StoreInv /\ Announced)
<1>1. Init => StoreInv /\ Announced
  BY LoopConstantsOK DEF Init, StoreInit, StoreInv, TypeOK, StoreTypeOK, OrdinaryOnce, QueuedIndexed, In,
     Announced, Nothing, PC, Gone, State, QUEUED
<1>2. StoreInv /\ Announced /\ [Next]_vars => (StoreInv /\ Announced)'
  <2> SUFFICES ASSUME StoreInv, Announced, [Next]_vars PROVE (StoreInv /\ Announced)'
    OBVIOUS
  <2>1. CASE Client
    BY <2>1, AnnouncedClient
  <2>2. ASSUME NEW w \in Worker, Loop(w) PROVE (StoreInv /\ Announced)'
    BY <2>2, AnnouncedLocal, AnnouncedPop, AnnouncedStore DEF Loop, Advance
  <2>3. ASSUME NEW w \in Worker, Crash(w) PROVE (StoreInv /\ Announced)'
    BY <2>3, AnnouncedCrash
  <2>4. CASE UNCHANGED vars
    <3>1. StoreTypeOK' /\ OrdinaryOnce' /\ QueuedIndexed'
      BY <2>4, StoreKept DEF vars
    <3>2. TypeOK'
      BY <2>4, <3>1 DEF vars, loopVars, TypeOK, StoreInv
    <3>3. Announced'
      BY <2>4, Unqueued DEF vars, loopVars, storeVars, StoreInv
    <3> QED BY <3>1, <3>2, <3>3 DEF StoreInv
  <2> QED BY <2>1, <2>2, <2>3, <2>4 DEF Next
<1> QED BY <1>1, <1>2, PTL DEF Spec

(* Every subscribed worker knows of each queue with queued tasks, has a     *)
(* message about it, or is about to get one, unless the worker that was to  *)
(* send it died, or a batch of the queue was put off since.                 *)
THEOREM AllAnnounced == Spec => []Announced
<1>1. StoreInv /\ Announced => Announced
  OBVIOUS
<1> QED BY <1>1, AnnouncedInductive, PTL

(* The types of the variables: who knows, has messages about and works on   *)
(* which queues, at which point of the loop, and of the store they share.   *)
THEOREM TypeCorrect == Spec => []TypeOK
<1>1. StoreInv => TypeOK
  BY DEF StoreInv
<1> QED BY <1>1, AnnouncedInductive, PTL

-----------------------------------------------------------------------------
(* No queue is forgotten by all workers.                                    *)

\* What was put off and waits to be queued is what a dropped queue hangs on.
PutOffKept == \A q \in putoff : Announcing(q) \/ q \in unsaid \cup cancelled \/ Waiting(q)

\* Some worker knows of the queue or will, or something will announce it.
Remembered ==
  \A q \in Queue : zset[QUEUED][q] # {} =>
    \/ Announcing(q)
    \/ \E w \in Worker : Aware(w, q) \/ pc[w] = "off"
    \/ Worker = {}
    \/ q \in cancelled
    \/ q \in putoff /\ Waiting(q)

NobodyDead == \A w \in Worker : pc[w] # "dead"

Kept == PutOffKept /\ (Restarting => NobodyDead /\ Remembered)

KnowInv == StoreInv /\ Kept

\* A step that queues nothing new and leaves what was put off waiting ...
Harmless(q) ==
  /\ zset'[QUEUED][q] # {} => zset[QUEUED][q] # {}
  /\ Waiting(q) => Waiting(q)'

\* ... and leaves alone what the workers know.
LEMMA KeptQuiet ==
  ASSUME TypeOK, Kept, UNCHANGED <<pc, known, inbox, wq, unsaid, putoff, cancelled>>,
         \A q \in Queue : Harmless(q)
  PROVE  Kept'
<1>1. PutOffKept'
  BY DEF Kept, PutOffKept, Announcing, Harmless, TypeOK
<1>2. Restarting => (NobodyDead /\ Remembered)'
  BY DEF Kept, NobodyDead, Remembered, Announcing, Aware, Harmless
<1> QED BY <1>1, <1>2 DEF Kept

\* A step that publishes what it queues.
LEMMA KeptPublish ==
  ASSUME TypeOK, Kept, NEW a \in Queue, Publish(a),
         UNCHANGED <<pc, known, wq>>, \A q \in Queue \ {a} : Harmless(q)
  PROVE  Kept'
<1>0. \A q \in Queue : Announcing(q) => Announcing(q)'
  BY DEF Announcing
<1>1. PutOffKept'
  BY <1>0 DEF Kept, PutOffKept, Publish, Harmless, TypeOK
<1>2. ASSUME Restarting, NEW q \in Queue, zset'[QUEUED][q] # {}, Worker # {}
      PROVE  \/ Announcing(q)'
             \/ \E w \in Worker : Aware(w, q)' \/ (pc[w] = "off")'
             \/ q \in cancelled'
             \/ (q \in putoff /\ Waiting(q))'
  <2>1. CASE q = a
    <3>1. PICK w \in Worker : TRUE
      BY <1>2
    <3>2. pc[w] # "dead"
      BY <1>2 DEF Kept, NobodyDead
    <3>3. CASE pc[w] = "off"
      BY <3>3
    <3>4. CASE pc[w] # "off"
      BY <2>1, <3>2, <3>4 DEF Publish, Aware, TypeOK, Gone
    <3> QED BY <3>3, <3>4
  <2>2. CASE q # a
    <3>1. Harmless(q) /\ zset[QUEUED][q] # {}
      BY <1>2, <2>2 DEF Harmless
    <3>2. (q \in putoff => q \in putoff') /\ (q \in cancelled => q \in cancelled')
      BY <2>2 DEF Publish
    <3>3. \A w \in Worker : Aware(w, q) => Aware(w, q)'
      BY DEF Publish, Aware, TypeOK
    <3> QED BY <1>0, <1>2, <3>1, <3>2, <3>3 DEF Kept, Remembered, Harmless
  <2> QED BY <2>1, <2>2
<1>3. Restarting => NobodyDead'
  BY DEF Kept, NobodyDead
<1> QED BY <1>1, <1>2, <1>3 DEF Kept, Remembered

\* The calls of the scripts that are harmless, or harm one queue.
LEMMA MoveHarmless ==
  ASSUME StoreInv, NEW q \in Queue, NEW t \in Task, NEW from \in {ACTIVE, ERROR},
         NEW to \in State, MoveTask(q, t, from, to)
  PROVE  \A r \in Queue : r # q \/ to # QUEUED => Harmless(r)
BY DEF MoveTask, Harmless, Waiting, In, StoreInv, TypeOK, StoreTypeOK, State,
       QUEUED, ACTIVE, SCHEDULED, ERROR

\* Nor does move_task without a to_state, unless a unique task leaves the scheduled set.
LEMMA RemoveHarmless ==
  ASSUME StoreInv, NEW q \in Queue, NEW t \in Task, NEW from \in State,
         RemoveTask(q, t, from, t \in Unique)
  PROVE  \A r \in Queue : r # q \/ from # SCHEDULED \/ t \notin Unique => Harmless(r)
BY DEF RemoveTask, Harmless, Waiting, In, StoreInv, TypeOK, StoreTypeOK, State,
       QUEUED, ACTIVE, SCHEDULED, ERROR

\* Nor does the pipeline of delay.
LEMMA AddHarmless ==
  ASSUME StoreInv, NEW q \in Queue, NEW t \in Task, NEW s \in State, AddTask(q, t, s)
  PROVE  \A r \in Queue : r # q \/ s # QUEUED => Harmless(r)
BY DEF AddTask, Harmless, Waiting, In, StoreInv, TypeOK, StoreTypeOK, State,
       QUEUED, ACTIVE, SCHEDULED, ERROR

\* The steps of clients.
LEMMA KeptClient ==
  ASSUME KnowInv, Client
  PROVE  Kept'
<1>a. StoreInv /\ TypeOK /\ Kept
  BY DEF KnowInv, StoreInv
<1>b. {QUEUED, SCHEDULED, ERROR, ACTIVE} \subseteq State /\ QUEUED # SCHEDULED /\ ERROR # SCHEDULED
  BY DEF State, QUEUED, ACTIVE, SCHEDULED, ERROR
<1>1. ASSUME NEW t \in Task, NEW q \in Queue, NEW s \in {QUEUED, SCHEDULED}, Delay(q, t, s)
      PROVE  Kept'
  <2>1. \A r \in Queue : r # q \/ s # QUEUED => Harmless(r)
    BY <1>1, <1>a, <1>b, AddHarmless DEF Delay
  <2>2. CASE s = QUEUED
    BY <1>1, <1>a, <2>1, <2>2, KeptPublish DEF Delay
  <2>3. CASE s # QUEUED
    BY <1>1, <1>a, <2>1, <2>3, KeptQuiet DEF Delay
  <2> QED BY <2>2, <2>3
<1>2. ASSUME NEW t \in Task, NEW q \in Queue, Retry(q, t) PROVE Kept'
  <2>1. MoveTask(q, t, ERROR, QUEUED)
    BY <1>2 DEF Retry
  <2>2. \A r \in Queue \ {q} : Harmless(r)
    BY <1>a, <1>b, <2>1, MoveHarmless
  <2> QED BY <1>2, <1>a, <2>2, KeptPublish DEF Retry
<1>3. ASSUME NEW t \in Task, NEW q \in Queue, Cancel(q, t) PROVE Kept'
  <2>1. RemoveTask(q, t, SCHEDULED, t \in Unique)
    BY <1>3 DEF Cancel
  <2>2. \A r \in Queue : r # q \/ t \notin Unique => Harmless(r)
    BY <1>a, <1>b, <2>1, RemoveHarmless
  <2>3. \A r \in Queue : zset'[QUEUED][r] # {} => zset[QUEUED][r] # {}
    BY <1>a, <1>b, <2>1, RemoveStore
  <2>4. cancelled \subseteq cancelled' /\ (t \in Unique /\ q \in putoff => q \in cancelled')
    BY <1>3 DEF Cancel
  <2>5. PutOffKept'
    BY <1>a, <1>3, <2>2, <2>4 DEF Kept, PutOffKept, Cancel, Announcing, Harmless, TypeOK
  <2>6. Restarting => (NobodyDead /\ Remembered)'
    <3>1. UNCHANGED <<pc, known, inbox, wq, putoff>>
      BY <1>3 DEF Cancel
    <3> QED BY <1>a, <3>1, <2>2, <2>3, <2>4
            DEF Kept, NobodyDead, Remembered, Announcing, Aware, Harmless
  <2> QED BY <2>5, <2>6 DEF Kept
<1>4. ASSUME NEW t \in Task, NEW q \in Queue, Delete(q, t) PROVE Kept'
  <2>1. RemoveTask(q, t, ERROR, t \in Unique)
    BY <1>4 DEF Delete
  <2>2. \A r \in Queue : Harmless(r)
    BY <1>a, <1>b, <2>1, RemoveHarmless
  <2> QED BY <1>4, <1>a, <2>2, KeptQuiet DEF Delete, loopVars
<1> QED BY <1>1, <1>2, <1>3, <1>4 DEF Client

\* The steps that leave the store alone, crashes among them.
LEMMA KeptLocal ==
  ASSUME KnowInv, NEW w \in Worker,
         \/ Subscribe(w) \/ FirstScan(w) \/ StartRun(w) \/ StartMaintenance(w)
         \/ \E q \in Queue : Receive(w, q)
         \/ EndRun(w) \/ Crash(w)
  PROVE  Kept'
<1>a. TypeOK /\ Kept /\ QueuedIndexed
  BY DEF KnowInv, StoreInv
<1>b. UNCHANGED zset /\ index \in [State -> SUBSET Queue] /\ QUEUED \in State
  BY <1>a DEF Subscribe, FirstScan, StartRun, StartMaintenance, Receive, EndRun, Crash,
              storeVars, TypeOK, StoreTypeOK, State
<1>c. Restarting => NobodyDead'
  BY <1>a DEF Subscribe, FirstScan, StartRun, StartMaintenance, Receive, EndRun, Crash,
              NobodyDead, TypeOK, Kept
<1>d. \A q \in Queue : Waiting(q) => Waiting(q)'
  BY <1>b DEF Waiting, In
<1>e. UNCHANGED <<putoff, cancelled, wq>>
  BY DEF Subscribe, FirstScan, StartRun, StartMaintenance, Receive, EndRun, Crash
<1>f. PutOffKept'
  <2>1. CASE Crash(w)
    BY <1>a, <1>d, <1>e, <2>1 DEF Kept, PutOffKept, Announcing, Crash, TypeOK
  <2>2. CASE ~Crash(w)
    <3>1. unsaid' = unsaid /\ \A q \in Queue : Announcing(q) => Announcing(q)'
      BY <1>a, <1>e, <2>2 DEF Announcing, TypeOK, Subscribe, FirstScan, StartRun, StartMaintenance,
                              Receive, EndRun
    <3> QED BY <1>a, <1>d, <1>e, <3>1 DEF Kept, PutOffKept, TypeOK
  <2> QED BY <2>1, <2>2
<1>g. SUFFICES ASSUME Restarting PROVE Remembered'
  BY <1>c, <1>f DEF Kept
<1>h. Remembered
  BY <1>a, <1>g DEF Kept
<1>i. \A q \in Queue : Waiting(q) /\ q \in putoff => (Waiting(q) /\ q \in putoff)'
  BY <1>d, <1>e
<1>j. \A q \in Queue : q \in cancelled => q \in cancelled'
  BY <1>e
<1>k. ASSUME \A q \in Queue : zset[QUEUED][q] # {} => (Announcing(q) => Announcing(q)'),
             \A q \in Queue, v \in Worker : zset[QUEUED][q] # {} /\ (Aware(v, q) \/ pc[v] = "off")
                => (Aware(v, q) \/ pc[v] = "off")'
      PROVE  Remembered'
  BY <1>b, <1>h, <1>i, <1>j, <1>k DEF Remembered
<1> USE <1>a, <1>b DEF TypeOK, Announcing, Aware
<1>1. ASSUME Subscribe(w) PROVE Remembered'
  BY <1>k, <1>1 DEF Subscribe
<1>2. ASSUME FirstScan(w) PROVE Remembered'
  BY <1>k, <1>2 DEF FirstScan, QueuedIndexed
<1>3. ASSUME StartRun(w) PROVE Remembered'
  BY <1>k, <1>3 DEF StartRun, Refreshed
<1>4. ASSUME StartMaintenance(w) PROVE Remembered'
  BY <1>k, <1>4 DEF StartMaintenance
<1>5. ASSUME NEW q \in Queue, Receive(w, q) PROVE Remembered'
  BY <1>k, <1>5 DEF Receive
<1>6. ASSUME EndRun(w) PROVE Remembered'
  BY <1>k, <1>6 DEF EndRun
<1>7. ASSUME Crash(w) PROVE Remembered'
  <2>1. pc'[w] = "off"
    BY <1>7, <1>g DEF Crash
  <2> QED BY <2>1 DEF Remembered
<1> QED BY <1>1, <1>2, <1>3, <1>4, <1>5, <1>6, <1>7

\* Visits: a queue is dropped when it is empty, or when a unique task of it is put off.
LEMMA KeptPop ==
  ASSUME KnowInv, NEW w \in Worker, NEW q \in Queue, Pop(w, q)
  PROVE  Kept'
<1>a. StoreInv /\ TypeOK /\ Kept
  BY DEF KnowInv, StoreInv
<1>1. PICK M \in SUBSET zset[QUEUED][q] :
        /\ Batch(M, zset[QUEUED][q], BatchSize)
        /\ IF M = {} THEN UNCHANGED storeVars ELSE PopToActive(q, M)
        /\ known' = [known EXCEPT ![w] = Remaining(w, q, PopMoved(q, M))]
        /\ pc' = [pc EXCEPT ![w] = IF PopMoved(q, M) = {} THEN "run" ELSE "work"]
        /\ putoff' = IF PopMoved(q, M) = {} /\ M # {} THEN putoff \cup {q} ELSE putoff
  BY DEF Pop
<1>b. M \in SUBSET Task
  BY <1>a DEF TypeOK, StoreTypeOK, State
<1>c. UNCHANGED <<inbox, unsaid, cancelled>> /\ wq' = [wq EXCEPT ![w] = q] /\ pc[w] = "run"
  BY DEF Pop
<1>d. Restarting => NobodyDead'
  BY <1>a, <1>1 DEF Kept, NobodyDead, TypeOK
<1>e. \A r \in Queue : Announcing(r) => Announcing(r)'
  BY <1>a, <1>1, <1>c DEF TypeOK, Announcing
<1>f. \A v \in Worker : pc[v] = "off" => pc'[v] = "off"
  BY <1>a, <1>1, <1>c DEF TypeOK
<1>g. \A r \in Queue, v \in Worker :
        Aware(v, r) /\ (r # q \/ PopMoved(q, M) # {}) => Aware(v, r)'
  BY <1>a, <1>1, <1>c DEF TypeOK, Aware, Remaining
<1>h. putoff \subseteq putoff'
  BY <1>1
<1>2. \A r \in Queue : Harmless(r)
  <2>1. CASE M = {}
    BY <1>1, <2>1 DEF storeVars, Harmless, Waiting, In
  <2>2. CASE M # {}
    <3>1. PopToActive(q, M)
      BY <1>1, <2>2
    <3> QED BY <1>a, <1>b, <3>1 DEF PopToActive, Harmless, Waiting, In, TypeOK, StoreTypeOK, State,
                            QUEUED, ACTIVE, SCHEDULED, ERROR
  <2> QED BY <2>1, <2>2
<1>3. ASSUME PopMoved(q, M) = {}, M # {} PROVE Waiting(q)'
  <2>1. PopToActive(q, M)
    BY <1>1, <1>3
  <2>2. PopDeferred(q, M) \subseteq Unique /\ PopDeferred(q, M) = M
    BY <1>a, <1>b, <1>1, <1>3, <2>1, PopStore DEF PopMoved, PopDeferred
  <2>3. PICK t \in M : t \in Unique
    BY <1>3, <2>2
  <2>4. In(SCHEDULED, q, t)' /\ ~In(QUEUED, q, t)'
    BY <1>a, <1>b, <2>1, <2>2, <2>3 DEF PopToActive, In, TypeOK, StoreTypeOK, State,
                          QUEUED, ACTIVE, SCHEDULED, ERROR
  <2> QED BY <2>3, <2>4 DEF Waiting
<1>4. PutOffKept'
  BY <1>a, <1>1, <1>2, <1>3, <1>c, <1>e DEF Kept, PutOffKept, Harmless, TypeOK
<1>5. ASSUME Restarting PROVE Remembered'
  <2>1. \A r \in Queue : r # q \/ PopMoved(q, M) # {} =>
          ((\E v \in Worker : Aware(v, r) \/ pc[v] = "off")
             => (\E v \in Worker : Aware(v, r)' \/ pc'[v] = "off"))
    BY <1>f, <1>g
  <2>2. CASE M = {}
    BY <1>a, <1>1, <1>2, <1>5, <1>c, <1>e, <2>1, <2>2, EmptyVisit DEF Kept, Remembered, Harmless, storeVars
  <2>3. CASE M # {}
    BY <1>a, <1>1, <1>2, <1>3, <1>5, <1>c, <1>e, <1>h, <2>1, <2>3 DEF Kept, Remembered, Harmless
  <2> QED BY <2>2, <2>3
<1> QED BY <1>4, <1>5, <1>d DEF Kept

\* The steps that finish, schedule, announce or expire.
LEMMA KeptStore ==
  ASSUME KnowInv, NEW w \in Worker,
         \/ \E t \in Task : Finish(w, t)
         \/ \E q \in Queue : Schedule(w, q)
         \/ Announce(w)
         \/ \E q \in Queue, t \in Task : Expire(w, q, t)
  PROVE  Kept'
<1>a. StoreInv /\ TypeOK /\ Kept
  BY DEF KnowInv, StoreInv
<1>b. {QUEUED, SCHEDULED, ERROR, ACTIVE} \subseteq State /\ QUEUED # SCHEDULED /\ QUEUED # ERROR
      /\ ACTIVE # SCHEDULED
  BY DEF State, QUEUED, ACTIVE, SCHEDULED, ERROR
<1>c. Restarting => NobodyDead'
  BY <1>a DEF Finish, Schedule, Announce, Expire, Kept, NobodyDead, TypeOK
<1>d. ASSUME UNCHANGED <<known, inbox, unsaid, putoff, cancelled>>,
             \A q \in Queue : Announcing(q) => Announcing(q)',
             \A q \in Queue : Harmless(q) \/ Announcing(q)',
             \A v \in Worker : pc[v] \in {"start", "off"} => pc'[v] = pc[v]
      PROVE  Kept'
  <2>1. PutOffKept'
    BY <1>a, <1>d DEF Kept, PutOffKept, Harmless, TypeOK
  <2>2. \A q \in Queue, v \in Worker : Aware(v, q) \/ pc[v] = "off" => Aware(v, q)' \/ pc'[v] = "off"
    BY <1>d DEF Aware
  <2>3. Restarting => Remembered'
    BY <1>a, <1>d, <2>2 DEF Kept, Remembered, Harmless
  <2> QED BY <1>c, <2>1, <2>3 DEF Kept
<1>1. ASSUME NEW t \in Task, Finish(w, t) PROVE Kept'
  <2>1. wq[w] \in Queue
    BY <1>a DEF TypeOK
  <2>2. \A r \in Queue : Harmless(r)
    <3>1. CASE RemoveTask(wq[w], t, ACTIVE, t \in Unique)
      BY <1>a, <1>b, <2>1, <3>1, RemoveHarmless
    <3>2. ASSUME NEW s \in {SCHEDULED, ERROR}, MoveTask(wq[w], t, ACTIVE, s)
          PROVE  \A r \in Queue : Harmless(r)
      BY <1>a, <1>b, <2>1, <3>2, MoveHarmless
    <3> QED BY <1>1, <3>1, <3>2 DEF Finish
  <2>3. \A q \in Queue : Announcing(q) => Announcing(q)'
    BY <1>a, <1>1 DEF Finish, TypeOK, Announcing
  <2> QED BY <1>a, <1>1, <1>d, <2>2, <2>3 DEF Finish, TypeOK
<1>2. ASSUME NEW q \in Queue, Schedule(w, q) PROVE Kept'
  <2>1. PICK M \in SUBSET zset[SCHEDULED][q] :
          /\ IF M = {} THEN UNCHANGED storeVars ELSE PopToQueued(q, M)
          /\ IF M \subseteq zset[QUEUED][q] THEN UNCHANGED <<pc, wq>>
             ELSE pc' = [pc EXCEPT ![w] = "announce"] /\ wq' = [wq EXCEPT ![w] = q]
    BY <1>2 DEF Schedule
  <2>2. M \in SUBSET Task
    BY <1>a, <1>b DEF TypeOK, StoreTypeOK
  <2>3. \A r \in Queue : Announcing(r) => Announcing(r)'
    BY <1>a, <1>2, <2>1 DEF Schedule, TypeOK, Announcing
  <2>4. \A r \in Queue : Harmless(r) \/ Announcing(r)'
    <3>1. CASE M = {}
      BY <2>1, <3>1 DEF storeVars, Harmless, Waiting, In
    <3>2. CASE M # {}
      <4>1. PopToQueued(q, M)
        BY <2>1, <3>2
      <4>2. \A r \in Queue \ {q} : Harmless(r)
        BY <1>a, <2>2, <4>1 DEF PopToQueued, Harmless, Waiting, In, TypeOK, StoreTypeOK, State,
                          QUEUED, ACTIVE, SCHEDULED, ERROR
      <4>3. CASE M \subseteq zset[QUEUED][q]
        BY <1>a, <2>2, <4>1, <4>2, <4>3 DEF PopToQueued, Harmless, Waiting, In, TypeOK, StoreTypeOK,
                          State, QUEUED, ACTIVE, SCHEDULED, ERROR
      <4>4. CASE ~(M \subseteq zset[QUEUED][q])
        BY <1>a, <2>1, <4>2, <4>4 DEF Announcing, TypeOK
      <4> QED BY <4>3, <4>4
    <3> QED BY <3>1, <3>2
  <2> QED BY <1>a, <1>2, <1>d, <2>1, <2>3, <2>4 DEF Schedule, TypeOK
<1>3. ASSUME Announce(w) PROVE Kept'
  <2>1. UNCHANGED zset /\ QUEUED \in State /\ wq[w] \in Queue
    BY <1>a, <1>b, <1>3 DEF Announce, storeVars, TypeOK
  <2>2. \A r \in Queue : r = wq[w] => Aware(w, r)'
    BY <1>a, <1>3, <2>1 DEF Announce, Publish, Aware, TypeOK, Gone
  <2>3. \A r \in Queue \ {wq[w]} : Announcing(r) => Announcing(r)'
    BY <1>a, <1>3 DEF Announce, Announcing, TypeOK
  <2>4. \A v \in Worker, r \in Queue : Aware(v, r) => Aware(v, r)'
    BY <1>a, <1>3 DEF Announce, Publish, Aware, TypeOK, Gone
  <2>5. \A v \in Worker : pc[v] = "off" => pc'[v] = "off"
    BY <1>a, <1>3 DEF Announce, TypeOK
  <2>6. /\ putoff' = putoff \ {wq[w]} /\ unsaid' = unsaid \ {wq[w]}
        /\ cancelled' = cancelled \ {wq[w]}
    BY <1>3 DEF Announce, Publish
  <2>7. \A r \in Queue : Waiting(r) => Waiting(r)'
    BY <2>1 DEF Waiting, In
  <2>8. PutOffKept'
    BY <1>a, <2>3, <2>6, <2>7 DEF Kept, PutOffKept, TypeOK
  <2>9. Restarting => Remembered'
    BY <1>a, <2>1, <2>2, <2>3, <2>4, <2>5, <2>6, <2>7 DEF Kept, Remembered
  <2> QED BY <1>c, <2>8, <2>9 DEF Kept
<1>4. ASSUME NEW q \in Queue, NEW t \in Task, Expire(w, q, t) PROVE Kept'
  <2>1. CASE MoveTask(q, t, ACTIVE, QUEUED) /\ Publish(q)
    <3>1. \A r \in Queue \ {q} : Harmless(r)
      BY <1>a, <1>b, <2>1, MoveHarmless
    <3> QED BY <1>a, <1>4, <2>1, <3>1, KeptPublish DEF Expire
  <2>2. CASE MoveTask(q, t, ACTIVE, ERROR) /\ UNCHANGED <<inbox, ghosts>>
    <3>1. \A r \in Queue : Harmless(r)
      BY <1>a, <1>b, <2>2, MoveHarmless
    <3> QED BY <1>a, <1>4, <2>2, <3>1, KeptQuiet DEF Expire
  <2> QED BY <1>4, <2>1, <2>2 DEF Expire
<1> QED BY <1>1, <1>2, <1>3, <1>4

(* No queue with queued tasks is forgotten: a worker knows of it, or will   *)
(* scan, or is about to announce it, or has what was put off to schedule.   *)
(* The exceptions are what a client cancelled after it was put off and,     *)
(* where dead workers are not started again, a message lost with its        *)
(* worker; both end when the queue is published again.                      *)
THEOREM QueuesRemembered == Spec => []SomebodyKnows
<1>1. Init => Kept
  BY DEF Init, StoreInit, Kept, PutOffKept, NobodyDead, Remembered, State, QUEUED
<1>2. StoreInv /\ Kept /\ [Next]_vars => Kept'
  <2> SUFFICES ASSUME KnowInv, [Next]_vars PROVE Kept'
    BY DEF KnowInv
  <2>1. CASE Client
    BY <2>1, KeptClient
  <2>2. ASSUME NEW w \in Worker, Loop(w) \/ Crash(w) PROVE Kept'
    BY <2>2, KeptLocal, KeptPop, KeptStore DEF Loop, Advance
  <2>3. CASE UNCHANGED vars
    <3>1. \A q \in Queue : Harmless(q)
      BY <2>3 DEF vars, storeVars, Harmless, Waiting, In
    <3> QED BY <2>3, <3>1, KeptQuiet DEF vars, loopVars, KnowInv, StoreInv
  <2> QED BY <2>1, <2>2, <2>3 DEF Next
<1>3. TypeOK /\ Announced /\ Kept => SomebodyKnows
  <2> SUFFICES ASSUME TypeOK, Announced, Kept, NEW q \in Queue, zset[QUEUED][q] # {}
               PROVE  ComesBack(q) \/ q \in cancelled \/ (q \in unsaid /\ ~Restarting)
    BY DEF SomebodyKnows
  <2>1. CASE Restarting
    BY <2>1 DEF Kept, NobodyDead, Remembered, ComesBack
  <2>2. CASE ~Restarting
    <3>1. CASE q \in putoff
      BY <2>2, <3>1 DEF Kept, PutOffKept, ComesBack
    <3>2. CASE \A w \in Worker : pc[w] \notin Gone => Aware(w, q)
      BY <3>2 DEF ComesBack, Gone, TypeOK, PC
    <3> QED BY <2>2, <3>1, <3>2 DEF Announced, ComesBack
  <2> QED BY <2>1, <2>2
<1> QED BY <1>1, <1>2, <1>3, AnnouncedInductive, PTL DEF Spec, StoreInv
=============================================================================
