------------------------------ MODULE WorkerLoop ------------------------------
(****************************************************************************)
(* How workers learn which queues have tasks (Worker.run, _worker_run and   *)
(* what they call).  A worker keeps a set of queues; it reads the index of  *)
(* the queued state once, when it starts, and from then on only listens to  *)
(* the activity channel, adds the queues announced there and drops those    *)
(* from which nothing was moved.  A polling worker reads the index in every *)
(* round instead.  The queues themselves are those of TaskStore.            *)
(*                                                                          *)
(* What happens to one task within a batch, its locks and its heartbeats    *)
(* are the subject of TaskQueues; here a task of the batch is finished in   *)
(* one step, and an entry expires only when its worker is gone.  Every      *)
(* worker serves every queue, and no queue limits its workers (that limit   *)
(* is the subject of QueueSemaphore).                                       *)
(****************************************************************************)
EXTENDS TaskStore

CONSTANTS
  Worker,
  Unique,      \* tasks whose ID is a hash of function and arguments
  BatchSize,   \* _get_queue_batch_size
  Polling,     \* the workers with POLL_TASK_QUEUES_INTERVAL > 0
  MayCrash,    \* the workers that may crash
  Restarting   \* a supervisor starts another worker in place of a crashed one

ASSUME LoopConstantsOK ==
  /\ IsFiniteSet(Task) /\ Task # {} /\ Queue # {}
  /\ Unique \subseteq Task /\ MayCrash \subseteq Worker
  /\ BatchSize \in Nat \ {0}
  /\ Polling \subseteq Worker /\ Restarting \in BOOLEAN

VARIABLES
  pc,      \* pc[w]: where worker w is
  known,   \* known[w]: _queue_set
  inbox,   \* inbox[w]: queues in messages that w has not read yet
  todo,    \* todo[w]: the queues left in the loop w is in
  wq,      \* wq[w]: the queue of w's batch, or the one w will announce
  batch,   \* batch[w]: the tasks of w's batch that are not finished
  unsaid,  \* ghost: queues whose last announcement died with its worker
  putoff,  \* ghost: queues of which all that a worker popped was put off
  cancelled \* ghost: those of them of which a client cancelled a unique task

\* What the ghosts tell of a queue holds until the queue is published again.
ghosts == <<unsaid, putoff, cancelled>>

loopVars == <<pc, known, inbox, todo, wq, batch, ghosts>>
vars == <<storeVars, loopVars>>

\* "off": not running yet, or to be restarted.  "dead": gone for good.
Gone == {"off", "dead"}
PC == {"start", "listen", "run", "work", "maintain", "announce"} \cup Gone

TypeOK ==
  /\ StoreTypeOK
  /\ pc \in [Worker -> PC]
  /\ known \in [Worker -> SUBSET Queue]
  /\ inbox \in [Worker -> SUBSET Queue]
  /\ todo \in [Worker -> SUBSET Queue]
  /\ wq \in [Worker -> Queue]
  /\ batch \in [Worker -> SUBSET Task]
  /\ unsaid \subseteq Queue /\ putoff \subseteq Queue /\ cancelled \subseteq Queue

Nothing == [w \in Worker |-> {}]

Init ==
  /\ StoreInit
  /\ pc = [w \in Worker |-> "off"]
  /\ known = Nothing /\ inbox = Nothing /\ todo = Nothing /\ batch = Nothing
  /\ wq = [w \in Worker |-> CHOOSE q \in Queue : TRUE]
  /\ unsaid = {} /\ putoff = {} /\ cancelled = {}

-----------------------------------------------------------------------------
(* The activity channel: a message reaches the workers that are subscribed, *)
(* and only those.                                                          *)

Publish(q) ==
  /\ inbox' = [w \in Worker |-> IF w \in Polling \/ pc[w] \in Gone
                                THEN inbox[w] ELSE inbox[w] \cup {q}]
  /\ unsaid' = unsaid \ {q}
  /\ putoff' = putoff \ {q}
  /\ cancelled' = cancelled \ {q}

-----------------------------------------------------------------------------
(* Clients.  Whatever puts a task into the queued state publishes the queue *)
(* in the same transaction.                                                 *)

Known(t) == \/ \E s \in State, q \in Queue : In(s, q, t)
            \/ \E w \in Worker : t \in batch[w]

\* Task.delay; a task that is not unique gets an ID of its own.
Delay(q, t, s) ==
  /\ t \in Unique \/ ~Known(t)
  /\ AddTask(q, t, s)
  /\ IF s = QUEUED THEN Publish(q) ELSE UNCHANGED <<inbox, ghosts>>
  /\ UNCHANGED <<pc, known, todo, wq, batch>>

Retry(q, t) ==
  /\ MoveTask(q, t, ERROR, QUEUED)
  /\ Publish(q)
  /\ UNCHANGED <<pc, known, todo, wq, batch>>

Cancel(q, t) ==
  /\ RemoveTask(q, t, SCHEDULED, t \in Unique)
  /\ cancelled' = IF t \in Unique /\ q \in putoff THEN cancelled \cup {q} ELSE cancelled
  /\ UNCHANGED <<pc, known, inbox, todo, wq, batch, unsaid, putoff>>

Delete(q, t) == RemoveTask(q, t, ERROR, t \in Unique) /\ UNCHANGED loopVars

-----------------------------------------------------------------------------
(* The start of a worker, and its listening.                                *)

\* pubsub.subscribe
Subscribe(w) ==
  /\ pc[w] = "off"
  /\ pc' = [pc EXCEPT ![w] = "start"]
  /\ UNCHANGED <<storeVars, known, inbox, todo, wq, batch, ghosts>>

\* _refresh_queue_set
FirstScan(w) ==
  /\ pc[w] = "start"
  /\ known' = [known EXCEPT ![w] = index[QUEUED]]
  /\ pc' = [pc EXCEPT ![w] = "listen"]
  /\ UNCHANGED <<storeVars, inbox, todo, wq, batch, ghosts>>

\* _process_queue_message
Receive(w, q) ==
  /\ pc[w] = "listen" /\ q \in inbox[w]
  /\ inbox' = [inbox EXCEPT ![w] = @ \ {q}]
  /\ known' = [known EXCEPT ![w] = @ \cup {q}]
  /\ UNCHANGED <<storeVars, pc, todo, wq, batch, ghosts>>

\* _poll_for_queues, if the worker polls.
Refreshed(w) == IF w \in Polling THEN index[QUEUED] ELSE known[w]

(* The time to listen is over, or there was work in the last round: the     *)
(* messages that are still on their way are left for the next round.        *)
StartRun(w) ==
  /\ pc[w] = "listen"
  /\ known' = [known EXCEPT ![w] = Refreshed(w)]
  /\ todo' = [todo EXCEPT ![w] = Refreshed(w)]
  /\ pc' = [pc EXCEPT ![w] = "run"]
  /\ UNCHANGED <<storeVars, inbox, wq, batch, ghosts>>

-----------------------------------------------------------------------------
(* The queues of one round.                                                 *)

\* Mutant: the queue is dropped when something was moved, too.
DropAlways(w, q, moved) == known[w] \ {q}

\* The queue set after a visit to q that moved the tasks of the set moved.
Remaining(w, q, moved) == IF moved = {} THEN known[w] \ {q} ELSE known[w]

\* zpoppush; tasks that are active already go to the scheduled set.
Pop(w, q) ==
  /\ pc[w] = "run" /\ q \in todo[w]
  /\ todo' = [todo EXCEPT ![w] = @ \ {q}]
  /\ \E M \in SUBSET zset[QUEUED][q] :
       /\ Batch(M, zset[QUEUED][q], BatchSize)
       /\ IF M = {} THEN UNCHANGED storeVars ELSE PopToActive(q, M)
       /\ LET moved == PopMoved(q, M)
          IN  /\ known' = [known EXCEPT ![w] = Remaining(w, q, moved)]
              /\ batch' = [batch EXCEPT ![w] = moved]
              /\ pc' = [pc EXCEPT ![w] = IF moved = {} THEN "run" ELSE "work"]
              /\ putoff' = IF moved = {} /\ M # {} THEN putoff \cup {q} ELSE putoff
  /\ wq' = [wq EXCEPT ![w] = q]
  /\ UNCHANGED <<inbox, unsaid, cancelled>>

\* A task of the batch is done, scheduled for a retry, or failed.
Finish(w, t) ==
  /\ pc[w] = "work" /\ t \in batch[w]
  /\ \/ RemoveTask(wq[w], t, ACTIVE, t \in Unique)
     \/ \E s \in {SCHEDULED, ERROR} : MoveTask(wq[w], t, ACTIVE, s)
  /\ batch' = [batch EXCEPT ![w] = @ \ {t}]
  /\ pc' = [pc EXCEPT ![w] = IF batch[w] = {t} THEN "run" ELSE "work"]
  /\ UNCHANGED <<known, inbox, todo, wq, ghosts>>

-----------------------------------------------------------------------------
(* Maintenance, at most once per SELECT_TIMEOUT.                            *)

\* If another worker has queued scheduled tasks just now, the loop is empty.
StartMaintenance(w) ==
  /\ pc[w] = "run" /\ todo[w] = {}
  /\ \E Q \in {index[SCHEDULED], {}} : todo' = [todo EXCEPT ![w] = Q]
  /\ pc' = [pc EXCEPT ![w] = "maintain"]
  /\ UNCHANGED <<storeVars, known, inbox, wq, batch, ghosts>>

(* Queue the due tasks of q: any part of what is scheduled, or nothing.  The *)
(* queue is announced, in a round trip of its own, if the script returns a  *)
(* task: it does not return those that were queued already.                 *)
Schedule(w, q) ==
  /\ pc[w] = "maintain" /\ q \in todo[w]
  /\ todo' = [todo EXCEPT ![w] = @ \ {q}]
  /\ \E M \in SUBSET zset[SCHEDULED][q] :
       /\ IF M = {} THEN UNCHANGED storeVars ELSE PopToQueued(q, M)
       /\ IF M \subseteq zset[QUEUED][q]
          THEN UNCHANGED <<pc, wq>>
          ELSE /\ pc' = [pc EXCEPT ![w] = "announce"]
               /\ wq' = [wq EXCEPT ![w] = q]
  /\ UNCHANGED <<known, inbox, batch, ghosts>>

\* Mutant: queued scheduled tasks are not announced.
AnnounceNothing(w) ==
  /\ pc[w] = "announce"
  /\ pc' = [pc EXCEPT ![w] = "maintain"]
  /\ UNCHANGED <<storeVars, known, inbox, todo, wq, batch, ghosts>>

Announce(w) ==
  /\ pc[w] = "announce"
  /\ Publish(wq[w])
  /\ pc' = [pc EXCEPT ![w] = "maintain"]
  /\ UNCHANGED <<storeVars, known, todo, wq, batch>>

\* An entry that nobody renews is requeued, and published, or fails.
Expire(w, q, t) ==
  /\ pc[w] = "maintain" /\ todo[w] = {}
  /\ \A v \in Worker : wq[v] = q => t \notin batch[v]
  /\ \/ MoveTask(q, t, ACTIVE, QUEUED) /\ Publish(q)
     \/ MoveTask(q, t, ACTIVE, ERROR) /\ UNCHANGED <<inbox, ghosts>>
  /\ UNCHANGED <<pc, known, todo, wq, batch>>

EndRun(w) ==
  /\ pc[w] \in {"run", "maintain"} /\ todo[w] = {}
  /\ pc' = [pc EXCEPT ![w] = "listen"]
  /\ UNCHANGED <<storeVars, known, inbox, todo, wq, batch, ghosts>>

\* The process ends, and its subscription with it.
Crash(w) ==
  /\ w \in MayCrash /\ pc[w] \notin Gone
  /\ pc' = [pc EXCEPT ![w] = IF Restarting THEN "off" ELSE "dead"]
  /\ known' = [known EXCEPT ![w] = {}]
  /\ inbox' = [inbox EXCEPT ![w] = {}]
  /\ todo' = [todo EXCEPT ![w] = {}]
  /\ batch' = [batch EXCEPT ![w] = {}]
  /\ unsaid' = IF pc[w] = "announce" THEN unsaid \cup {wq[w]} ELSE unsaid
  /\ UNCHANGED <<storeVars, wq, putoff, cancelled>>

-----------------------------------------------------------------------------
Client ==
  \/ \E t \in Task, q \in Queue, s \in {QUEUED, SCHEDULED} : Delay(q, t, s)
  \/ \E t \in Task, q \in Queue : Retry(q, t) \/ Cancel(q, t) \/ Delete(q, t)

\* The rounds of w.
Advance(w) ==
  \/ Subscribe(w) \/ FirstScan(w) \/ StartRun(w) \/ StartMaintenance(w)
  \/ \E q \in Queue : Pop(w, q) \/ Schedule(w, q)
  \/ \E t \in Task : Finish(w, t)
  \/ Announce(w) \/ EndRun(w)

Loop(w) ==
  \/ Advance(w)
  \/ \E q \in Queue : Receive(w, q)
  \/ \E q \in Queue, t \in Task : Expire(w, q, t)

Next ==
  \/ Client
  \/ \E w \in Worker : Loop(w) \/ Crash(w)

Spec == Init /\ [][Next]_vars

(* A worker goes on with its rounds, and in some of them it reads its       *)
(* messages.  Once in a while some worker is the one that looks for due     *)
(* tasks, each unique task that is scheduled becomes due and is queued, and *)
(* an entry that is left behind expires.  Workers do not crash for ever.    *)
(* Nothing is assumed of clients.                                           *)
FairSpec ==
  /\ Spec
  /\ \A w \in Worker :
       /\ WF_vars(Advance(w))
       /\ \A q \in Queue : SF_vars(Receive(w, q))
  /\ SF_vars(\E w \in Worker : StartMaintenance(w) /\ todo'[w] = index[SCHEDULED])
  /\ \A q \in Queue, t \in Unique :
       SF_vars(\E w \in Worker : Schedule(w, q) /\ In(SCHEDULED, q, t) /\ ~In(SCHEDULED, q, t)')
  /\ SF_vars(\E w \in Worker, q \in Queue, t \in Task : Expire(w, q, t))
  /\ <>[][\A w \in Worker : ~Crash(w)]_vars

-----------------------------------------------------------------------------
(* Properties.                                                              *)

\* w will look at q: it is about to scan, or polls, or knows q, or has a message.
Aware(w, q) == pc[w] = "start" \/ w \in Polling \/ q \in known[w] \cup inbox[w]

\* A worker that lives is about to announce q.
Announcing(q) == \E w \in Worker : pc[w] = "announce" /\ wq[w] = q

(* Every worker hears of every task that is queued (tasktiger.py: "Channel  *)
(* that receives the queue name as a message whenever a task is queued"):   *)
(* it subscribes before it scans, drops a queue only when it is empty, and  *)
(* whatever queues a task later publishes the queue.  There are two         *)
(* exceptions, until the queue is published again: a message that was lost  *)
(* with a worker that died between moving scheduled tasks and announcing    *)
(* them, and a visit in which all that was popped was active elsewhere and  *)
(* put off: that worker drops the queue though there may be more in it.     *)
Announced ==
  \A q \in Queue : zset[QUEUED][q] # {} =>
    \/ Announcing(q) \/ q \in unsaid \/ q \in putoff
    \/ \A w \in Worker : pc[w] \notin Gone => Aware(w, q)

\* A unique task of q waits to be queued, which will announce the queue.
Waiting(q) == \E t \in Unique : In(SCHEDULED, q, t) /\ ~In(QUEUED, q, t)

(* The queues that somebody comes back to: a worker that knows of it, one   *)
(* that will scan when it is started, or one that schedules what was put    *)
(* off and announces the queue with it.                                     *)
ComesBack(q) ==
  \/ Announcing(q)
  \/ \E w \in Worker : Aware(w, q) \/ pc[w] = "off"
  \/ \A w \in Worker : pc[w] = "dead"
  \/ q \in putoff /\ Waiting(q)

(* Somebody comes back to every queue with tasks, except, until the queue   *)
(* is published again, when what was put off has been cancelled, or when    *)
(* the message was lost and nobody starts the dead worker again.            *)
SomebodyKnows ==
  \A q \in Queue : zset[QUEUED][q] # {} =>
    \/ ComesBack(q)
    \/ q \in cancelled
    \/ q \in unsaid /\ ~Restarting

(* Somebody comes back to every queue with tasks when dead workers are      *)
(* started again, as it would be if _worker_run "removes any empty queues   *)
(* from the working set" (worker.py:843-844) and no others.  It removes a   *)
(* queue also when all that it popped was put off.                          *)
NoQueueForgotten ==
  Restarting => \A q \in Queue : zset[QUEUED][q] # {} => ComesBack(q)

(* No queue with tasks is forgotten: again and again it is empty, or a      *)
(* batch of it is taken.  The exception is a queue that was dropped, and of *)
(* which what was put off has been cancelled.                               *)
QueuesAreServed ==
  \A q \in Queue :
    []<>(\/ zset[QUEUED][q] = {}
         \/ \E w \in Worker : pc[w] = "work" /\ wq[w] = q
         \/ q \in cancelled)
=============================================================================
