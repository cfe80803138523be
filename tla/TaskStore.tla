------------------------------ MODULE TaskStore ------------------------------
(****************************************************************************)
(* The part of the Redis keyspace that TaskTiger's clients and workers      *)
(* share, and the Lua scripts and MULTI pipelines that change it.  Redis    *)
(* runs each of them in one step, so each is one operator here: a guard on  *)
(* the keyspace and the next values of its keys.                            *)
(*                                                                          *)
(*   zset[s][q]   the members of the sorted set  <prefix>:<s>:<q>           *)
(*   stale[q]     the members of <prefix>:active:<q> whose score (time of   *)
(*                the last heartbeat) is older than                         *)
(*                ACTIVE_TASK_UPDATE_TIMEOUT; the other scores are          *)
(*                abstracted away                                           *)
(*   index[s]     the set <prefix>:<s> of the queues that have tasks in s   *)
(*   object       the tasks whose key <prefix>:task:<id> exists             *)
(*   executions   the tasks whose keys <prefix>:task:<id>:executions and    *)
(*                ..:executions_count exist                                 *)
(****************************************************************************)
EXTENDS Integers, FiniteSets

CONSTANTS Task, Queue

QUEUED == "queued"
ACTIVE == "active"
SCHEDULED == "scheduled"
ERROR == "error"

State == {QUEUED, ACTIVE, SCHEDULED, ERROR}

VARIABLES zset, stale, index, object, executions

storeVars == <<zset, stale, index, object, executions>>

StoreTypeOK ==
  /\ zset \in [State -> [Queue -> SUBSET Task]]
  /\ stale \in [Queue -> SUBSET Task]
  /\ index \in [State -> SUBSET Queue]
  /\ object \subseteq Task
  /\ executions \subseteq Task

StoreInit ==
  /\ zset = [s \in State |-> [q \in Queue |-> {}]]
  /\ stale = [q \in Queue |-> {}]
  /\ index = [s \in State |-> {}]
  /\ object = {}
  /\ executions = {}

\* t is in the sorted set of state s of queue q.
In(s, q, t) == t \in zset[s][q]

\* The states, other than those in S, in which queue q holds t.
HeldOutside(S, q, t) == \E s \in State \ S : In(s, q, t)

-----------------------------------------------------------------------------
(* Helpers of the scripts.  The definitions marked "Mutant" are used by     *)
(* nothing: each is what the definition after it would be with a bug, and a *)
(* property of some run must notice the exchange.                           *)

\* Mutant: srem although the sorted set is not empty.
SRemAlways(s, q, left) == index[s] \ {q}

\* Mutant: no srem at all.
SRemNever(s, q, left) == index[s]

\* The index of state s after queue q's sorted set of s became the set left.
SRemIfNotExists(s, q, left) ==
  IF left = {} THEN index[s] \ {q} ELSE index[s]

\* The entries of S leave the active set of queue q: their scores go too.
Unstale(q, S) == [stale EXCEPT ![q] = @ \ S]

-----------------------------------------------------------------------------
(* move_task.lua with a to_state: the assertion that the task is where the  *)
(* caller says, zadd and sadd at the destination, zrem and conditional srem *)
(* at the source.  The message it publishes only wakes workers up, which    *)
(* here may look at any queue at any time.                                  *)

\* Mutant: no zrem at the source.
CopyTask(q, t, from, to) ==
  /\ In(from, q, t)
  /\ zset' = [zset EXCEPT ![to][q] = @ \cup {t}]
  /\ index' = [index EXCEPT ![to] = @ \cup {q}]
  /\ UNCHANGED <<stale, object, executions>>

MoveTask(q, t, from, to) ==
  /\ In(from, q, t)
  /\ zset' = [zset EXCEPT ![from][q] = @ \ {t}, ![to][q] = @ \cup {t}]
  /\ index' = [index EXCEPT ![from] = SRemIfNotExists(from, q, zset[from][q] \ {t}),
                            ![to] = @ \cup {q}]
  /\ stale' = IF from = ACTIVE THEN Unstale(q, {t}) ELSE stale
  /\ UNCHANGED <<object, executions>>

(* move_task.lua without a to_state.  The executions of a unique task stay  *)
(* while the task is in the error set (unless it is being removed from      *)
(* there) and its object stays while another set of this queue holds it.    *)
(* A task that is not unique is deleted in any case.                        *)

\* Mutant: the executions go with the task, wherever else it is.
ForgetExecutions(q, t, from, unique) == executions \ {t}

KeepExecutions(q, t, from, unique) ==
  IF unique /\ from # ERROR /\ In(ERROR, q, t) THEN executions ELSE executions \ {t}

\* Mutants: the object of a unique task goes, or stays, unconditionally.
ForgetObject(q, t, from, unique) == object \ {t}
LeaveObject(q, t, from, unique) == IF unique THEN object ELSE object \ {t}

KeepObject(q, t, from, unique) ==
  IF unique /\ HeldOutside({from}, q, t) THEN object ELSE object \ {t}

RemoveTask(q, t, from, unique) ==
  /\ In(from, q, t)
  /\ zset' = [zset EXCEPT ![from][q] = @ \ {t}]
  /\ index' = [index EXCEPT ![from] = SRemIfNotExists(from, q, zset[from][q] \ {t})]
  /\ stale' = IF from = ACTIVE THEN Unstale(q, {t}) ELSE stale
  /\ executions' = KeepExecutions(q, t, from, unique)
  /\ object' = KeepObject(q, t, from, unique)

-----------------------------------------------------------------------------
(* ZPOPPUSH.  M is the batch it takes from the source.                      *)

\* M can be the members that a limit of n leaves of the set S.
Batch(M, S, n) ==
  /\ M \subseteq S
  /\ Cardinality(M) = IF Cardinality(S) <= n THEN Cardinality(S) ELSE n

(* queued -> active, if_exists = ("add", scheduled, later, "min"): members  *)
(* that are active already go to the scheduled set instead.                 *)
\* Mutant: no look at the active set.
PopAll(q, M) == M
PopMoved(q, M) == M \ zset[ACTIVE][q]
\* Mutant: members that are active are dropped.
PopNone(q, M) == {}
PopDeferred(q, M) == M \cap zset[ACTIVE][q]

PopToActive(q, M) ==
  /\ M # {}
  /\ zset' = [zset EXCEPT ![QUEUED][q] = @ \ M,
                          ![ACTIVE][q] = @ \cup PopMoved(q, M),
                          ![SCHEDULED][q] = @ \cup PopDeferred(q, M)]
  /\ index' = [index EXCEPT
       ![QUEUED] = SRemIfNotExists(QUEUED, q, zset[QUEUED][q] \ M),
       ![ACTIVE] = @ \cup {q},
       ![SCHEDULED] = IF zset[SCHEDULED][q] \cup PopDeferred(q, M) # {}
                      THEN @ \cup {q} ELSE @]
  /\ UNCHANGED <<stale, object, executions>>

(* scheduled -> queued, if_exists = ("noupdate",): a member that is queued  *)
(* already stays as it is.                                                  *)
PopToQueued(q, M) ==
  /\ M # {}
  /\ zset' = [zset EXCEPT ![SCHEDULED][q] = @ \ M, ![QUEUED][q] = @ \cup M]
  /\ index' = [index EXCEPT
       ![SCHEDULED] = SRemIfNotExists(SCHEDULED, q, zset[SCHEDULED][q] \ M),
       ![QUEUED] = @ \cup {q}]
  /\ UNCHANGED <<stale, object, executions>>

-----------------------------------------------------------------------------
(* The MULTI pipeline of Task.delay: sadd, set, zadd nx.                    *)

\* Mutant: zadd and sadd with each other's argument.
AddQueue(q, t, s) ==
  /\ zset' = [zset EXCEPT ![s][q] = @ \cup {q}]
  /\ index' = [index EXCEPT ![s] = @ \cup {t}]
  /\ object' = object \cup {t}
  /\ UNCHANGED <<stale, executions>>

AddTask(q, t, s) ==
  /\ zset' = [zset EXCEPT ![s][q] = @ \cup {t}]
  /\ index' = [index EXCEPT ![s] = @ \cup {q}]
  /\ object' = object \cup {t}
  /\ UNCHANGED <<stale, executions>>

(* Worker.heartbeat: a plain zadd of the current time to the active set,    *)
(* which creates the entries that are missing; the index is not touched.    *)

TouchActive(q, S) ==
  /\ zset' = [zset EXCEPT ![ACTIVE][q] = @ \cup S]
  /\ stale' = Unstale(q, S)
  /\ UNCHANGED <<index, object, executions>>

(* get_expired_tasks: it walks the active queues in the order SMEMBERS      *)
(* gives them and takes stale entries until it has n, so at most one queue  *)
(* is taken in part.  ExpiredBatch(E, n): E can be its answer.              *)

\* Mutants: the scores are not compared; the queues come from another index.
ActiveEntries == {e \in Queue \X Task : e[1] \in index[ACTIVE] /\ In(ACTIVE, e[1], e[2])}
QueuedStaleEntries == {e \in Queue \X Task : e[1] \in index[QUEUED] /\ e[2] \in stale[e[1]]}

StaleEntries == {e \in Queue \X Task : e[1] \in index[ACTIVE] /\ e[2] \in stale[e[1]]}

TakenOf(E, q) == {e[2] : e \in {x \in E : x[1] = q}}

ExpiredBatch(E, n) ==
  /\ Batch(E, StaleEntries, n)
  /\ \A q, r \in Queue :
       /\ TakenOf(E, q) # {} /\ TakenOf(E, q) # stale[q]
       /\ TakenOf(E, r) # {} /\ TakenOf(E, r) # stale[r]
       => q = r

(* Time passes for an active entry that got no heartbeat.                   *)
GrowStale(q, t) ==
  /\ In(ACTIVE, q, t) /\ t \notin stale[q]
  /\ stale' = [stale EXCEPT ![q] = @ \cup {t}]
  /\ UNCHANGED <<zset, index, object, executions>>
=============================================================================
