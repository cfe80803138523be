---------------------------- MODULE QueueSemaphore ----------------------------
(****************************************************************************)
(* The semaphore of one queue (redis_semaphore.py, lua/semaphore.lua) that  *)
(* limits how many workers process the queue at once, the workers that      *)
(* acquire it before they pop a batch, renew it with every heartbeat and    *)
(* release it afterwards, and the system lock that pauses the queue.        *)
(*                                                                          *)
(* The sorted set holds times of expiry.  Here every member has the time it *)
(* has left, and so has the key: Tick lets one unit of time pass, and the   *)
(* state space is finite without a bound on the clock.                      *)
(****************************************************************************)
EXTENDS Integers, FiniteSets, Functions

CONSTANTS
  Worker,          \* worker IDs; a restarted worker has an ID of its own
  SYSTEM_LOCK,     \* the member that set_system_lock adds
  MaxLocks,        \* max_workers_per_queue
  Timeout,         \* ACTIVE_TASK_UPDATE_TIMEOUT
  Timer,           \* ACTIVE_TASK_UPDATE_TIMER: a worker renews at least that often
  Buffer,          \* what set_system_lock adds to the key's time to live
  SystemTimeouts   \* the timeouts set_queue_system_lock is called with

Member == Worker \cup {SYSTEM_LOCK}

ASSUME SemaphoreConstantsOK ==
  /\ IsFiniteSet(Worker) /\ SYSTEM_LOCK \notin Worker
  /\ MaxLocks \in Nat \ {0}
  /\ Timeout \in Nat \ {0} /\ Timer \in Nat \ {0} /\ Buffer \in Nat \ {0}
  /\ SystemTimeouts \subseteq Nat \ {0}

VARIABLES
  left,     \* the sorted set: time until each member's score is reached
  ttl,      \* time to live of its key; 0 if the key has none
  running,  \* the workers between acquire and release
  dead,     \* the workers that crashed
  beat,     \* beat[w]: time since w's last acquisition or renewal
  paused,   \* ghost: time for which the queue is still to be paused
  lease     \* ghost: lease[w]: time until w's last successful acquisition or
            \* renewal is Timeout old

vars == <<left, ttl, running, dead, beat, paused, lease>>

TypeOK ==
  /\ DOMAIN left \subseteq Member /\ left \in [DOMAIN left -> Nat]
  /\ \A w \in Worker \cap DOMAIN left : left[w] <= Timeout
  /\ ttl \in Nat
  /\ running \subseteq Worker /\ dead \subseteq Worker
  /\ beat \in [Worker -> 0..Timer]
  /\ paused \in Nat
  /\ lease \in [Worker -> 0..Timeout]

Empty == [m \in {} |-> 0]

Init ==
  /\ left = Empty /\ ttl = 0
  /\ running = {} /\ dead = {}
  /\ beat = [w \in Worker |-> 0]
  /\ paused = 0
  /\ lease = [w \in Worker |-> 0]

-----------------------------------------------------------------------------
(* semaphore.lua.                                                           *)

\* Mutant: nothing is removed.
Unpurged == left

\* ZREMRANGEBYSCORE key 0 now: a score that equals now has expired.
Purged == Restrict(left, {m \in DOMAIN left : left[m] > 0})

Locked == SYSTEM_LOCK \in DOMAIN Purged

\* lock_count: w counts once, whether it renews or is new.
Allowed(w) == ~Locked /\ Cardinality(DOMAIN Purged \cup {w}) <= MaxLocks

With(f, m, n) == [x \in DOMAIN f \cup {m} |-> IF x = m THEN n ELSE f[x]]

\* Mutants: the expiry comes before the check for the system lock; no expiry.
ExpireAlways == ttl' = IF DOMAIN Purged = {} THEN 0 ELSE 2 * Timeout
ExpireNever == ttl' = IF Locked \/ DOMAIN Purged # {} THEN ttl ELSE 0

\* EXPIRE, unless there is a system lock; it has no effect on an empty key,
\* which the purge has deleted, and ZADD then creates it without one.
ExpireKey ==
  ttl' = IF Locked THEN ttl ELSE IF DOMAIN Purged = {} THEN 0 ELSE 2 * Timeout

\* Mutant: a renewal adds Timeout to what is left (ZINCRBY) instead of setting it.
GrantMore(w) ==
  /\ Allowed(w)
  /\ left' = With(Purged, w, Timeout + (IF w \in DOMAIN Purged THEN Purged[w] ELSE 0))
  /\ ExpireKey
  /\ lease' = [lease EXCEPT ![w] = Timeout]

Grant(w) ==
  /\ Allowed(w)
  /\ left' = With(Purged, w, Timeout)
  /\ ExpireKey
  /\ lease' = [lease EXCEPT ![w] = Timeout]

Refuse(w) ==
  /\ ~Allowed(w)
  /\ left' = Purged
  /\ ExpireKey
  /\ UNCHANGED lease

-----------------------------------------------------------------------------
(* Workers.                                                                 *)

\* Worker._get_queue_lock: no batch is popped unless the semaphore is acquired.
Acquire(w) ==
  /\ w \notin running \cup dead
  /\ \/ /\ Grant(w)
        /\ running' = running \cup {w}
        /\ beat' = [beat EXCEPT ![w] = 0]
     \/ Refuse(w) /\ UNCHANGED <<running, beat>>
  /\ UNCHANGED <<dead, paused>>

\* Executor.heartbeat: the worker goes on, renewed or not.
Renew(w) ==
  /\ w \in running
  /\ Grant(w) \/ Refuse(w)
  /\ beat' = [beat EXCEPT ![w] = 0]
  /\ UNCHANGED <<running, dead, paused>>

\* The batch is done: ZREM of w.
Release(w) ==
  /\ w \in running
  /\ running' = running \ {w}
  /\ left' = Restrict(left, DOMAIN left \ {w})
  /\ ttl' = IF DOMAIN left \subseteq {w} THEN 0 ELSE ttl
  /\ beat' = [beat EXCEPT ![w] = 0]
  /\ lease' = [lease EXCEPT ![w] = 0]
  /\ UNCHANGED <<dead, paused>>

Crash(w) ==
  /\ w \notin dead
  /\ dead' = dead \cup {w}
  /\ running' = running \ {w}
  /\ beat' = [beat EXCEPT ![w] = 0]
  /\ lease' = [lease EXCEPT ![w] = 0]
  /\ UNCHANGED <<left, ttl, paused>>

\* TaskTiger.set_queue_system_lock; a later call replaces an earlier one.
SetSystemLock(t) ==
  /\ left' = With(left, SYSTEM_LOCK, t)
  /\ ttl' = t + Buffer
  /\ paused' = t
  /\ UNCHANGED <<running, dead, beat, lease>>

Less(n) == IF n = 0 THEN 0 ELSE n - 1

\* One unit of time.  Redis deletes the key when its time to live is over.
Tick ==
  /\ \A w \in running : beat[w] < Timer
  /\ beat' = [w \in Worker |-> IF w \in running THEN beat[w] + 1 ELSE 0]
  /\ left' = IF ttl = 1 THEN Empty ELSE [m \in DOMAIN left |-> Less(left[m])]
  /\ ttl' = Less(ttl)
  /\ paused' = Less(paused)
  /\ lease' = [w \in Worker |-> Less(lease[w])]
  /\ UNCHANGED <<running, dead>>

Next ==
  \/ \E w \in Worker : Acquire(w) \/ Renew(w) \/ Release(w) \/ Crash(w)
  \/ \E t \in SystemTimeouts : SetSystemLock(t)
  \/ Tick

Spec == Init /\ [][Next]_vars

(* Every worker that lives comes back to the queue, every batch ends and    *)
(* time passes; system locks are not set for ever.                          *)
FairSpec ==
  /\ Spec
  /\ \A w \in Worker : WF_vars(Acquire(w)) /\ WF_vars(Release(w))
  /\ WF_vars(Tick)
  /\ <>[][~\E t \in SystemTimeouts : SetSystemLock(t)]_vars

-----------------------------------------------------------------------------
(* Properties.                                                              *)

(* No more workers than max_workers_per_queue process the queue at once:    *)
(* a worker keeps its lock for as long as its batch takes.                  *)
WorkersLimited == Cardinality(running) <= MaxLocks

(* The same for the workers that acquired or renewed the semaphore less     *)
(* than Timeout ago, even if system locks come and go: none of their locks  *)
(* is lost with the key, whose time to live set_system_lock changes.        *)
LeasesRespected == Cardinality({w \in running : lease[w] > 0}) <= MaxLocks

(* No worker starts on the queue before the timeout of the last system lock *)
(* is over, whatever the acquisitions and renewals of others do to the time *)
(* to live of the key.                                                      *)
PauseRespected ==
  [][\A w \in running' \ running : paused = 0]_vars

(* The locks of crashed workers, and a system lock, keep the others from    *)
(* the queue only for a while: it is processed again and again as long as a *)
(* worker lives.                                                            *)
QueueProceeds == []<>(running # {} \/ dead = Worker)
=============================================================================
