-------------------------- MODULE QueueSemaphoreProofs --------------------------
(****************************************************************************)
(* Proofs about the semaphore of a queue, for any workers, any limit, any   *)
(* timeouts, and any system locks that come and go.                         *)
(****************************************************************************)
EXTENDS QueueSemaphore, FiniteSetTheorems, TLAPS

-----------------------------------------------------------------------------
(* The inductive invariant.                                                 *)

\* A worker whose lease runs is in the sorted set for at least as long.
LeasesHeld ==
  \A w \in running : lease[w] > 0 => w \in DOMAIN left /\ left[w] >= lease[w]

\* The key outlives a system lock.
LockOutlived == Locked => ttl >= left[SYSTEM_LOCK] + Buffer

\* And without one it outlives each lease, or was left by a system lock that a
\* worker that is running has not seen the end of yet: it has Buffer to do so.
KeyOutlived ==
  ~Locked /\ ttl # 0 => \A w \in running : lease[w] <= ttl \/ ttl + beat[w] > Buffer

\* A pause is a system lock.
PauseHeld == paused > 0 => Locked /\ left[SYSTEM_LOCK] >= paused

\* What a pause rests on, and what leases need besides.
PauseInv == TypeOK /\ LockOutlived /\ PauseHeld
LeaseInv == LeasesHeld /\ KeyOutlived

\* The time for which set_system_lock keeps the key after the lock is enough for
\* every running worker to renew in, and to set the key's time to live anew.
BufferCovers == Timer <= Buffer

-----------------------------------------------------------------------------
(* The script.                                                              *)

\* The purge keeps exactly what has time left.
LEMMA PurgedKeeps ==
  /\ DOMAIN Purged = {m \in DOMAIN left : left[m] > 0}
  /\ \A m \in DOMAIN Purged : Purged[m] = left[m]
  /\ Locked <=> SYSTEM_LOCK \in DOMAIN left /\ left[SYSTEM_LOCK] > 0
BY DEF Purged, Restrict, Locked

\* Whatever the script answers: no lease is cut short, a system lock stays with its
\* key, and without one the key gets a time to live beyond every lease, or none.
LEMMA ScriptKeeps ==
  ASSUME TypeOK, NEW w \in Worker, Grant(w) \/ Refuse(w)
  PROVE  /\ DOMAIN left' \subseteq Member /\ left' \in [DOMAIN left' -> Nat]
         /\ \A v \in Worker \cap DOMAIN left' : left'[v] <= Timeout
         /\ ttl' \in Nat /\ lease' \in [Worker -> 0..Timeout]
         /\ Locked' <=> Locked
         /\ Locked => ttl' = ttl /\ left'[SYSTEM_LOCK] = left[SYSTEM_LOCK]
         /\ ~Locked => ttl' = 0 \/ ttl' = 2 * Timeout
         /\ \A v \in Worker :
              /\ v # w => lease'[v] = lease[v]
              /\ \/ lease'[v] = lease[v] /\ (left[v] > 0 /\ v \in DOMAIN left =>
                                               v \in DOMAIN left' /\ left'[v] = left[v])
                 \/ lease'[v] = Timeout /\ v \in DOMAIN left' /\ left'[v] = Timeout
<1>1. DOMAIN Purged \subseteq Member /\ Purged \in [DOMAIN Purged -> Nat]
  BY PurgedKeeps DEF TypeOK, Purged, Restrict
<1>2. ttl' \in Nat /\ (Locked => ttl' = ttl) /\ (~Locked => ttl' = 0 \/ ttl' = 2 * Timeout)
  BY SemaphoreConstantsOK DEF Grant, Refuse, ExpireKey, TypeOK
<1>3. CASE Grant(w)
  <2>1. /\ left' = [x \in DOMAIN Purged \cup {w} |-> IF x = w THEN Timeout ELSE Purged[x]]
        /\ lease' = [lease EXCEPT ![w] = Timeout] /\ ~Locked
    BY <1>3 DEF Grant, With, Allowed
  <2>2. DOMAIN left' = DOMAIN Purged \cup {w}
    BY <2>1
  <2>3. DOMAIN left' \subseteq Member /\ left' \in [DOMAIN left' -> Nat]
    BY <1>1, <2>1, <2>2, SemaphoreConstantsOK DEF Member
  <2>4. lease' \in [Worker -> 0..Timeout]
    BY <2>1, SemaphoreConstantsOK DEF TypeOK
  <2>5. SYSTEM_LOCK \notin DOMAIN left'
    BY <2>1, <2>2, SemaphoreConstantsOK DEF Locked
  <2>6. ~Locked'
    BY <2>5 DEF Locked, Purged, Restrict
  <2>7. ASSUME NEW v \in Worker, v \in DOMAIN left' PROVE left'[v] <= Timeout
    BY <2>1, <2>2, <2>7, PurgedKeeps, SemaphoreConstantsOK DEF TypeOK
  <2>8. ASSUME NEW v \in Worker
        PROVE  /\ v # w => lease'[v] = lease[v]
               /\ \/ lease'[v] = lease[v] /\ (left[v] > 0 /\ v \in DOMAIN left =>
                                                v \in DOMAIN left' /\ left'[v] = left[v])
                  \/ lease'[v] = Timeout /\ v \in DOMAIN left' /\ left'[v] = Timeout
    <3>1. CASE v = w
      BY <2>1, <3>1 DEF TypeOK
    <3>2. CASE v # w
      BY <2>1, <2>2, <3>2, PurgedKeeps DEF TypeOK
    <3> QED BY <3>1, <3>2
  <2> QED BY <1>2, <2>1, <2>3, <2>4, <2>6, <2>7, <2>8
<1>4. CASE Refuse(w)
  <2>1. left' = Purged /\ lease' = lease
    BY <1>4 DEF Refuse
  <2>2. DOMAIN left' = {m \in DOMAIN left : left[m] > 0} /\ \A m \in DOMAIN left' : left'[m] = left[m]
    BY <2>1, PurgedKeeps
  <2>3. Locked' <=> Locked
    <3>1. Locked <=> SYSTEM_LOCK \in DOMAIN left'
      BY <2>1 DEF Locked
    <3>2. DOMAIN Purged' = {m \in DOMAIN left' : left'[m] > 0}
      BY DEF Purged, Restrict
    <3>3. DOMAIN Purged' = DOMAIN left'
      BY <2>2, <3>2
    <3> QED BY <3>1, <3>3 DEF Locked
  <2>4. Locked => left'[SYSTEM_LOCK] = left[SYSTEM_LOCK]
    BY <2>1, <2>2 DEF Locked
  <2>5. \A v \in Worker \cap DOMAIN left' : left'[v] <= Timeout
    BY <2>2 DEF TypeOK
  <2> QED BY <1>1, <1>2, <2>1, <2>2, <2>3, <2>4, <2>5 DEF TypeOK
<1> QED BY <1>3, <1>4

-----------------------------------------------------------------------------
(* The invariant is inductive.                                              *)

\* Nobody holds or pauses anything at the start.
LEMMA SemInit == Init => PauseInv /\ LeaseInv
BY SemaphoreConstantsOK
   DEF Init, Empty, PauseInv, LeaseInv, TypeOK, LeasesHeld, LockOutlived, KeyOutlived, PauseHeld,
       Locked, Purged, Restrict

\* A worker acquires the semaphore, renews it or is refused.
LEMMA ScriptStep ==
  ASSUME PauseInv, NEW w \in Worker, Acquire(w) \/ Renew(w)
  PROVE  PauseInv' /\ (LeaseInv => LeaseInv')
<1> TypeOK
  BY DEF PauseInv
<1>1. /\ Grant(w) \/ Refuse(w)
      /\ UNCHANGED <<dead, paused>>
      /\ running' \subseteq running \cup {w}
      /\ w \in running' =>
           \/ w \in running
           \/ lease'[w] = Timeout /\ w \in DOMAIN left' /\ left'[w] = Timeout
      /\ beat' \in [Worker -> 0..Timer]
  <2>1. Grant(w) => lease'[w] = Timeout /\ w \in DOMAIN left' /\ left'[w] = Timeout
    BY DEF Grant, With, TypeOK
  <2>2. beat' \in [Worker -> 0..Timer]
    <3>1. beat' = beat \/ beat' = [beat EXCEPT ![w] = 0]
      BY DEF Acquire, Renew
    <3> QED BY <3>1, SemaphoreConstantsOK DEF TypeOK
  <2>3. Grant(w) \/ Refuse(w)
    BY DEF Acquire, Renew
  <2>4. CASE Acquire(w)
    <3>1. UNCHANGED <<dead, paused>> /\ (running' = running \/ (Grant(w) /\ running' = running \cup {w}))
      BY <2>4 DEF Acquire
    <3>2. running' \subseteq running \cup {w}
      BY <3>1
    <3>3. w \in running' => w \in running \/ Grant(w)
      BY <3>1
    <3> QED BY <2>1, <2>2, <2>3, <3>1, <3>2, <3>3
  <2>5. CASE Renew(w)
    BY <2>1, <2>2, <2>3, <2>5 DEF Renew
  <2> QED BY <2>4, <2>5
<1>2. TypeOK'
  BY <1>1, ScriptKeeps DEF TypeOK
<1>3. ASSUME LeasesHeld PROVE LeasesHeld'
  <2> SUFFICES ASSUME NEW v \in running', lease'[v] > 0
               PROVE  v \in DOMAIN left' /\ left'[v] >= lease'[v]
    BY DEF LeasesHeld
  <2>1. v \in Worker /\ lease[v] \in Nat /\ Timeout \in Nat
    BY <1>1, SemaphoreConstantsOK DEF TypeOK
  <2>2. CASE v \in running /\ lease'[v] = lease[v]
    <3>1. v \in DOMAIN left /\ left[v] >= lease[v] /\ left[v] \in Nat
      BY <1>3, <2>2 DEF LeasesHeld, TypeOK
    <3> QED BY <1>1, <2>1, <2>2, <3>1, ScriptKeeps
  <2>3. CASE lease'[v] = Timeout /\ v \in DOMAIN left' /\ left'[v] = Timeout
    BY <2>1, <2>3
  <2>4. CASE lease'[v] # lease[v]
    BY <1>1, <2>1, <2>3, <2>4, ScriptKeeps
  <2> QED BY <1>1, <2>2, <2>3, <2>4
<1>4. LockOutlived'
  <2>1. Locked' => Locked /\ ttl' = ttl /\ left'[SYSTEM_LOCK] = left[SYSTEM_LOCK]
    BY <1>1, ScriptKeeps
  <2> QED BY <2>1 DEF PauseInv, LockOutlived
<1>5. KeyOutlived'
  <2>1. ~Locked' => ttl' = 0 \/ ttl' = 2 * Timeout
    BY <1>1, ScriptKeeps
  <2> QED BY <1>2, <2>1, SemaphoreConstantsOK DEF KeyOutlived, TypeOK
<1>6. PauseHeld'
  <2>1. Locked => Locked' /\ left'[SYSTEM_LOCK] = left[SYSTEM_LOCK]
    BY <1>1, ScriptKeeps
  <2> QED BY <1>1, <2>1 DEF PauseInv, PauseHeld
<1> QED BY <1>2, <1>3, <1>4, <1>5, <1>6 DEF PauseInv, LeaseInv

\* A worker is done with its batch.
LEMMA ReleaseStep ==
  ASSUME PauseInv, NEW w \in Worker, Release(w)
  PROVE  PauseInv' /\ (LeaseInv => LeaseInv')
<1> TypeOK
  BY DEF PauseInv
<1>1. /\ DOMAIN left' = DOMAIN left \ {w} /\ \A m \in DOMAIN left' : left'[m] = left[m]
      /\ running' = running \ {w} /\ lease' = [lease EXCEPT ![w] = 0]
      /\ beat' = [beat EXCEPT ![w] = 0] /\ UNCHANGED <<dead, paused>>
      /\ ttl' = IF DOMAIN left \subseteq {w} THEN 0 ELSE ttl
      /\ left' \in [DOMAIN left' -> Nat]
  BY DEF Release, Restrict, TypeOK
<1>2. TypeOK'
  BY <1>1, SemaphoreConstantsOK DEF TypeOK
<1>3. (Locked' <=> Locked) /\ (Locked => ttl' = ttl /\ left'[SYSTEM_LOCK] = left[SYSTEM_LOCK])
  BY <1>1, PurgedKeeps, SemaphoreConstantsOK DEF Locked, Purged, Restrict
<1>4. \A v \in running' : v \in running /\ v # w /\ lease'[v] = lease[v] /\ beat'[v] = beat[v]
  BY <1>1 DEF TypeOK
<1>5. LeasesHeld => LeasesHeld'
  BY <1>1, <1>4 DEF LeasesHeld
<1>6. LockOutlived' /\ PauseHeld'
  BY <1>1, <1>3 DEF PauseInv, LockOutlived, PauseHeld
<1>7. KeyOutlived => KeyOutlived'
  BY <1>1, <1>3, <1>4 DEF KeyOutlived
<1> QED BY <1>2, <1>5, <1>6, <1>7 DEF PauseInv, LeaseInv

\* A worker dies, or nothing happens: what is in Redis stays.
LEMMA StillStep ==
  ASSUME PauseInv, (\E w \in Worker : Crash(w)) \/ UNCHANGED vars
  PROVE  PauseInv' /\ (LeaseInv => LeaseInv')
<1> TypeOK
  BY DEF PauseInv
<1>1. TypeOK'
  BY SemaphoreConstantsOK DEF Crash, TypeOK, vars
<1>2. \A v \in running' : v \in running /\ lease'[v] = lease[v] /\ beat'[v] = beat[v]
  BY DEF Crash, TypeOK, vars
<1>3. (Locked' <=> Locked) /\ UNCHANGED <<left, ttl, paused>>
  BY DEF Crash, Locked, Purged, vars
<1>4. LockOutlived' /\ PauseHeld'
  BY <1>3 DEF PauseInv, LockOutlived, PauseHeld
<1>5. LeasesHeld => LeasesHeld'
  BY <1>2, <1>3 DEF LeasesHeld
<1>6. KeyOutlived => KeyOutlived'
  BY <1>2, <1>3 DEF KeyOutlived
<1> QED BY <1>1, <1>4, <1>5, <1>6 DEF PauseInv, LeaseInv

\* A client pauses the queue.
LEMMA SetSystemLockStep ==
  ASSUME PauseInv, NEW t \in SystemTimeouts, SetSystemLock(t)
  PROVE  PauseInv' /\ (LeaseInv => LeaseInv')
<1> TypeOK /\ t \in Nat \ {0}
  BY SemaphoreConstantsOK DEF PauseInv
<1>1. /\ DOMAIN left' = DOMAIN left \cup {SYSTEM_LOCK} /\ left'[SYSTEM_LOCK] = t
      /\ \A w \in Worker : (w \in DOMAIN left' <=> w \in DOMAIN left)
                           /\ (w \in DOMAIN left => left'[w] = left[w])
      /\ left' \in [DOMAIN left' -> Nat]
      /\ ttl' = t + Buffer /\ paused' = t /\ UNCHANGED <<running, dead, beat, lease>>
  BY SemaphoreConstantsOK DEF SetSystemLock, With, TypeOK
<1>2. TypeOK'
  BY <1>1, SemaphoreConstantsOK DEF TypeOK, Member
<1>3. Locked'
  BY <1>1 DEF Locked, Purged, Restrict
<1>4. LeasesHeld => LeasesHeld'
  BY <1>1 DEF LeasesHeld, TypeOK
<1>5. LockOutlived' /\ PauseHeld' /\ KeyOutlived'
  BY <1>1, <1>3, SemaphoreConstantsOK DEF LockOutlived, KeyOutlived, PauseHeld
<1> QED BY <1>2, <1>4, <1>5 DEF PauseInv, LeaseInv

\* Time passes.  The key is deleted only when no running worker has a lease that
\* goes on, since each of them is to renew within Timer.
LEMMA TickStep ==
  ASSUME PauseInv, Tick
  PROVE  PauseInv' /\ (BufferCovers /\ LeaseInv => LeaseInv')
<1> TypeOK
  BY DEF PauseInv
<1> USE SemaphoreConstantsOK
<1> DEFINE Passed == [m \in DOMAIN left |-> Less(left[m])]
<1>1. /\ ttl' = Less(ttl) /\ paused' = Less(paused) /\ UNCHANGED <<running, dead>>
      /\ left' = IF ttl = 1 THEN Empty ELSE Passed
      /\ \A w \in Worker : lease'[w] = Less(lease[w])
      /\ \A w \in running : beat[w] < Timer /\ beat'[w] = beat[w] + 1
  BY DEF Tick, TypeOK
<1>2. DOMAIN Empty = {} /\ DOMAIN Passed = DOMAIN left
      /\ \A m \in DOMAIN left : Passed[m] = Less(left[m]) /\ Passed[m] \in Nat
  BY DEF Empty, Less, TypeOK
<1>3. TypeOK'
  <2>1. DOMAIN left' \subseteq Member /\ left' \in [DOMAIN left' -> Nat]
    BY <1>1, <1>2 DEF TypeOK, Empty
  <2>2. ttl' \in Nat /\ paused' \in Nat
    BY <1>1 DEF TypeOK, Less
  <2>3. beat' \in [Worker -> 0..Timer] /\ lease' \in [Worker -> 0..Timeout]
    BY DEF Tick, TypeOK, Less
  <2>4. \A w \in Worker \cap DOMAIN left' : left'[w] <= Timeout
    BY <1>1, <1>2 DEF TypeOK, Less, Empty
  <2> QED BY <1>1, <2>1, <2>2, <2>3, <2>4 DEF TypeOK
<1>4. ttl = 1 => ~Locked
  BY PurgedKeeps DEF PauseInv, LockOutlived, TypeOK
<1>5. Locked' <=> Locked /\ left[SYSTEM_LOCK] > 1
  <2>1. Locked' <=> SYSTEM_LOCK \in DOMAIN left' /\ left'[SYSTEM_LOCK] > 0
    BY DEF Locked, Purged, Restrict
  <2> QED BY <1>1, <1>2, <1>4, <2>1, PurgedKeeps DEF TypeOK, Less
<1>6. Locked' => left'[SYSTEM_LOCK] = left[SYSTEM_LOCK] - 1 /\ ttl' = ttl - 1 /\ ttl > 1
  BY <1>1, <1>2, <1>4, <1>5, PurgedKeeps DEF PauseInv, LockOutlived, TypeOK, Less
<1>7. LockOutlived'
  <2>1. Locked' => ttl >= left[SYSTEM_LOCK] + Buffer /\ left[SYSTEM_LOCK] \in Nat
    BY <1>5, PurgedKeeps DEF PauseInv, LockOutlived, TypeOK
  <2> QED BY <1>6, <2>1 DEF LockOutlived, TypeOK
<1>8. PauseHeld'
  <2> SUFFICES ASSUME paused' > 0 PROVE Locked' /\ left'[SYSTEM_LOCK] >= paused'
    BY DEF PauseHeld
  <2>1. paused' = paused - 1 /\ paused > 1 /\ paused \in Nat
    BY <1>1 DEF TypeOK, Less
  <2>2. Locked /\ left[SYSTEM_LOCK] >= paused /\ left[SYSTEM_LOCK] \in Nat
    BY <2>1, PurgedKeeps DEF PauseInv, PauseHeld, TypeOK
  <2> QED BY <1>5, <1>6, <2>1, <2>2
<1>9. ASSUME BufferCovers, LeaseInv PROVE LeasesHeld'
  <2> SUFFICES ASSUME NEW w \in running, lease'[w] > 0
               PROVE  w \in DOMAIN left' /\ left'[w] >= lease'[w]
    BY <1>1 DEF LeasesHeld
  <2>1. w \in Worker /\ lease[w] \in Nat /\ lease'[w] = lease[w] - 1 /\ lease[w] > 1
    BY <1>1 DEF TypeOK, Less
  <2>2. w \in DOMAIN left /\ left[w] >= lease[w] /\ left[w] \in Nat
    BY <1>9, <2>1 DEF LeaseInv, LeasesHeld, TypeOK
  <2>3. ASSUME ttl = 1 PROVE FALSE
    <3>1. lease[w] <= ttl \/ ttl + beat[w] > Buffer
      BY <1>4, <1>9, <2>3 DEF LeaseInv, KeyOutlived
    <3>2. beat[w] \in Nat /\ beat[w] < Timer
      BY <1>1, <2>1 DEF TypeOK
    <3> QED BY <1>9, <2>1, <2>3, <3>1, <3>2 DEF BufferCovers
  <2>4. left' = Passed
    BY <1>1, <2>3
  <2> QED BY <1>2, <2>1, <2>2, <2>4 DEF Less
<1>10. ASSUME KeyOutlived PROVE KeyOutlived'
  <2> SUFFICES ASSUME ~Locked', ttl' # 0, NEW w \in running
               PROVE  lease'[w] <= ttl' \/ ttl' + beat'[w] > Buffer
    BY <1>1 DEF KeyOutlived
  <2>1. /\ w \in Worker /\ ttl' = ttl - 1 /\ lease'[w] = Less(lease[w]) /\ beat'[w] = beat[w] + 1
        /\ ttl \in Nat /\ ttl > 1 /\ lease[w] \in Nat /\ beat[w] \in Nat
    BY <1>1 DEF Less, TypeOK
  <2>2. CASE Locked
    <3>1. ttl >= left[SYSTEM_LOCK] + Buffer /\ left[SYSTEM_LOCK] \in Nat \ {0}
      BY <2>2, PurgedKeeps DEF PauseInv, LockOutlived, TypeOK
    <3> QED BY <2>1, <3>1
  <2>3. CASE ~Locked
    <3>1. lease[w] <= ttl \/ ttl + beat[w] > Buffer
      BY <1>10, <2>1, <2>3 DEF KeyOutlived
    <3> QED BY <2>1, <3>1 DEF Less
  <2> QED BY <2>2, <2>3
<1> QED BY <1>3, <1>7, <1>8, <1>9, <1>10 DEF PauseInv, LeaseInv

\* Pauses need nothing of the timing of workers.
LEMMA PauseInductive == Spec => []PauseInv
<1>1. PauseInv /\ [Next]_vars => PauseInv'
  BY ScriptStep, ReleaseStep, StillStep, SetSystemLockStep, TickStep DEF Next
<1> QED BY <1>1, SemInit, PTL DEF Spec

\* Leases need the buffer.
LEMMA LeaseInductive ==
  ASSUME BufferCovers
  PROVE  Spec => []LeaseInv
<1>1. PauseInv /\ LeaseInv /\ [Next]_vars => LeaseInv'
  BY ScriptStep, ReleaseStep, StillStep, SetSystemLockStep, TickStep DEF Next
<1> QED BY <1>1, SemInit, PauseInductive, PTL DEF Spec

-----------------------------------------------------------------------------
(* The theorems.                                                            *)

(* The types of the sorted set, the time to live of its key and the times   *)
(* since the heartbeats, which come within Timer.                           *)
THEOREM TypeCorrect == Spec => []TypeOK
<1>1. PauseInv => TypeOK
  BY DEF PauseInv
<1> QED BY <1>1, PauseInductive, PTL

\* What is in the sorted set, of the workers with a lease, is finite and in Purged.
LEMMA LeasesFinite ==
  ASSUME TypeOK
  PROVE  /\ IsFiniteSet(DOMAIN Purged)
         /\ \A w \in Worker : IsFiniteSet(DOMAIN Purged \cup {w})
         /\ IsFiniteSet({w \in running : lease[w] > 0})
<1>1. IsFiniteSet(Member)
  BY SemaphoreConstantsOK, FS_AddElement DEF Member
<1>2. DOMAIN Purged \subseteq Member
  BY PurgedKeeps DEF TypeOK
<1>3. {w \in running : lease[w] > 0} \subseteq Worker
  BY DEF TypeOK
<1> QED BY <1>1, <1>2, <1>3, FS_Subset, FS_AddElement, SemaphoreConstantsOK

(* No more than max_workers_per_queue workers have acquired or renewed the  *)
(* semaphore within the timeout: the purge never takes such a worker's lock *)
(* out of the sorted set, nor does the end of the key's time to live.       *)
THEOREM NotTooManyLeases ==
  ASSUME BufferCovers
  PROVE  Spec => []LeasesRespected
<1> DEFINE Leased == {w \in running : lease[w] > 0}
<1>1. Init => LeasesRespected
  BY FS_EmptySet, SemaphoreConstantsOK DEF Init, LeasesRespected
<1>2. TypeOK /\ TypeOK' /\ LeaseInv /\ LeasesRespected /\ [Next]_vars => LeasesRespected'
  <2> SUFFICES ASSUME TypeOK, TypeOK', LeaseInv, LeasesRespected, [Next]_vars
               PROVE  Cardinality(Leased') <= MaxLocks
    BY DEF LeasesRespected
  <2>1. CASE Leased' \subseteq Leased
    <3>1. Cardinality(Leased') <= Cardinality(Leased) /\ Cardinality(Leased) <= MaxLocks
      BY <2>1, LeasesFinite, FS_Subset DEF LeasesRespected
    <3>2. Cardinality(Leased) \in Nat /\ Cardinality(Leased') \in Nat
      BY <2>1, LeasesFinite, FS_Subset, FS_CardinalityType
    <3> QED BY <3>1, <3>2, SemaphoreConstantsOK
  <2>2. ASSUME NEW w \in Worker, Grant(w), running' \subseteq running \cup {w}
        PROVE  Cardinality(Leased') <= MaxLocks
    <3>1. Leased' \subseteq DOMAIN Purged \cup {w}
      <4> SUFFICES ASSUME NEW v \in Leased', v # w PROVE v \in DOMAIN Purged
        OBVIOUS
      <4>1. v \in running /\ lease[v] > 0
        BY <2>2 DEF Grant, TypeOK
      <4>2. v \in DOMAIN left /\ left[v] >= lease[v] /\ left[v] \in Nat /\ lease[v] \in Nat
        BY <4>1 DEF LeaseInv, LeasesHeld, TypeOK
      <4> QED BY <4>1, <4>2, PurgedKeeps
    <3>2. Cardinality(DOMAIN Purged \cup {w}) <= MaxLocks
      BY <2>2 DEF Grant, Allowed
    <3>3. /\ Cardinality(Leased') <= Cardinality(DOMAIN Purged \cup {w})
          /\ Cardinality(DOMAIN Purged \cup {w}) \in Nat
      BY <3>1, LeasesFinite, FS_Subset, FS_CardinalityType
    <3>4. Cardinality(Leased') \in Nat
      BY <3>1, LeasesFinite, FS_Subset, FS_CardinalityType
    <3> QED BY <3>2, <3>3, <3>4, SemaphoreConstantsOK
  <2>3. ASSUME NEW w \in Worker, Acquire(w) \/ Renew(w) PROVE Cardinality(Leased') <= MaxLocks
    <3>1. CASE Grant(w) /\ running' \subseteq running \cup {w}
      BY <2>2, <3>1
    <3>2. CASE ~(Grant(w) /\ running' \subseteq running \cup {w})
      <4>1. UNCHANGED <<running, lease>>
        BY <2>3, <3>2 DEF Acquire, Renew, Refuse
      <4> QED BY <2>1, <4>1
    <3> QED BY <3>1, <3>2
  <2>4. ASSUME NEW w \in Worker, Release(w) \/ Crash(w) PROVE Leased' \subseteq Leased
    BY <2>4 DEF Release, Crash, TypeOK
  <2>5. ASSUME NEW t \in SystemTimeouts, SetSystemLock(t) PROVE Leased' \subseteq Leased
    BY <2>5 DEF SetSystemLock
  <2>6. CASE Tick
    <3>1. running' = running /\ \A w \in Worker : lease'[w] = Less(lease[w])
      BY <2>6 DEF Tick
    <3>2. ASSUME NEW w \in Leased' PROVE w \in Leased
      BY <3>1 DEF Less, TypeOK
    <3> QED BY <2>1, <3>2
  <2>7. CASE UNCHANGED vars
    BY <2>1, <2>7 DEF vars
  <2> QED BY <2>1, <2>3, <2>4, <2>5, <2>6, <2>7 DEF Next
<1> QED BY <1>1, <1>2, TypeCorrect, LeaseInductive, PTL DEF Spec

(* While a system lock is to last, no worker starts on the queue, whatever  *)
(* acquisitions, renewals and releases do to the key of the semaphore.      *)
THEOREM PausesLast == Spec => PauseRespected
<1> DEFINE NobodyStarts == \A w \in running' \ running : paused = 0
<1>1. PauseInv /\ [Next]_vars => NobodyStarts
  <2> SUFFICES ASSUME PauseInv, [Next]_vars, NEW v \in running' \ running PROVE paused = 0
    OBVIOUS
  <2>1. PICK w \in Worker : Acquire(w)
    BY DEF Next, vars, Renew, Release, Crash, SetSystemLock, Tick
  <2>2. Grant(w)
    BY <2>1 DEF Acquire
  <2> QED BY <2>2 DEF Grant, Allowed, PauseInv, PauseHeld, TypeOK
<1> HIDE DEF NobodyStarts
<1>2. PauseInv /\ [Next]_vars => [NobodyStarts]_vars
  BY <1>1
<1>3. Spec => [][NobodyStarts]_vars
  BY <1>2, PauseInductive, PTL DEF Spec
<1> QED BY <1>3 DEF PauseRespected, NobodyStarts

-----------------------------------------------------------------------------
(* Without system locks.                                                    *)

\* Nobody calls set_queue_system_lock, and a worker renews before its lease ends.
Unpaused == SystemTimeouts = {} /\ Timer < Timeout

\* Then no renewal is refused: a running worker has a slot, and the slots are few.
SlotInv ==
  /\ SYSTEM_LOCK \notin DOMAIN left
  /\ Cardinality(DOMAIN Purged) <= MaxLocks
  /\ \A w \in running : lease[w] + beat[w] >= Timeout

\* Where the slots do not become more.
LEMMA FewerSlots ==
  ASSUME TypeOK, TypeOK', Cardinality(DOMAIN Purged) <= MaxLocks,
         DOMAIN Purged' \subseteq DOMAIN Purged
  PROVE  Cardinality(DOMAIN Purged') <= MaxLocks
<1>1. Cardinality(DOMAIN Purged') <= Cardinality(DOMAIN Purged)
  BY LeasesFinite, FS_Subset
<1>2. Cardinality(DOMAIN Purged) \in Nat /\ Cardinality(DOMAIN Purged') \in Nat
  BY LeasesFinite, FS_Subset, FS_CardinalityType
<1> QED BY <1>1, <1>2, SemaphoreConstantsOK

\* The script refuses nobody who has a slot.
LEMMA SlotScript ==
  ASSUME TypeOK, TypeOK', LeaseInv, SlotInv, Unpaused, NEW w \in Worker, Acquire(w) \/ Renew(w)
  PROVE  SlotInv'
<1> USE SemaphoreConstantsOK
<1>1. CASE Grant(w)
  <2>1. /\ left' = With(Purged, w, Timeout) /\ lease' = [lease EXCEPT ![w] = Timeout]
        /\ Cardinality(DOMAIN Purged \cup {w}) <= MaxLocks /\ ~Locked
    BY <1>1 DEF Grant, Allowed
  <2>2. DOMAIN left' = DOMAIN Purged \cup {w}
    BY <2>1 DEF With
  <2>3. SYSTEM_LOCK \notin DOMAIN left'
    BY <2>1, <2>2 DEF Locked
  <2>4. Cardinality(DOMAIN Purged') <= MaxLocks
    <3>1. DOMAIN Purged' \subseteq DOMAIN Purged \cup {w}
      BY <2>2 DEF Purged, Restrict
    <3>2. /\ Cardinality(DOMAIN Purged') <= Cardinality(DOMAIN Purged \cup {w})
          /\ Cardinality(DOMAIN Purged \cup {w}) \in Nat
          /\ Cardinality(DOMAIN Purged') \in Nat
      BY <3>1, LeasesFinite, FS_Subset, FS_CardinalityType
    <3> QED BY <2>1, <3>2
  <2>5. ASSUME NEW v \in running' PROVE lease'[v] + beat'[v] >= Timeout
    <3>1. CASE v = w
      BY <2>1, <3>1 DEF TypeOK
    <3>2. CASE v # w
      <4>1. v \in running /\ v \in Worker /\ lease'[v] = lease[v]
        BY <2>1, <3>2 DEF Acquire, Renew, TypeOK
      <4>2. beat'[v] = beat[v]
        BY <3>2, <4>1 DEF Acquire, Renew, TypeOK
      <4> QED BY <4>1, <4>2 DEF SlotInv
    <3> QED BY <3>1, <3>2
  <2> QED BY <2>3, <2>4, <2>5 DEF SlotInv
<1>2. CASE Refuse(w)
  <2>1. left' = Purged /\ lease' = lease
    BY <1>2 DEF Refuse
  <2>2. w \notin running
    <3> SUFFICES ASSUME w \in running PROVE Allowed(w)
      BY <1>2 DEF Refuse
    <3>1. /\ lease[w] + beat[w] >= Timeout /\ beat[w] <= Timer
          /\ beat[w] \in Nat /\ lease[w] \in Nat
      BY DEF SlotInv, TypeOK
    <3>2. w \in DOMAIN Purged
      BY <3>1, PurgedKeeps DEF Unpaused, LeaseInv, LeasesHeld, TypeOK
    <3>3. DOMAIN Purged \cup {w} = DOMAIN Purged
      BY <3>2
    <3> QED BY <3>3, PurgedKeeps DEF Allowed, SlotInv
  <2>3. running' = running /\ beat' = beat
    <3>1. ~Grant(w)
      BY <1>2 DEF Grant, Refuse
    <3> QED BY <2>2, <3>1 DEF Acquire, Renew
  <2>4. SYSTEM_LOCK \notin DOMAIN left' /\ DOMAIN Purged' \subseteq DOMAIN Purged
    BY <2>1, PurgedKeeps DEF SlotInv, Purged, Restrict
  <2>5. Cardinality(DOMAIN Purged') <= MaxLocks
    BY <2>4, FewerSlots DEF SlotInv
  <2> QED BY <2>1, <2>3, <2>4, <2>5 DEF SlotInv
<1> QED BY <1>1, <1>2 DEF Acquire, Renew

(* Where nobody pauses the queue, no more than max_workers_per_queue        *)
(* workers process it at once, for however long: every renewal succeeds,    *)
(* so a worker's slot is its own until its batch is done or it is dead.     *)
THEOREM LimitKept ==
  ASSUME BufferCovers, Unpaused
  PROVE  Spec => []WorkersLimited
<1>1. Init => SlotInv
  <2>1. Init => DOMAIN Purged = {}
    BY DEF Init, Empty, Purged, Restrict
  <2> QED BY <2>1, FS_EmptySet, SemaphoreConstantsOK DEF Init, Empty, SlotInv
<1>2. TypeOK /\ TypeOK' /\ LeaseInv /\ SlotInv /\ [Next]_vars => SlotInv'
  <2> SUFFICES ASSUME TypeOK, TypeOK', LeaseInv, SlotInv, [Next]_vars PROVE SlotInv'
    OBVIOUS
  <2> USE SemaphoreConstantsOK
  <2>1. ASSUME SYSTEM_LOCK \notin DOMAIN left', DOMAIN Purged' \subseteq DOMAIN Purged,
               \A w \in running' : lease'[w] + beat'[w] >= Timeout
        PROVE  SlotInv'
    BY <2>1, FewerSlots DEF SlotInv
  <2>2. ASSUME NEW w \in Worker, Acquire(w) \/ Renew(w) PROVE SlotInv'
    BY <2>2, SlotScript
  <2>3. ASSUME NEW w \in Worker, Release(w) PROVE SlotInv'
    <3>1. SYSTEM_LOCK \notin DOMAIN left' /\ DOMAIN Purged' \subseteq DOMAIN Purged
      BY <2>3 DEF Release, SlotInv, Purged, Restrict
    <3>2. \A v \in running' : lease'[v] + beat'[v] >= Timeout
      BY <2>3 DEF Release, SlotInv, TypeOK
    <3> QED BY <2>1, <3>1, <3>2
  <2>4. ASSUME NEW w \in Worker, Crash(w) PROVE SlotInv'
    <3>1. SYSTEM_LOCK \notin DOMAIN left' /\ DOMAIN Purged' \subseteq DOMAIN Purged
      BY <2>4 DEF Crash, SlotInv, Purged
    <3>2. \A v \in running' : lease'[v] + beat'[v] >= Timeout
      BY <2>4 DEF Crash, SlotInv, TypeOK
    <3> QED BY <2>1, <3>1, <3>2
  <2>5. CASE Tick
    <3>1. left' = Empty \/ left' = [m \in DOMAIN left |-> Less(left[m])]
      BY <2>5 DEF Tick
    <3>2. SYSTEM_LOCK \notin DOMAIN left' /\ DOMAIN Purged' \subseteq DOMAIN Purged
      BY <3>1 DEF SlotInv, Purged, Restrict, Empty, Less, TypeOK
    <3>3. \A v \in running' : lease'[v] + beat'[v] >= Timeout
      BY <2>5 DEF Tick, SlotInv, TypeOK, Less
    <3> QED BY <2>1, <3>2, <3>3
  <2>6. CASE UNCHANGED vars
    BY <2>6 DEF vars, SlotInv, Purged
  <2> QED BY <2>2, <2>3, <2>4, <2>5, <2>6 DEF Next, Unpaused
<1>3. TypeOK /\ SlotInv /\ LeasesRespected => WorkersLimited
  <2> SUFFICES ASSUME TypeOK, SlotInv PROVE {w \in running : lease[w] > 0} = running
    BY DEF LeasesRespected, WorkersLimited
  <2>1. ASSUME NEW w \in running PROVE lease[w] > 0
    <3>1. /\ lease[w] + beat[w] >= Timeout /\ beat[w] <= Timer
          /\ beat[w] \in Nat /\ lease[w] \in Nat
      BY DEF SlotInv, TypeOK
    <3> QED BY <3>1, SemaphoreConstantsOK DEF Unpaused
  <2> QED BY <2>1
<1> QED BY <1>1, <1>2, <1>3, TypeCorrect, LeaseInductive, NotTooManyLeases, PTL DEF Spec
=============================================================================
