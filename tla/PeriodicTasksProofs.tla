-------------------------- MODULE PeriodicTasksProofs --------------------------
(****************************************************************************)
(* Proofs about periodic tasks: where schedule.py puts the next execution,  *)
(* for any period; and that the chain of executions does not break, for any *)
(* tasks, workers, clients and delays.                                      *)
(****************************************************************************)
EXTENDS PeriodicTasks, TLAPS

-----------------------------------------------------------------------------
(* schedule.py.                                                             *)

\* Division: a date lies in one interval between two multiples of the period.
LEMMA Interval ==
  ASSUME NEW d \in Int, NEW period \in Nat \ {0}
  PROVE  /\ d \div period \in Int
         /\ period * (d \div period) <= d
         /\ d < period * (d \div period) + period
<1>1. d \div period \in Int /\ period * (d \div period) <= d
  OBVIOUS
<1>2. d < period * (d \div period) + period
  OBVIOUS
<1> QED BY <1>1, <1>2

\* Products, of which the provers know little.
LEMMA Monotone ==
  ASSUME NEW k \in Int, NEW m \in Int, NEW period \in Nat \ {0}, k <= m
  PROVE  k * period <= m * period
BY Z3

\* The next multiple of the period.
LEMMA NextMultiple ==
  ASSUME NEW k \in Int, NEW period \in Nat \ {0}
  PROVE  /\ (k + 1) * period = period * k + period
         /\ k * period = period * k
         /\ period * k \in Int
BY Z3

(* The next execution is on the grid that the start date and the period     *)
(* make, later than now, and no other date of the grid is in between: no    *)
(* period is left out, however long a task waited or ran, and whether its   *)
(* start date is past or to come.                                           *)
THEOREM NextIsFirst ==
  ASSUME NEW dt \in Int, NEW start \in Int, NEW period \in Nat \ {0}
  PROVE  /\ \E k \in Int : NextRun(dt, period, start) = start + k * period
         /\ NextRun(dt, period, start) > dt
         /\ \A k \in Int : start + k * period > dt =>
                             start + k * period >= NextRun(dt, period, start)
<1> DEFINE n == (dt - start) \div period
<1>1. /\ n \in Int /\ period * n <= dt - start /\ dt - start < period * n + period
  BY Interval
<1>2. NextRun(dt, period, start) = start + (n + 1) * period
  BY DEF NextRun
<1> HIDE DEF n
<1>3. (n + 1) * period = period * n + period /\ period * n \in Int
  BY <1>1, NextMultiple
<1>4. n + 1 \in Int
  BY <1>1
<1>5. ASSUME NEW k \in Int, start + k * period > dt
      PROVE  start + k * period >= NextRun(dt, period, start)
  <2>1. k * period = period * k /\ n * period = period * n /\ period * k \in Int
    BY <1>1, NextMultiple
  <2>2. k > n
    <3>1. ASSUME k <= n PROVE FALSE
      <4>1. k * period <= n * period
        BY <1>1, <3>1, Monotone
      <4> QED BY <1>1, <1>3, <1>5, <2>1, <4>1
    <3> QED BY <1>1, <3>1
  <2>3. (n + 1) * period <= k * period
    BY <1>1, <2>2, Monotone
  <2> QED BY <1>2, <1>3, <2>1, <2>3
<1>6. NextRun(dt, period, start) > dt
  BY <1>1, <1>2, <1>3
<1> QED BY <1>2, <1>4, <1>5, <1>6

(* An execution is put on the first date of the grid that is later than now *)
(* and not before the start date; if the dates are in order it is not after *)
(* the end date either.                                                     *)
THEOREM DateInRange ==
  ASSUME NEW dt \in Int, NEW start \in Int, NEW period \in Nat \ {0},
         NEW end \in Int \cup {None}, PeriodicDate(dt, period, start, end) # None
  PROVE  /\ PeriodicDate(dt, period, start, end) > dt
         /\ end # None /\ start <= end => PeriodicDate(dt, period, start, end) <= end
         /\ \E k \in Nat : PeriodicDate(dt, period, start, end) = start + k * period
         /\ \A k \in Nat : start + k * period > dt =>
                             start + k * period >= PeriodicDate(dt, period, start, end)
<1>1. CASE dt < start
  <2>1. PeriodicDate(dt, period, start, end) = start
    BY <1>1 DEF PeriodicDate
  <2>2. start = start + 0 * period
    OBVIOUS
  <2>3. ASSUME NEW k \in Nat PROVE start + k * period >= start
    <3>1. 0 * period <= k * period /\ k * period = period * k /\ period * k \in Int
      BY Monotone, NextMultiple
    <3> QED BY <3>1
  <2> QED BY <1>1, <2>1, <2>2, <2>3
<1>2. CASE dt >= start
  <2>1. PICK k \in Int : NextRun(dt, period, start) = start + k * period
    BY NextIsFirst
  <2>2. k * period \in Int /\ NextRun(dt, period, start) \in Int
    BY <2>1, NextMultiple
  <2>3. /\ PeriodicDate(dt, period, start, end) = NextRun(dt, period, start)
        /\ end # None => NextRun(dt, period, start) <= end
    BY <1>2, <2>2 DEF PeriodicDate
  <2>4. NextRun(dt, period, start) > dt
    BY NextIsFirst
  <2>5. k \in Nat
    <3>1. ASSUME k <= 0 PROVE FALSE
      <4>1. k * period <= 0 * period
        BY <3>1, Monotone
      <4> QED BY <1>2, <2>1, <2>2, <2>4, <4>1
    <3> QED BY <3>1
  <2>6. ASSUME NEW m \in Nat, start + m * period > dt
        PROVE  start + m * period >= NextRun(dt, period, start)
    <3>1. m \in Int
      OBVIOUS
    <3> QED BY <2>6, <3>1, NextIsFirst
  <2> QED BY <2>1, <2>3, <2>4, <2>5, <2>6
<1> QED BY <1>1, <1>2

(* A periodic task ends only when no date of its grid is left: none that is *)
(* later than now and not after the end date.                               *)
THEOREM EndsWhenOver ==
  ASSUME NEW dt \in Int, NEW start \in Int, NEW period \in Nat \ {0},
         NEW end \in Int \cup {None}, PeriodicDate(dt, period, start, end) = None
  PROVE  end # None /\ \A k \in Int : start + k * period > dt => start + k * period > end
<1>1. PICK n \in Int : NextRun(dt, period, start) = start + n * period
  BY NextIsFirst
<1>2. NextRun(dt, period, start) \in Int
  BY <1>1, NextMultiple
<1>3. end # None /\ (dt >= end \/ NextRun(dt, period, start) > end)
  BY <1>2, NoneIsNoDate DEF PeriodicDate
<1>4. ASSUME NEW k \in Int, start + k * period > dt PROVE start + k * period > end
  <2>1. start + k * period >= NextRun(dt, period, start)
    BY <1>4, NextIsFirst
  <2>2. k * period = period * k /\ period * k \in Int
    BY NextMultiple
  <2> QED BY <1>2, <1>3, <1>4, <2>1, <2>2
<1> QED BY <1>3, <1>4

-----------------------------------------------------------------------------
(* The store, of one queue.                                                 *)

\* The states, for the provers.
LEMMA StateValues ==
  /\ State = {QUEUED, ACTIVE, SCHEDULED, ERROR}
  /\ QUEUED # ACTIVE /\ QUEUED # SCHEDULED /\ QUEUED # ERROR
  /\ ACTIVE # SCHEDULED /\ ACTIVE # ERROR /\ SCHEDULED # ERROR
BY DEF State, QUEUED, ACTIVE, SCHEDULED, ERROR

\* There is one queue only.
LEMMA OneQueue == queue \in Queue /\ \A q \in Queue : q = queue
BY PeriodicConstantsOK

\* What each script does to the places of a task, and to types.
LEMMA MoveIn ==
  ASSUME StoreTypeOK, NEW t, NEW from \in State, NEW to \in State, from # to,
         MoveTask(queue, t, from, to)
  PROVE  /\ StoreTypeOK' /\ t \in Task /\ In(from, queue, t)
         /\ \A s \in State, u \in Task :
              In(s, queue, u)' <=> IF u = t THEN s = to \/ (s # from /\ In(s, queue, u))
                                   ELSE In(s, queue, u)
<1> USE OneQueue DEF StoreTypeOK
<1>1. In(from, queue, t) /\ t \in Task
  BY DEF MoveTask, In
<1>2. StoreTypeOK'
  <2>1. zset' \in [State -> [Queue -> SUBSET Task]]
    <3>1. PICK A, B : A = zset[from][queue] \ {t} /\ B = zset[to][queue] \cup {t}
      OBVIOUS
    <3>2. A \subseteq Task /\ B \subseteq Task
      BY <1>1, <3>1
    <3>3. zset' = [zset EXCEPT ![from][queue] = A, ![to][queue] = B]
      BY <3>1 DEF MoveTask
    <3> QED BY <3>2, <3>3
  <2>2. stale' \in [Queue -> SUBSET Task]
    BY DEF MoveTask, Unstale
  <2>3. index' \in [State -> SUBSET Queue]
    BY DEF MoveTask, SRemIfNotExists
  <2> QED BY <2>1, <2>2, <2>3 DEF MoveTask
<1>3. \A s \in State : zset'[s][queue] = IF s = from THEN zset[s][queue] \ {t}
                                         ELSE IF s = to THEN zset[s][queue] \cup {t}
                                         ELSE zset[s][queue]
  BY DEF MoveTask
<1> QED BY <1>1, <1>2, <1>3 DEF In

\* move_task without a to_state: the task leaves one set.
LEMMA RemoveIn ==
  ASSUME StoreTypeOK, NEW t, NEW from \in State, RemoveTask(queue, t, from, TRUE)
  PROVE  /\ StoreTypeOK' /\ t \in Task /\ In(from, queue, t)
         /\ \A s \in State, u \in Task :
              In(s, queue, u)' <=> In(s, queue, u) /\ ~(u = t /\ s = from)
<1> USE OneQueue DEF StoreTypeOK
<1>1. In(from, queue, t) /\ t \in Task
  BY DEF RemoveTask, In
<1>2. StoreTypeOK'
  BY <1>1 DEF RemoveTask, SRemIfNotExists, Unstale, KeepExecutions, KeepObject
<1>3. zset' = [zset EXCEPT ![from][queue] = @ \ {t}]
  BY DEF RemoveTask
<1> QED BY <1>1, <1>2, <1>3 DEF In

\* The pipeline of delay: the task is in one more set.
LEMMA AddIn ==
  ASSUME StoreTypeOK, NEW t \in Task, NEW to \in State, AddTask(queue, t, to)
  PROVE  /\ StoreTypeOK'
         /\ \A s \in State, u \in Task :
              In(s, queue, u)' <=> In(s, queue, u) \/ (u = t /\ s = to)
<1> USE OneQueue DEF StoreTypeOK
<1>1. StoreTypeOK'
  BY DEF AddTask
<1> QED BY <1>1 DEF AddTask, In

\* zpoppush of one task: an active one is scheduled instead.
LEMMA PopIn ==
  ASSUME StoreTypeOK, NEW t \in Task, In(QUEUED, queue, t), PopToActive(queue, {t})
  PROVE  /\ StoreTypeOK'
         /\ t \in PopMoved(queue, {t}) <=> ~In(ACTIVE, queue, t)
         /\ \A s \in State, u \in Task :
              In(s, queue, u)' <=>
                IF u # t THEN In(s, queue, u)
                ELSE \/ s = ACTIVE
                     \/ s = SCHEDULED /\ (In(SCHEDULED, queue, t) \/ In(ACTIVE, queue, t))
                     \/ s = ERROR /\ In(ERROR, queue, t)
<1> USE OneQueue, StateValues DEF StoreTypeOK
<1>1. StoreTypeOK'
  BY DEF PopToActive, SRemIfNotExists, PopMoved, PopDeferred
<1>2. t \in PopMoved(queue, {t}) <=> ~In(ACTIVE, queue, t)
  BY DEF PopMoved, In
<1>3. /\ zset'[QUEUED][queue] = zset[QUEUED][queue] \ {t}
      /\ zset'[ACTIVE][queue] = zset[ACTIVE][queue] \cup PopMoved(queue, {t})
      /\ zset'[SCHEDULED][queue] = zset[SCHEDULED][queue] \cup PopDeferred(queue, {t})
      /\ zset'[ERROR][queue] = zset[ERROR][queue]
  BY DEF PopToActive
<1> QED BY <1>1, <1>2, <1>3 DEF In, PopMoved, PopDeferred

\* zpoppush of one task that is due.
LEMMA QueueIn ==
  ASSUME StoreTypeOK, NEW t \in Task, In(SCHEDULED, queue, t), PopToQueued(queue, {t})
  PROVE  /\ StoreTypeOK'
         /\ \A s \in State, u \in Task :
              In(s, queue, u)' <=>
                IF u = t THEN s = QUEUED \/ (s # SCHEDULED /\ In(s, queue, u))
                ELSE In(s, queue, u)
<1> USE OneQueue, StateValues DEF StoreTypeOK
<1>1. StoreTypeOK'
  BY DEF PopToQueued, SRemIfNotExists
<1>2. \A s \in State : zset'[s][queue] = IF s = SCHEDULED THEN zset[s][queue] \ {t}
                                         ELSE IF s = QUEUED THEN zset[s][queue] \cup {t}
                                         ELSE zset[s][queue]
  BY DEF PopToQueued
<1> QED BY <1>1, <1>2 DEF In

-----------------------------------------------------------------------------
(* Types.                                                                   *)

\* The next period is never now.
LEMMA NextIsLater ==
  ASSUME TypeOK
  PROVE  UntilNext \in Nat \ {0}
<1>1. phase \in Int /\ phase >= 0 /\ Period \in Nat \ {0}
  BY PeriodicConstantsOK DEF TypeOK
<1>2. PICK z \in Int : z = 0
  OBVIOUS
<1>3. PICK k \in Int : NextRun(phase, Period, z) = z + k * Period
  BY <1>1, NextIsFirst
<1>4. NextRun(phase, Period, z) \in Int
  BY <1>1, <1>3, NextMultiple
<1>5. NextRun(phase, Period, z) > phase
  BY <1>1, NextIsFirst
<1>6. UntilNext = NextRun(phase, Period, z) - phase
  BY <1>1, <1>2 DEF UntilNext, PeriodicDate
<1> QED BY <1>1, <1>4, <1>5, <1>6

\* Modes of zadd yield times.
LEMMA DueTyping ==
  ASSUME TypeOK, NEW t \in Task, NEW d \in Nat
  PROVE  /\ DueNX(t, d) \in [Task -> Nat] /\ DueMin(t, d) \in [Task -> Nat]
         /\ DueSet(t, d) \in [Task -> Nat]
         /\ \A u \in Task \ {t} : DueNX(t, d)[u] = due[u] /\ DueMin(t, d)[u] = due[u]
                                  /\ DueSet(t, d)[u] = due[u]
BY DEF TypeOK, DueNX, DueMin, DueSet

\* Only what is scheduled has a time.
TimesScheduled == \A t \in Task : due[t] # 0 => In(SCHEDULED, queue, t)

\* What an actor is about to ask for.
LEMMA AskTyping ==
  ASSUME TypeOK, NEW a \in Actor, NEW t \in Task, NEW d \in Nat, Ask(a, t, d)
  PROVE  offer' \in [Actor -> Offer \cup {None}]
BY StateValues DEF Ask, TypeOK, Offer

\* The second half of Task.delay.
LEMMA AddTyping ==
  ASSUME TypeOK, NEW a \in Actor, Add(a)
  PROVE  /\ StoreTypeOK' /\ due' \in [Task -> Nat] /\ TimesScheduled'
         /\ offer' \in [Actor -> Offer \cup {None}] /\ started' \in BOOLEAN
         /\ offer[a].task \in Task
         /\ \A s \in State, u \in Task :
              In(s, queue, u)' <=> In(s, queue, u) \/ (u = offer[a].task /\ s = offer[a].state)
<1> DEFINE o == offer[a]
<1>1. /\ o.task \in Task /\ o.in \in Nat /\ o.state \in {QUEUED, SCHEDULED} /\ o.state \in State
      /\ AddTask(queue, o.task, o.state)
      /\ due' = (IF o.state = SCHEDULED THEN DueNX(o.task, o.in) ELSE due)
      /\ offer' = [offer EXCEPT ![a] = None]
      /\ started' = (started \/ o.task = Periodic)
  BY StateValues DEF Add, TypeOK, Offer
<1>2. /\ StoreTypeOK'
      /\ \A s \in State, u \in Task :
           In(s, queue, u)' <=> In(s, queue, u) \/ (u = o.task /\ s = o.state)
  <2>1. StoreTypeOK
    BY DEF TypeOK
  <2> QED BY <1>1, <2>1, AddIn
<1>3. due' \in [Task -> Nat]
  BY <1>1, DueTyping DEF TypeOK
<1>4. TimesScheduled'
  <2> SUFFICES ASSUME NEW u \in Task, due'[u] # 0 PROVE In(SCHEDULED, queue, u)'
    BY DEF TimesScheduled
  <2>1. CASE o.state = SCHEDULED /\ u = o.task
    BY <1>2, <2>1, StateValues
  <2>2. CASE ~(o.state = SCHEDULED /\ u = o.task)
    <3>1. due'[u] = due[u]
      BY <1>1, <2>2, DueTyping
    <3> QED BY <1>2, <3>1, StateValues DEF TypeOK
  <2> QED BY <2>1, <2>2
<1>5. offer' \in [Actor -> Offer \cup {None}] /\ started' \in BOOLEAN
  BY <1>1 DEF TypeOK
<1> QED BY <1>1, <1>2, <1>3, <1>4, <1>5

\* Going somewhere.
LEMMA GoTyping ==
  ASSUME TypeOK, NEW w \in Worker, NEW p \in PC, NEW t \in Task \cup {None}, Go(w, p, t)
  PROVE  pc' \in [Worker -> PC] /\ mine' \in [Worker -> Task \cup {None}]
BY DEF Go, TypeOK

\* Nothing is scheduled, taken or asked for at the start.
LEMMA TypeInit == Init => TypeOK
<1> SUFFICES ASSUME Init PROVE TypeOK
  OBVIOUS
<1>1. StoreTypeOK
  BY DEF Init, StoreInit, StoreTypeOK
<1>2. due \in [Task -> Nat] /\ \A t \in Task : due[t] = 0
  BY DEF Init
<1>3. phase \in 0 .. Period - 1
  BY PeriodicConstantsOK DEF Init
<1>4. pc \in [Worker -> PC] /\ mine \in [Worker -> Task \cup {None}]
  BY DEF Init, PC
<1>5. offer \in [Actor -> Offer \cup {None}] /\ started \in BOOLEAN
  BY DEF Init
<1> QED BY <1>1, <1>2, <1>3, <1>4, <1>5 DEF TypeOK

\* The steps that leave Redis alone.
LEMMA TypeLocal ==
  ASSUME TypeOK,
         \/ \E c \in Client, t \in Task, d \in 0..MaxDelay : ClientAsk(c, t, d)
         \/ \E t \in Task, d \in 0..MaxDelay : Update(t, d)
         \/ \E w \in Worker : Start(w) \/ Check(w) \/ AskNext(w) \/ Prepare(w) \/ Crash(w)
         \/ Tick
  PROVE  TypeOK'
<1> USE PeriodicConstantsOK
<1>1. StoreTypeOK /\ (UNCHANGED storeVars => StoreTypeOK')
  BY DEF TypeOK, storeVars, StoreTypeOK
<1>2. UNCHANGED <<storeVars, due>> => TimesScheduled'
  BY DEF TypeOK, TimesScheduled, storeVars, In
<1> USE <1>1, <1>2 DEF TimesScheduled
<1>3. ASSUME NEW c \in Client, NEW t \in Task, NEW d \in 0..MaxDelay, ClientAsk(c, t, d)
      PROVE  TypeOK'
  <2>1. c \in Actor /\ d \in Nat /\ Ask(c, t, d)
    BY <1>3 DEF ClientAsk, Actor
  <2>2. offer' \in [Actor -> Offer \cup {None}]
    BY <2>1, AskTyping
  <2> QED BY <1>3, <2>2 DEF ClientAsk, TypeOK
<1>4. ASSUME NEW t \in Task, NEW d \in 0..MaxDelay, Update(t, d) PROVE TypeOK'
  <2>1. due' \in [Task -> Nat]
    BY <1>4, DueTyping DEF Update
  <2>2. TimesScheduled'
    BY <1>4 DEF Update, DueSet, TypeOK, storeVars, In
  <2> QED BY <1>4, <2>1, <2>2 DEF Update, TypeOK
<1>5. ASSUME NEW w \in Worker, Start(w) PROVE TypeOK'
  BY <1>5, GoTyping DEF Start, TypeOK, PC
<1>6. ASSUME NEW w \in Worker, Check(w) PROVE TypeOK'
  BY <1>6, GoTyping DEF Check, TypeOK, PC
<1>7. ASSUME NEW w \in Worker, AskNext(w) PROVE TypeOK'
  <2>1. w \in Actor /\ Periodic \in Task /\ UntilNext \in Nat /\ Ask(w, Periodic, UntilNext)
    BY <1>7, NextIsLater DEF AskNext, Actor
  <2>2. offer' \in [Actor -> Offer \cup {None}]
    BY <2>1, AskTyping
  <2> QED BY <1>7, <2>2 DEF AskNext, TypeOK
<1>8. ASSUME NEW w \in Worker, Prepare(w) PROVE TypeOK'
  <2>1. mine[w] \in Task \cup {None}
    BY DEF TypeOK
  <2> QED BY <1>8, <2>1, GoTyping DEF Prepare, TypeOK, PC
<1>9. ASSUME NEW w \in Worker, Crash(w) PROVE TypeOK'
  <2>1. offer' \in [Actor -> Offer \cup {None}]
    BY <1>9 DEF Crash, TypeOK
  <2> QED BY <1>9, <2>1, GoTyping DEF Crash, TypeOK, PC
<1>10. CASE Tick
  <2>1. /\ phase' = (phase + 1) % Period
        /\ due' = [t \in Task |-> Minus1(due[t])]
        /\ UNCHANGED <<storeVars, pc, mine, started>>
    BY <1>10 DEF Tick
  <2>2. phase' \in 0 .. Period - 1
    BY <2>1 DEF TypeOK
  <2>3. due' \in [Task -> Nat] /\ \A t \in Task : due'[t] # 0 => due[t] # 0
    BY <2>1 DEF TypeOK, Minus1
  <2>4. TimesScheduled'
    BY <2>1, <2>3 DEF TypeOK, storeVars, In
  <2>5. offer' \in [Actor -> Offer \cup {None}]
    <3> SUFFICES ASSUME NEW a \in Actor
                 PROVE  (IF offer[a] = None THEN None
                         ELSE [offer[a] EXCEPT !.in = Minus1(@)]) \in Offer \cup {None}
      BY <1>10 DEF Tick
    <3>1. offer[a] \in Offer \cup {None}
      BY DEF TypeOK
    <3>2. ASSUME NEW o \in Offer PROVE [o EXCEPT !.in = Minus1(@)] \in Offer
      BY DEF Offer, Minus1
    <3> QED BY <3>1, <3>2
  <2> QED BY <2>1, <2>2, <2>3, <2>4, <2>5 DEF TypeOK
<1> QED BY <1>3, <1>4, <1>5, <1>6, <1>7, <1>8, <1>9, <1>10

\* The other steps.
LEMMA TypeScripts ==
  ASSUME TypeOK,
         \/ \E c \in Client : ClientAdd(c)
         \/ \E t \in Task : Cancel(t) \/ TakeFailed(t)
         \/ \E w \in Worker :
              \/ AddNext(w) \/ Succeed(w) \/ FailTask(w) \/ LockedOut(w)
              \/ \E d \in RetryDelays : RetryTask(w, d)
              \/ \E t \in Task : Pop(w, t) \/ Schedule(w, t) \/ Expire(w, t)
  PROVE  TypeOK'
<1> USE PeriodicConstantsOK, StateValues
<1> StoreTypeOK /\ TimesScheduled
  BY DEF TypeOK, TimesScheduled
<1>1. ASSUME NEW c \in Client, ClientAdd(c) PROVE TypeOK'
  <2>1. Add(c) /\ c \in Actor
    BY <1>1 DEF ClientAdd, Actor
  <2> QED BY <1>1, <2>1, AddTyping DEF ClientAdd, Add, TypeOK, TimesScheduled
<1>2. ASSUME NEW w \in Worker, AddNext(w) PROVE TypeOK'
  <2>1. Add(w) /\ w \in Actor
    BY <1>2 DEF AddNext, Actor
  <2>2. pc' \in [Worker -> PC] /\ mine' \in [Worker -> Task \cup {None}]
    BY <1>2, GoTyping DEF AddNext, TypeOK, PC
  <2> QED BY <2>1, <2>2, AddTyping DEF Add, TypeOK, TimesScheduled
<1>3. ASSUME NEW t \in Task, Cancel(t) PROVE TypeOK'
  <2>1. /\ StoreTypeOK'
        /\ \A s \in State, u \in Task :
             In(s, queue, u)' <=> In(s, queue, u) /\ ~(u = t /\ s = SCHEDULED)
    BY <1>3, RemoveIn DEF Cancel
  <2>2. due' \in [Task -> Nat] /\ due'[t] = 0 /\ \A u \in Task \ {t} : due'[u] = due[u]
    BY <1>3, DueTyping DEF Cancel, DueSet, TypeOK
  <2>3. TimesScheduled'
    BY <2>1, <2>2 DEF TimesScheduled
  <2> QED BY <1>3, <2>1, <2>2, <2>3 DEF Cancel, TypeOK, TimesScheduled
\* Where no time is set and nothing leaves the scheduled set.
<1>4. ASSUME StoreTypeOK', due' = due,
             \A u \in Task : In(SCHEDULED, queue, u) => In(SCHEDULED, queue, u)'
      PROVE  due' \in [Task -> Nat] /\ TimesScheduled'
  BY <1>4 DEF TypeOK, TimesScheduled
<1>5. ASSUME NEW t \in Task, TakeFailed(t) PROVE TypeOK'
  <2>1. StoreTypeOK' /\ \A u \in Task : In(SCHEDULED, queue, u) => In(SCHEDULED, queue, u)'
    <3>1. CASE MoveTask(queue, t, ERROR, QUEUED)
      BY <3>1, MoveIn
    <3>2. CASE RemoveTask(queue, t, ERROR, TRUE)
      BY <3>2, RemoveIn
    <3> QED BY <1>5, <3>1, <3>2 DEF TakeFailed
  <2> QED BY <1>4, <1>5, <2>1 DEF TakeFailed, schedVars, TypeOK, TimesScheduled
<1>6. ASSUME NEW w \in Worker, Succeed(w) PROVE TypeOK'
  <2>1. StoreTypeOK' /\ \A u \in Task : In(SCHEDULED, queue, u) => In(SCHEDULED, queue, u)'
    BY <1>6, RemoveIn DEF Succeed
  <2>2. pc' \in [Worker -> PC] /\ mine' \in [Worker -> Task \cup {None}]
    BY <1>6, GoTyping DEF Succeed, PC
  <2> QED BY <1>4, <1>6, <2>1, <2>2 DEF Succeed, TypeOK, TimesScheduled
<1>7. ASSUME NEW w \in Worker, FailTask(w) PROVE TypeOK'
  <2>1. StoreTypeOK' /\ \A u \in Task : In(SCHEDULED, queue, u) => In(SCHEDULED, queue, u)'
    BY <1>7, MoveIn DEF FailTask
  <2>2. pc' \in [Worker -> PC] /\ mine' \in [Worker -> Task \cup {None}]
    BY <1>7, GoTyping DEF FailTask, PC
  <2> QED BY <1>4, <1>7, <2>1, <2>2 DEF FailTask, TypeOK, TimesScheduled
\* Where the task of the worker is scheduled.
<1>8. ASSUME NEW w \in Worker, NEW d \in Nat, MoveTask(queue, mine[w], ACTIVE, SCHEDULED),
             due' = DueMin(mine[w], d) \/ due' = DueSet(mine[w], d), Go(w, "idle", None),
             UNCHANGED <<phase, offer, started>>
      PROVE  TypeOK'
  <2>0. PICK t : t = mine[w]
    OBVIOUS
  <2>1. /\ t \in Task /\ StoreTypeOK' /\ In(SCHEDULED, queue, t)'
        /\ \A u \in Task : In(SCHEDULED, queue, u) => In(SCHEDULED, queue, u)'
    <3>1. MoveTask(queue, t, ACTIVE, SCHEDULED) /\ ACTIVE \in State /\ SCHEDULED \in State
      BY <1>8, <2>0
    <3> QED BY <3>1, MoveIn
  <2>2. due' \in [Task -> Nat] /\ \A u \in Task \ {t} : due'[u] = due[u]
    <3>1. /\ DueMin(t, d) \in [Task -> Nat] /\ DueSet(t, d) \in [Task -> Nat]
          /\ \A u \in Task \ {t} : DueMin(t, d)[u] = due[u] /\ DueSet(t, d)[u] = due[u]
      BY <2>1, DueTyping
    <3>2. CASE due' = DueMin(t, d)
      BY <3>1, <3>2
    <3>3. CASE due' = DueSet(t, d)
      BY <3>1, <3>3
    <3> QED BY <1>8, <2>0, <3>2, <3>3
  <2>3. TimesScheduled'
    <3> SUFFICES ASSUME NEW u \in Task, due'[u] # 0 PROVE In(SCHEDULED, queue, u)'
      BY DEF TimesScheduled
    <3> QED BY <2>1, <2>2 DEF TimesScheduled
  <2>4. pc' \in [Worker -> PC] /\ mine' \in [Worker -> Task \cup {None}]
    BY <1>8, GoTyping DEF PC
  <2> QED BY <1>8, <2>1, <2>2, <2>3, <2>4 DEF TypeOK, TimesScheduled
<1>9. ASSUME NEW w \in Worker, LockedOut(w) PROVE TypeOK'
  BY <1>8, <1>9 DEF LockedOut
<1>10. ASSUME NEW w \in Worker, NEW d \in RetryDelays, RetryTask(w, d) PROVE TypeOK'
  BY <1>8, <1>10 DEF RetryTask
<1>11. ASSUME NEW w \in Worker, NEW t \in Task, Pop(w, t) PROVE TypeOK'
  <2>1. /\ StoreTypeOK'
        /\ t \in PopMoved(queue, {t}) <=> ~In(ACTIVE, queue, t)
        /\ \A u \in Task : In(SCHEDULED, queue, u) => In(SCHEDULED, queue, u)'
        /\ In(ACTIVE, queue, t) => In(SCHEDULED, queue, t)'
    BY <1>11, PopIn DEF Pop
  <2>2. CASE In(ACTIVE, queue, t)
    <3>1. due' = DueMin(t, LockRetry) /\ UNCHANGED <<pc, mine, phase, offer, started>>
      BY <1>11, <2>1, <2>2 DEF Pop
    <3>2. due' \in [Task -> Nat] /\ \A u \in Task \ {t} : due'[u] = due[u]
      <4>1. LockRetry \in Nat
        OBVIOUS
      <4>2. /\ DueMin(t, LockRetry) \in [Task -> Nat]
            /\ \A u \in Task \ {t} : DueMin(t, LockRetry)[u] = due[u]
        BY <4>1, DueTyping
      <4> QED BY <3>1, <4>2
    <3>3. TimesScheduled'
      <4> SUFFICES ASSUME NEW u \in Task, due'[u] # 0 PROVE In(SCHEDULED, queue, u)'
        BY DEF TimesScheduled
      <4> QED BY <2>1, <2>2, <3>2 DEF TimesScheduled
    <3> QED BY <2>1, <3>1, <3>2, <3>3 DEF TypeOK, TimesScheduled
  <2>3. CASE ~In(ACTIVE, queue, t)
    <3>1. Go(w, "took", t) /\ UNCHANGED <<due, phase, offer, started>>
      BY <1>11, <2>1, <2>3 DEF Pop
    <3>2. pc' \in [Worker -> PC] /\ mine' \in [Worker -> Task \cup {None}]
      BY <3>1, GoTyping DEF PC
    <3> QED BY <1>4, <2>1, <3>1, <3>2 DEF TypeOK, TimesScheduled
  <2> QED BY <2>2, <2>3
<1>12. ASSUME NEW w \in Worker, NEW t \in Task, Schedule(w, t) PROVE TypeOK'
  <2>1. /\ StoreTypeOK' /\ due[t] = 0 /\ UNCHANGED schedVars
        /\ \A u \in Task \ {t} : In(SCHEDULED, queue, u) => In(SCHEDULED, queue, u)'
    BY <1>12, QueueIn DEF Schedule
  <2>2. TimesScheduled'
    BY <2>1 DEF TimesScheduled, schedVars
  <2> QED BY <2>1, <2>2 DEF schedVars, TypeOK, TimesScheduled
<1>13. ASSUME NEW w \in Worker, NEW t \in Task, Expire(w, t) PROVE TypeOK'
  <2>1. StoreTypeOK' /\ \A u \in Task : In(SCHEDULED, queue, u) => In(SCHEDULED, queue, u)'
    <3>1. PICK to \in {QUEUED, ERROR} : MoveTask(queue, t, ACTIVE, to)
      BY <1>13 DEF Expire
    <3> QED BY <3>1, MoveIn
  <2> QED BY <1>4, <1>13, <2>1 DEF Expire, schedVars, TypeOK, TimesScheduled
<1> QED BY <1>1, <1>2, <1>3, <1>5, <1>6, <1>7, <1>9, <1>10, <1>11, <1>12, <1>13

(* The types of what clients and workers do with times: in particular only  *)
(* a task in the scheduled set has one, whatever scripts run in between.    *)
THEOREM TypeCorrect == Spec => []TypeOK
<1>1. TypeOK /\ [Next]_vars => TypeOK'
  <2> SUFFICES ASSUME TypeOK, [Next]_vars PROVE TypeOK'
    OBVIOUS
  <2>1. CASE UNCHANGED vars
    BY <2>1 DEF vars, schedVars, storeVars, TypeOK, StoreTypeOK, In
  <2>2. CASE Next
    BY <2>2, TypeLocal, TypeScripts DEF Next, ClientStep, GoOn
  <2> QED BY <2>1, <2>2
<1> QED BY <1>1, TypeInit, PTL DEF Spec

-----------------------------------------------------------------------------
(* The chain.                                                               *)

\* A worker that takes a task leaves with it, or dies; it asks for the next period
\* only.
Hands ==
  \A w \in Worker :
    /\ pc[w] \in {"off", "check", "idle"} => mine[w] = None
    /\ pc[w] = "ask" => mine[w] \in {None, Periodic}
    /\ pc[w] \in {"took", "exec"} => mine[w] # None
    /\ offer[w] # None => pc[w] = "ask" /\ offer[w].task = Periodic

\* What a worker has taken is active, and no other worker has taken it.
TakenOnce ==
  \A w \in Worker, t \in Task : mine[w] = t =>
    In(ACTIVE, queue, t) /\ \A v \in Worker \ {w} : mine[v] # t

\* Without crashes, what is active is in the hands of a worker.
NoneLeft ==
  MayCrash = {} => \A t \in Task : In(ACTIVE, queue, t) => \E w \in Worker : mine[w] = t

Waiting == In(QUEUED, queue, Periodic) \/ In(SCHEDULED, queue, Periodic)

\* While the periodic task is executed, its next period waits.
NextThere == started => \A w \in Worker : pc[w] = "exec" /\ mine[w] = Periodic => Waiting

ChainInv == Hands /\ TakenOnce /\ NoneLeft /\ NextThere /\ ChainAlive

(* Either a periodic task whose worker dies is retried, or workers do not   *)
(* die: one that is not retried goes to the error set before it asks for    *)
(* its next period, and only a worker that starts schedules it again.       *)
Robust == Periodic \in Idempotent \/ MayCrash = {}

\* No chain has begun at the start.
LEMMA ChainInit == Init => ChainInv
<1> SUFFICES ASSUME Init PROVE ChainInv
  OBVIOUS
<1>1. /\ \A w \in Worker : pc[w] = "off" /\ mine[w] = None /\ offer[w] = None
      /\ started = FALSE /\ \A t \in Task : ~In(ACTIVE, queue, t)
  BY StateValues, OneQueue DEF Init, StoreInit, In, Actor
<1>2. None \notin Task
  BY PeriodicConstantsOK
<1> QED BY <1>1, <1>2 DEF ChainInv, Hands, TakenOnce, NoneLeft, NextThere, ChainAlive

\* Where w goes and what it takes along.
LEMMA GoSteps ==
  ASSUME TypeOK, NEW w \in Worker, NEW p, NEW t, Go(w, p, t)
  PROVE  /\ pc'[w] = p /\ mine'[w] = t
         /\ \A v \in Worker \ {w} : pc'[v] = pc[v] /\ mine'[v] = mine[v]
BY DEF Go, TypeOK

\* What a store that is left alone keeps.
LEMMA StillStore ==
  ASSUME UNCHANGED <<storeVars, started>>
  PROVE  /\ \A s \in State, t \in Task \cup {None} : In(s, queue, t)' <=> In(s, queue, t)
         /\ Waiting' <=> Waiting
         /\ ChainAlive => ChainAlive'
BY DEF storeVars, In, Waiting, ChainAlive, HeldOutside

\* A step of a worker that takes nothing and leaves Redis alone.
LEMMA ChainLocal ==
  ASSUME TypeOK, ChainInv, NEW w \in Worker,
         Start(w) \/ Check(w) \/ AskNext(w) \/ Prepare(w) \/ Crash(w)
  PROVE  ChainInv'
<1>1. UNCHANGED <<storeVars, started>>
  BY DEF Start, Check, AskNext, Prepare, Crash
<1>2. /\ \A v \in Worker \ {w} : pc'[v] = pc[v] /\ mine'[v] = mine[v] /\ offer'[v] = offer[v]
      /\ mine'[w] = mine[w] \/ (mine'[w] = None /\ (mine[w] = None \/ w \in MayCrash))
      /\ pc'[w] = "exec" => mine'[w] # Periodic
      /\ Hands'
  <2> USE DEF Hands, ChainInv
  <2>1. CASE Start(w)
    <3>1. Go(w, "check", None) /\ pc[w] = "off" /\ offer' = offer
      BY <2>1 DEF Start
    <3> QED BY <3>1, GoSteps
  <2>2. CASE Check(w)
    <3>1. PICK p \in {"idle", "ask"} : Go(w, p, None) /\ pc[w] = "check" /\ offer' = offer
      BY <2>2 DEF Check
    <3> QED BY <3>1, GoSteps
  <2>3. CASE AskNext(w)
    <3>1. /\ pc' = pc /\ mine' = mine /\ pc[w] = "ask" /\ offer'[w].task = Periodic
          /\ \A v \in Worker \ {w} : offer'[v] = offer[v]
      BY <2>3 DEF AskNext, Ask, TypeOK, Actor
    <3> QED BY <3>1
  <2>4. CASE Prepare(w)
    <3>1. PICK p \in {"ask", "exec"} : /\ Go(w, p, mine[w]) /\ pc[w] = "took" /\ offer' = offer
                                       /\ p = "ask" <=> mine[w] = Periodic
      BY <2>4 DEF Prepare
    <3> QED BY <3>1, GoSteps
  <2>5. CASE Crash(w)
    <3>1. Go(w, "off", None) /\ w \in MayCrash /\ offer' = [offer EXCEPT ![w] = None]
      BY <2>5 DEF Crash
    <3>2. \A v \in Worker : offer'[v] = IF v = w THEN None ELSE offer[v]
      BY <3>1 DEF TypeOK, Actor
    <3> QED BY <3>1, <3>2, GoSteps
  <2> QED BY <2>1, <2>2, <2>3, <2>4, <2>5
<1>3. TakenOnce'
  <2> SUFFICES ASSUME NEW v \in Worker, NEW t \in Task, mine'[v] = t
               PROVE  In(ACTIVE, queue, t)' /\ \A x \in Worker \ {v} : mine'[x] # t
    BY DEF TakenOnce
  <2>1. None # t
    BY PeriodicConstantsOK
  <2>2. mine[v] = t /\ \A x \in Worker : mine'[x] = mine[x] \/ mine'[x] = None
    BY <1>2, <2>1
  <2>3. In(ACTIVE, queue, t) /\ \A x \in Worker \ {v} : mine[x] # t
    BY <2>2 DEF ChainInv, TakenOnce
  <2>4. In(ACTIVE, queue, t)'
    BY <1>1, <2>3 DEF storeVars, In
  <2> QED BY <2>1, <2>2, <2>3, <2>4
<1>4. NoneLeft'
  <2>1. MayCrash = {} => \A v \in Worker : mine'[v] = mine[v]
    BY <1>2
  <2> QED BY <1>1, <2>1, StillStore, StateValues DEF ChainInv, NoneLeft
<1>5. NextThere'
  BY <1>1, <1>2, StillStore DEF ChainInv, NextThere
<1> QED BY <1>1, <1>2, <1>3, <1>4, <1>5, StillStore DEF ChainInv

\* Clients that leave Redis's sets alone, and time.
LEMMA ChainStill ==
  ASSUME TypeOK, ChainInv,
         \/ \E c \in Client, t \in Task, d \in 0..MaxDelay : ClientAsk(c, t, d)
         \/ \E t \in Task, d \in 0..MaxDelay : Update(t, d)
         \/ Tick
         \/ UNCHANGED vars
  PROVE  ChainInv'
<1>1. UNCHANGED <<storeVars, started, pc, mine>>
  BY DEF ClientAsk, Update, Tick, vars, schedVars
<1>2. \A w \in Worker : offer'[w] # None => offer[w] # None /\ offer'[w].task = offer[w].task
  <2>1. ASSUME NEW c \in Client, NEW t \in Task, NEW d \in 0..MaxDelay, ClientAsk(c, t, d)
        PROVE  \A w \in Worker : offer'[w] = offer[w]
    BY <2>1, PeriodicConstantsOK DEF ClientAsk, Ask, TypeOK, Actor
  <2>2. CASE Tick
    <3> SUFFICES ASSUME NEW w \in Worker, offer'[w] # None
                 PROVE  offer[w] # None /\ offer'[w].task = offer[w].task
      OBVIOUS
    <3>1. w \in Actor /\ offer[w] \in Offer \cup {None}
      BY DEF TypeOK, Actor
    <3>2. offer'[w] = IF offer[w] = None THEN None ELSE [offer[w] EXCEPT !.in = Minus1(@)]
      BY <2>2, <3>1 DEF Tick
    <3> QED BY <3>1, <3>2 DEF Offer
  <2> QED BY <2>1, <2>2 DEF Update, vars, schedVars
<1>3. Hands'
  BY <1>1, <1>2 DEF ChainInv, Hands
<1>4. TakenOnce' /\ NoneLeft' /\ NextThere' /\ ChainAlive'
  BY <1>1 DEF ChainInv, TakenOnce, NoneLeft, NextThere, ChainAlive, HeldOutside, Waiting,
              storeVars, In
<1> QED BY <1>3, <1>4 DEF ChainInv

\* The periodic task is in one of three places.
LEMMA AliveMeans == ChainAlive <=> (started => Waiting \/ In(ACTIVE, queue, Periodic))
BY StateValues DEF ChainAlive, Waiting, HeldOutside

\* A script at which no worker goes anywhere and no active entry comes or goes.
LEMMA ChainPlaces ==
  ASSUME ChainInv, UNCHANGED <<pc, mine>>, Hands',
         \A u \in Task : In(ACTIVE, queue, u)' <=> In(ACTIVE, queue, u),
         started' => Waiting' \/ (started /\ (Waiting => Waiting'))
  PROVE  ChainInv'
<1>1. TakenOnce' /\ NoneLeft'
  BY DEF ChainInv, TakenOnce, NoneLeft
<1>2. NextThere'
  BY DEF ChainInv, NextThere
<1>3. ChainAlive'
  <2>1. started => Waiting \/ In(ACTIVE, queue, Periodic)
    BY AliveMeans DEF ChainInv
  <2>2. started' => Waiting' \/ In(ACTIVE, queue, Periodic)'
    BY <2>1, PeriodicConstantsOK
  <2> QED BY <2>2, StateValues DEF ChainAlive, Waiting, HeldOutside
<1> QED BY <1>1, <1>2, <1>3 DEF ChainInv

\* A worker is done with a task, which leaves the active set and no other place of its.
LEMMA ChainLeave ==
  ASSUME TypeOK, ChainInv, NEW w \in Worker, NEW t \in Task, mine[w] = t,
         pc[w] \in {"took", "exec"}, Go(w, "idle", None), UNCHANGED <<offer, started>>,
         \A s \in State, u \in Task \ {t} : In(s, queue, u)' <=> In(s, queue, u),
         ~In(ACTIVE, queue, t)',
         \A s \in {QUEUED, SCHEDULED} : In(s, queue, t) => In(s, queue, t)',
         pc[w] = "took" => In(SCHEDULED, queue, t)'
  PROVE  ChainInv'
<1> USE StateValues
<1>1. /\ pc'[w] = "idle" /\ mine'[w] = None
      /\ \A v \in Worker \ {w} : pc'[v] = pc[v] /\ mine'[v] = mine[v]
  BY GoSteps
<1>2. \A v \in Worker \ {w} : mine[v] # t
  BY DEF ChainInv, TakenOnce
<1>3. None \notin Task /\ Periodic \in Task
  BY PeriodicConstantsOK
<1>4. Hands'
  BY <1>1 DEF ChainInv, Hands
<1>5. TakenOnce'
  <2> SUFFICES ASSUME NEW v \in Worker, NEW u \in Task, mine'[v] = u
               PROVE  In(ACTIVE, queue, u)' /\ \A x \in Worker \ {v} : mine'[x] # u
    BY DEF TakenOnce
  <2>1. v # w /\ mine[v] = u /\ u # t
    BY <1>1, <1>2, <1>3
  <2>2. In(ACTIVE, queue, u) /\ \A x \in Worker \ {v} : mine[x] # u
    BY <2>1 DEF ChainInv, TakenOnce
  <2> QED BY <1>1, <1>3, <2>1, <2>2
<1>6. NoneLeft'
  <2> SUFFICES ASSUME MayCrash = {}, NEW u \in Task, In(ACTIVE, queue, u)'
               PROVE  \E v \in Worker : mine'[v] = u
    BY DEF NoneLeft
  <2>1. u # t /\ In(ACTIVE, queue, u)
    OBVIOUS
  <2>2. PICK v \in Worker : mine[v] = u
    BY <2>1 DEF ChainInv, NoneLeft
  <2> QED BY <1>1, <2>1, <2>2
<1>7. Waiting => Waiting'
  BY <1>3 DEF Waiting
<1>8. NextThere'
  BY <1>1, <1>7 DEF ChainInv, NextThere
<1>9. ChainAlive'
  <2> SUFFICES ASSUME started PROVE Waiting' \/ In(ACTIVE, queue, Periodic)'
    BY DEF ChainAlive, Waiting, HeldOutside
  <2>1. Waiting \/ In(ACTIVE, queue, Periodic)
    BY AliveMeans DEF ChainInv
  <2>2. CASE t # Periodic
    BY <1>3, <1>7, <2>1, <2>2
  <2>3. CASE t = Periodic /\ pc[w] = "took"
    BY <2>3 DEF Waiting
  <2>4. CASE t = Periodic /\ pc[w] = "exec"
    BY <1>7, <2>4 DEF ChainInv, NextThere
  <2> QED BY <2>2, <2>3, <2>4
<1> QED BY <1>4, <1>5, <1>6, <1>8, <1>9 DEF ChainInv

\* The end of an execution, whichever it is, and the lock that is not free.
LEMMA ChainDone ==
  ASSUME TypeOK, ChainInv, NEW w \in Worker,
         \/ Succeed(w) \/ FailTask(w) \/ LockedOut(w)
         \/ \E d \in RetryDelays : RetryTask(w, d)
  PROVE  ChainInv'
<1> USE StateValues
<1>0. StoreTypeOK
  BY DEF TypeOK
<1>1. PICK t : t = mine[w]
  OBVIOUS
<1>2. /\ pc[w] \in {"took", "exec"} /\ Go(w, "idle", None) /\ UNCHANGED <<offer, started>>
      /\ \/ RemoveTask(queue, t, ACTIVE, TRUE) /\ pc[w] = "exec"
         \/ MoveTask(queue, t, ACTIVE, ERROR) /\ pc[w] = "exec"
         \/ MoveTask(queue, t, ACTIVE, SCHEDULED)
  BY <1>1 DEF Succeed, FailTask, LockedOut, RetryTask
<1>3. /\ t \in Task
      /\ \A s \in State, u \in Task \ {t} : In(s, queue, u)' <=> In(s, queue, u)
      /\ ~In(ACTIVE, queue, t)'
      /\ \A s \in {QUEUED, SCHEDULED} : In(s, queue, t) => In(s, queue, t)'
      /\ pc[w] = "took" => In(SCHEDULED, queue, t)'
  <2>1. CASE RemoveTask(queue, t, ACTIVE, TRUE) /\ pc[w] = "exec"
    BY <1>0, <2>1, RemoveIn
  <2>2. CASE MoveTask(queue, t, ACTIVE, ERROR) /\ pc[w] = "exec"
    BY <1>0, <2>2, MoveIn
  <2>3. CASE MoveTask(queue, t, ACTIVE, SCHEDULED)
    BY <1>0, <2>3, MoveIn
  <2> QED BY <1>2, <2>1, <2>2, <2>3
<1>4. mine[w] = t
  BY <1>1
<1> QED BY <1>2, <1>3, <1>4, ChainLeave

\* The next period is added; then the execution begins.
LEMMA ChainAddNext ==
  ASSUME TypeOK, ChainInv, NEW w \in Worker, AddNext(w)
  PROVE  ChainInv'
<1> USE StateValues
<1>1. w \in Actor /\ Add(w) /\ pc[w] = "ask"
  BY DEF AddNext, Actor
<1>2. offer[w].task = Periodic /\ offer[w].state \in {QUEUED, SCHEDULED}
  <2>1. offer[w] # None /\ offer[w] \in Offer \cup {None}
    BY <1>1 DEF Add, TypeOK
  <2> QED BY <2>1 DEF Offer, ChainInv, Hands
<1>3. /\ \A v \in Worker : offer'[v] = IF v = w THEN None ELSE offer[v]
      /\ started' = TRUE
  BY <1>1, <1>2 DEF Add, TypeOK, Actor
<1>4. PICK s0 \in {QUEUED, SCHEDULED} : s0 = offer[w].state
  BY <1>2
<1>5. \A s \in State, u \in Task :
        In(s, queue, u)' <=> In(s, queue, u) \/ (u = Periodic /\ s = s0)
  BY <1>1, <1>2, <1>4, AddTyping
<1>6. PICK p : p = IF mine[w] = None THEN "idle" ELSE "exec"
  OBVIOUS
<1>7. /\ pc'[w] = p /\ mine'[w] = mine[w]
      /\ \A v \in Worker \ {w} : pc'[v] = pc[v] /\ mine'[v] = mine[v]
  <2>1. Go(w, p, mine[w])
    BY <1>6 DEF AddNext
  <2> QED BY <2>1, GoSteps
<1>8. Periodic \in Task
  BY PeriodicConstantsOK
<1>9. Waiting'
  BY <1>4, <1>5, <1>8 DEF Waiting
<1>10. Hands'
  BY <1>1, <1>3, <1>6, <1>7 DEF ChainInv, Hands
<1>11. TakenOnce' /\ NoneLeft'
  <2>1. \A v \in Worker : mine'[v] = mine[v]
    BY <1>7
  <2>2. \A u \in Task : In(ACTIVE, queue, u)' <=> In(ACTIVE, queue, u)
    BY <1>4, <1>5
  <2> QED BY <2>1, <2>2 DEF ChainInv, TakenOnce, NoneLeft
<1>12. NextThere' /\ ChainAlive'
  BY <1>9 DEF NextThere, ChainAlive, Waiting, HeldOutside
<1> QED BY <1>10, <1>11, <1>12 DEF ChainInv

\* A worker takes a task, or puts off one that is active.
LEMMA ChainPop ==
  ASSUME TypeOK, ChainInv, NEW w \in Worker, NEW t \in Task, Pop(w, t)
  PROVE  ChainInv'
<1> USE StateValues, PeriodicConstantsOK
<1>1. /\ t \in PopMoved(queue, {t}) <=> ~In(ACTIVE, queue, t)
      /\ \A s \in State, u \in Task :
           In(s, queue, u)' <=>
             IF u # t THEN In(s, queue, u)
             ELSE \/ s = ACTIVE
                  \/ s = SCHEDULED /\ (In(SCHEDULED, queue, t) \/ In(ACTIVE, queue, t))
                  \/ s = ERROR /\ In(ERROR, queue, t)
  BY PopIn DEF Pop, TypeOK
<1>2. UNCHANGED <<offer, started>> /\ pc[w] = "idle"
  BY DEF Pop
<1>3. CASE In(ACTIVE, queue, t)
  <2>1. UNCHANGED <<pc, mine>>
    BY <1>1, <1>3 DEF Pop
  <2>2. Hands'
    BY <1>2, <2>1 DEF ChainInv, Hands
  <2>3. Waiting => Waiting'
    BY <1>1, <1>3 DEF Waiting
  <2>4. \A u \in Task : In(ACTIVE, queue, u)' <=> In(ACTIVE, queue, u)
    BY <1>1, <1>3
  <2> QED BY <1>2, <2>1, <2>2, <2>3, <2>4, ChainPlaces
<1>4. CASE ~In(ACTIVE, queue, t)
  <2>1. /\ pc'[w] = "took" /\ mine'[w] = t
        /\ \A v \in Worker \ {w} : pc'[v] = pc[v] /\ mine'[v] = mine[v]
    BY <1>1, <1>4, GoSteps DEF Pop
  <2>2. \A v \in Worker : mine[v] # t
    BY <1>4 DEF ChainInv, TakenOnce
  <2>3. Hands'
    BY <1>2, <2>1 DEF ChainInv, Hands
  <2>4. TakenOnce'
    <3> SUFFICES ASSUME NEW v \in Worker, NEW u \in Task, mine'[v] = u
                 PROVE  In(ACTIVE, queue, u)' /\ \A x \in Worker \ {v} : mine'[x] # u
      BY DEF TakenOnce
    <3>1. CASE v = w
      BY <1>1, <2>1, <2>2, <3>1
    <3>2. CASE v # w
      <4>1. mine[v] = u /\ u # t
        BY <2>1, <2>2, <3>2
      <4>2. In(ACTIVE, queue, u) /\ \A x \in Worker \ {v} : mine[x] # u
        BY <4>1 DEF ChainInv, TakenOnce
      <4> QED BY <1>1, <2>1, <4>1, <4>2
    <3> QED BY <3>1, <3>2
  <2>5. NoneLeft'
    <3> SUFFICES ASSUME MayCrash = {}, NEW u \in Task, In(ACTIVE, queue, u)'
                 PROVE  \E v \in Worker : mine'[v] = u
      BY DEF NoneLeft
    <3>1. CASE u = t
      BY <2>1, <3>1
    <3>2. CASE u # t
      <4>1. PICK v \in Worker : mine[v] = u
        BY <1>1, <3>2 DEF ChainInv, NoneLeft
      <4>2. mine[w] = None
        BY <1>2 DEF ChainInv, Hands
      <4> QED BY <2>1, <4>1, <4>2
    <3> QED BY <3>1, <3>2
  <2>6. NextThere'
    <3> SUFFICES ASSUME started, NEW v \in Worker, pc'[v] = "exec", mine'[v] = Periodic
                 PROVE  Waiting'
      BY <1>2 DEF NextThere
    <3>1. v # w /\ pc[v] = "exec" /\ mine[v] = Periodic
      BY <2>1
    <3>2. Waiting /\ t # Periodic
      BY <2>2, <3>1 DEF ChainInv, NextThere
    <3> QED BY <1>1, <3>2 DEF Waiting
  <2>7. ChainAlive'
    <3> SUFFICES ASSUME started PROVE Waiting' \/ In(ACTIVE, queue, Periodic)'
      BY <1>2 DEF ChainAlive, Waiting, HeldOutside
    <3>1. Waiting \/ In(ACTIVE, queue, Periodic)
      BY AliveMeans DEF ChainInv
    <3> QED BY <1>1, <3>1 DEF Waiting
  <2> QED BY <2>3, <2>4, <2>5, <2>6, <2>7 DEF ChainInv
<1> QED BY <1>3, <1>4

\* What clients do to the sets, and the maintenance of scheduled tasks.
LEMMA ChainScripts ==
  ASSUME TypeOK, ChainInv,
         \/ \E c \in Client : ClientAdd(c)
         \/ \E t \in Task : Cancel(t) \/ TakeFailed(t)
         \/ \E w \in Worker, t \in Task : Schedule(w, t)
  PROVE  ChainInv'
<1> USE StateValues, PeriodicConstantsOK
<1>0. StoreTypeOK
  BY DEF TypeOK
<1>1. ASSUME NEW c \in Client, ClientAdd(c) PROVE ChainInv'
  <2>1. /\ c \in Actor /\ Add(c) /\ UNCHANGED <<pc, mine>>
        /\ \A v \in Worker : v \in Actor /\ v # c
    BY <1>1 DEF ClientAdd, Actor
  <2>2. offer[c].state \in {QUEUED, SCHEDULED}
    BY <2>1 DEF Add, TypeOK, Offer
  <2>3. PICK t, s0 : t = offer[c].task /\ s0 = offer[c].state
    OBVIOUS
  <2>4. /\ \A s \in State, u \in Task :
             In(s, queue, u)' <=> In(s, queue, u) \/ (u = t /\ s = s0)
        /\ started' = (started \/ t = Periodic)
    BY <2>1, <2>3, AddTyping DEF Add
  <2>5. \A v \in Worker : offer'[v] = offer[v]
    BY <2>1 DEF Add, TypeOK
  <2>6. Hands'
    BY <2>1, <2>5 DEF ChainInv, Hands
  <2>7. \A u \in Task : In(ACTIVE, queue, u)' <=> In(ACTIVE, queue, u)
    BY <2>2, <2>3, <2>4
  <2>8. started' => Waiting' \/ (started /\ (Waiting => Waiting'))
    BY <2>2, <2>3, <2>4 DEF Waiting
  <2> QED BY <2>1, <2>6, <2>7, <2>8, ChainPlaces
\* Nothing but what is queued, scheduled or in error moves.
<1>2. ASSUME UNCHANGED <<pc, mine, offer>>,
             \A u \in Task : In(ACTIVE, queue, u)' <=> In(ACTIVE, queue, u),
             started' => started /\ (Waiting => Waiting')
      PROVE  ChainInv'
  <2>1. Hands'
    BY <1>2 DEF ChainInv, Hands
  <2> QED BY <1>2, <2>1, ChainPlaces
<1>3. ASSUME NEW t \in Task, Cancel(t) PROVE ChainInv'
  <2>1. \A s \in State, u \in Task :
          In(s, queue, u)' <=> In(s, queue, u) /\ ~(u = t /\ s = SCHEDULED)
    BY <1>0, <1>3, RemoveIn DEF Cancel
  <2>2. UNCHANGED <<pc, mine, offer>> /\ started' = (started /\ t # Periodic)
    BY <1>3 DEF Cancel
  <2> QED BY <1>2, <2>1, <2>2 DEF Waiting
<1>4. ASSUME NEW t \in Task, TakeFailed(t) PROVE ChainInv'
  <2>1. \A s \in State \ {ERROR}, u \in Task : In(s, queue, u) => In(s, queue, u)'
    <3>1. CASE MoveTask(queue, t, ERROR, QUEUED)
      BY <1>0, <3>1, MoveIn
    <3>2. CASE RemoveTask(queue, t, ERROR, TRUE)
      BY <1>0, <3>2, RemoveIn
    <3> QED BY <1>4, <3>1, <3>2 DEF TakeFailed
  <2>2. \A u \in Task : In(ACTIVE, queue, u)' => In(ACTIVE, queue, u)
    <3>1. CASE MoveTask(queue, t, ERROR, QUEUED)
      BY <1>0, <3>1, MoveIn
    <3>2. CASE RemoveTask(queue, t, ERROR, TRUE)
      BY <1>0, <3>2, RemoveIn
    <3> QED BY <1>4, <3>1, <3>2 DEF TakeFailed
  <2>3. UNCHANGED <<pc, mine, offer, started>>
    BY <1>4 DEF TakeFailed, schedVars
  <2> QED BY <1>2, <2>1, <2>2, <2>3 DEF Waiting
<1>5. ASSUME NEW w \in Worker, NEW t \in Task, Schedule(w, t) PROVE ChainInv'
  <2>1. \A s \in State, u \in Task :
          In(s, queue, u)' <=> IF u = t THEN s = QUEUED \/ (s # SCHEDULED /\ In(s, queue, u))
                               ELSE In(s, queue, u)
    BY <1>0, <1>5, QueueIn DEF Schedule
  <2>2. UNCHANGED <<pc, mine, offer, started>>
    BY <1>5 DEF Schedule, schedVars
  <2> QED BY <1>2, <2>1, <2>2 DEF Waiting
<1> QED BY <1>1, <1>3, <1>4, <1>5

\* What a worker that is gone has left: here the periodic task needs to be robust.
LEMMA ChainExpire ==
  ASSUME TypeOK, ChainInv, Robust, NEW w \in Worker, NEW t \in Task, Expire(w, t)
  PROVE  ChainInv'
<1> USE StateValues, PeriodicConstantsOK
<1>1. UNCHANGED <<pc, mine, offer, started>> /\ \A v \in Worker : mine[v] # t
  BY DEF Expire, schedVars
<1>2. PICK to \in {QUEUED, ERROR} :
        MoveTask(queue, t, ACTIVE, to) /\ (t \in Idempotent => to = QUEUED)
  BY DEF Expire
<1>3. /\ In(ACTIVE, queue, t)
      /\ \A s \in State, u \in Task :
           In(s, queue, u)' <=> IF u = t THEN s = to \/ (s # ACTIVE /\ In(s, queue, u))
                                ELSE In(s, queue, u)
  BY <1>2, MoveIn DEF TypeOK
<1>4. Hands'
  BY <1>1 DEF ChainInv, Hands
<1>5. TakenOnce'
  BY <1>1, <1>3 DEF ChainInv, TakenOnce
<1>6. NoneLeft'
  BY <1>1, <1>3 DEF ChainInv, NoneLeft
<1>7. Waiting => Waiting'
  BY <1>3 DEF Waiting
<1>8. NextThere'
  BY <1>1, <1>7 DEF ChainInv, NextThere
<1>9. ChainAlive'
  <2> SUFFICES ASSUME started PROVE Waiting' \/ In(ACTIVE, queue, Periodic)'
    BY <1>1 DEF ChainAlive, Waiting, HeldOutside
  <2>1. Waiting \/ In(ACTIVE, queue, Periodic)
    BY AliveMeans DEF ChainInv
  <2>2. MayCrash # {}
    BY <1>1, <1>3 DEF ChainInv, NoneLeft
  <2>3. t = Periodic => to = QUEUED
    BY <1>2, <2>2 DEF Robust
  <2> QED BY <1>3, <1>7, <2>1, <2>3 DEF Waiting
<1> QED BY <1>4, <1>5, <1>6, <1>8, <1>9 DEF ChainInv

(* The chain of executions of a periodic task never breaks: from the time   *)
(* it is first scheduled until somebody cancels it, it is queued, active or *)
(* scheduled, however clients, retries, locks and deferrals use its entry.  *)
(* By the time it is executed, its next period already waits, so nothing    *)
(* that comes out of an execution matters; before, it is active, and comes  *)
(* back when its worker dies.                                               *)
THEOREM ChainUnbroken ==
  ASSUME Robust
  PROVE  Spec => []ChainAlive
<1>1. TypeOK /\ ChainInv /\ [Next]_vars => ChainInv'
  <2> SUFFICES ASSUME TypeOK, ChainInv, [Next]_vars PROVE ChainInv'
    OBVIOUS
  <2>1. CASE UNCHANGED vars
    BY <2>1, ChainStill
  <2>2. CASE ClientStep \/ Tick
    BY <2>2, ChainStill, ChainScripts DEF ClientStep
  <2>3. ASSUME NEW w \in Worker, GoOn(w) \/ LockedOut(w) \/ Crash(w) PROVE ChainInv'
    BY <2>3, ChainLocal, ChainAddNext, ChainDone DEF GoOn
  <2>4. ASSUME NEW w \in Worker, NEW t \in Task, Pop(w, t) \/ Schedule(w, t) \/ Expire(w, t)
        PROVE  ChainInv'
    BY <2>4, ChainPop, ChainScripts, ChainExpire
  <2> QED BY <2>1, <2>2, <2>3, <2>4 DEF Next
<1>2. ChainInv => ChainAlive
  BY DEF ChainInv
<1> QED BY <1>1, <1>2, ChainInit, TypeCorrect, PTL DEF Spec

-----------------------------------------------------------------------------
(* Times.                                                                   *)

(* Only an update by a client and a retry put a scheduled task off: all     *)
(* other writers of its time, a deferral because it is active, the lock     *)
(* that is not free, another request with a date of its own, leave it or    *)
(* bring it forward.                                                        *)
THEOREM PutOffOnlyByRequest == Spec => NotProlonged
<1> DEFINE PutOff(t) == In(SCHEDULED, queue, t) /\ In(SCHEDULED, queue, t)' /\ due'[t] > due[t]
           Asked(t) == \/ \E d \in 0..MaxDelay : Update(t, d)
                       \/ \E w \in Worker, d \in RetryDelays : mine[w] = t /\ RetryTask(w, d)
<1>1. TypeOK /\ [Next]_vars => [\A t \in Task : PutOff(t) => Asked(t)]_vars
  <2> SUFFICES ASSUME TypeOK, Next, NEW t \in Task, PutOff(t) PROVE Asked(t)
    OBVIOUS
  <2> USE PeriodicConstantsOK
  <2>1. due[t] \in Nat /\ due' # due
    BY DEF TypeOK
  <2>2. ASSUME NEW a \in Actor, Add(a) PROVE FALSE
    <3>1. offer[a].task \in Task /\ offer[a].in \in Nat
      BY <2>2 DEF Add, TypeOK, Offer
    <3>2. due' = DueNX(offer[a].task, offer[a].in)
      BY <2>1, <2>2 DEF Add
    <3> QED BY <2>1, <3>1, <3>2 DEF TypeOK, DueNX
  <2>3. ASSUME NEW u \in Task, NEW d \in 0..MaxDelay, Update(u, d) PROVE Asked(t)
    <3>1. u = t
      BY <2>1, <2>3 DEF Update, DueSet, TypeOK
    <3> QED BY <2>3, <3>1
  <2>4. ASSUME NEW w \in Worker, NEW d \in RetryDelays, RetryTask(w, d) PROVE Asked(t)
    <3>1. mine[w] = t
      BY <2>1, <2>4 DEF RetryTask, DueSet, TypeOK
    <3> QED BY <2>4, <3>1
  <2>5. ASSUME NEW u \in Task, Cancel(u) PROVE FALSE
    BY <2>1, <2>5 DEF Cancel, DueSet, TypeOK
  <2>6. CASE Tick
    BY <2>1, <2>6 DEF Tick, Minus1
  <2>7. ASSUME NEW w \in Worker, NEW u \in Task, Pop(w, u) PROVE FALSE
    <3>1. due' = DueMin(u, LockRetry)
      BY <2>1, <2>7 DEF Pop
    <3> QED BY <2>1, <3>1 DEF DueMin, TypeOK
  <2>8. ASSUME NEW w \in Worker, LockedOut(w) PROVE FALSE
    <3>1. due' = DueMin(mine[w], LockRetry)
      BY <2>8 DEF LockedOut
    <3> QED BY <2>1, <3>1 DEF DueMin, TypeOK
  <2>9. ASSUME NEW w \in Worker, GoOn(w) PROVE Asked(t)
    <3>1. CASE \E d \in RetryDelays : RetryTask(w, d)
      BY <2>4, <3>1
    <3>2. CASE AddNext(w)
      BY <2>2, <3>2 DEF AddNext, Actor
    <3>3. CASE Start(w) \/ Check(w) \/ AskNext(w) \/ Prepare(w) \/ Succeed(w) \/ FailTask(w)
      BY <2>1, <3>3 DEF Start, Check, AskNext, Prepare, Succeed, FailTask
    <3> QED BY <2>9, <3>1, <3>2, <3>3 DEF GoOn
  <2>10. ASSUME NEW w \in Worker, NEW u \in Task, Schedule(w, u) \/ Expire(w, u) \/ Crash(w)
         PROVE  FALSE
    BY <2>1, <2>10 DEF Schedule, Expire, Crash, schedVars
  <2>11. CASE ClientStep
    <3>1. CASE \E c \in Client : ClientAdd(c)
      BY <2>2, <3>1 DEF ClientAdd, Actor
    <3>2. CASE \E c \in Client, u \in Task, d \in 0..MaxDelay : ClientAsk(c, u, d)
      BY <2>1, <3>2 DEF ClientAsk
    <3>3. CASE \E u \in Task : TakeFailed(u)
      BY <2>1, <3>3 DEF TakeFailed, schedVars
    <3> QED BY <2>3, <2>5, <2>11, <3>1, <3>2, <3>3 DEF ClientStep
  <2> QED BY <2>6, <2>7, <2>8, <2>9, <2>10, <2>11 DEF Next
<1>2. TypeOK /\ [Next]_vars =>
        [\A t \in Task :
           In(SCHEDULED, queue, t) /\ In(SCHEDULED, queue, t)' /\ due'[t] > due[t]
           => \/ \E d \in 0..MaxDelay : Update(t, d)
              \/ \E w \in Worker, d \in RetryDelays : mine[w] = t /\ RetryTask(w, d)]_vars
  BY <1>1
<1> QED BY <1>2, TypeCorrect, PTL DEF Spec, NotProlonged
=============================================================================
