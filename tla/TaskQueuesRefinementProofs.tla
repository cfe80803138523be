---------------------- MODULE TaskQueuesRefinementProofs ----------------------
(****************************************************************************)
(* TaskQueues implements AtLeastOnce, for any number of tasks, queues and   *)
(* workers: the initial states map to initial states, and every step of a   *)
(* client, a worker or the environment maps to a step of AtLeastOnce or to  *)
(* a stuttering step.                                                       *)
(****************************************************************************)
EXTENDS TaskQueuesRefinement, TaskQueuesSafetyProofs

-----------------------------------------------------------------------------
(* What the refinement mapping makes of a worker.                           *)

Running(w) == EntriesOf(w, Task)
Fresh(w) == EntriesOf(w, covered[w])

\* No request is lost, so every unserved request is an open one.
LEMMA OwedIsOpen ==
  ASSUME TypeOK, NoLostTask
  PROVE  OpenRequests = owed
BY DEF OpenRequests, NoLostTask

\* A worker that is not between the start of an execution and the end of its group
\* executes nothing.
LEMMA IdleMap ==
  ASSUME NEW w \in Worker, pc[w] \notin Busy
  PROVE  PhaseOf(w) = "idle" /\ Running(w) = {} /\ Fresh(w) = {}
BY DEF PhaseOf, Running, Fresh, EntriesOf, Busy

\* One that is executes the tasks it holds.
LEMMA BusyMap ==
  ASSUME TypeOK, Ownership, NEW w \in Worker, pc[w] \in Busy
  PROVE  /\ PhaseOf(w) = IF pc[w] = "exec" THEN "executing" ELSE "finishing"
         /\ Running(w) = {<<wq[w], t>> : t \in {u \in Task : Holds(w, u)}}
         /\ Fresh(w) = {<<wq[w], t>> : t \in {u \in covered[w] : Holds(w, u)}}
<1>1. \A t \in Task : job[w][t] \in InGroup <=> Holds(w, t)
  <2>1. \A t \in Task : job[w][t] \in {"none", "ready", "retrying", "quiet"}
    BY JobsAtValues DEF Ownership, PhasesRespected, Busy
  <2> QED BY <2>1 DEF Holds, InGroup
<1>2. PhaseOf(w) = IF pc[w] = "exec" THEN "executing" ELSE "finishing"
  BY DEF PhaseOf, Busy
<1>3. JobsIn(w, InGroup) \cap Task = {u \in Task : Holds(w, u)}
  BY <1>1 DEF JobsIn
<1>4. JobsIn(w, InGroup) \cap covered[w] = {u \in covered[w] : Holds(w, u)}
  BY <1>1 DEF JobsIn, TypeOK
<1> QED BY <1>2, <1>3, <1>4 DEF Running, Fresh, EntriesOf

\* An entry that a worker executes is a task that it holds.
LEMMA RunningEntry ==
  ASSUME TypeOK, Ownership, NEW w \in Worker, NEW q \in Queue, NEW t \in Task
  PROVE  /\ <<q, t>> \in Running(w) <=> pc[w] \in Busy /\ wq[w] = q /\ Holds(w, t)
         /\ <<q, t>> \in Fresh(w) <=>
              pc[w] \in Busy /\ wq[w] = q /\ Holds(w, t) /\ t \in covered[w]
         /\ \A e \in Running(w) \cup Fresh(w) : \E r \in Queue, u \in Task : e = <<r, u>>
<1>1. CASE pc[w] \notin Busy
  BY <1>1, IdleMap
<1>2. CASE pc[w] \in Busy
  BY <1>2, BusyMap DEF TypeOK
<1> QED BY <1>1, <1>2

\* A worker whose state is untouched is mapped to the same.
LEMMA SameMap ==
  ASSUME NEW w \in Worker,
         pc'[w] = pc[w], wq'[w] = wq[w], job'[w] = job[w], covered'[w] = covered[w]
  PROVE  PhaseOf(w)' = PhaseOf(w) /\ Running(w)' = Running(w) /\ Fresh(w)' = Fresh(w)
<1>1. PhaseOf(w)' = PhaseOf(w)
  BY DEF PhaseOf
<1>2. JobsIn(w, InGroup)' = JobsIn(w, InGroup)
  BY DEF JobsIn
<1> QED BY <1>1, <1>2 DEF Running, Fresh, EntriesOf

-----------------------------------------------------------------------------
(* What a step must do to be one of AtLeastOnce.                            *)

\* The variables of AtLeastOnce are functions of these.
Unmoved(w) == PhaseOf(w)' = PhaseOf(w) /\ Running(w)' = Running(w) /\ Fresh(w)' = Fresh(w)

\* A step that moves no worker and no request changes nothing there.
LEMMA ToStutter ==
  ASSUME OpenRequests' = OpenRequests, orphans' = orphans, \A w \in Worker : Unmoved(w)
  PROVE  UNCHANGED Promise!vars
BY DEF Promise!vars, Unmoved, Running, Fresh

\* A request that no execution in progress serves.
LEMMA ToAsk ==
  ASSUME NEW e \in Entry, OpenRequests' = OpenRequests \cup {e}, orphans' = orphans,
         \A w \in Worker : /\ PhaseOf(w)' = PhaseOf(w) /\ Running(w)' = Running(w)
                           /\ Fresh(w)' = Fresh(w) \ {e}
  PROVE  Promise!Next
<1>1. Promise!Ask(e)
  BY DEF Promise!Ask, Running, Fresh
<1> QED BY <1>1 DEF Promise!Next

\* A request that nobody executes is given up.
LEMMA ToWithdraw ==
  ASSUME NEW e \in Entry, OpenRequests' = OpenRequests \ {e}, orphans' = orphans,
         \A w \in Worker : Unmoved(w) /\ e \notin Running(w)
  PROVE  Promise!Next
<1>1. Promise!Withdraw(e)
  BY DEF Promise!Withdraw, Unmoved, Running, Fresh
<1> QED BY <1>1 DEF Promise!Next

\* The requests made during an execution are given up.
LEMMA ToWithdrawNewer ==
  ASSUME NEW e \in Entry, OpenRequests' = OpenRequests, orphans' = orphans,
         \A w \in Worker :
           /\ PhaseOf(w)' = PhaseOf(w) /\ Running(w)' = Running(w)
           /\ Fresh(w)' = IF e \in Running(w) THEN Fresh(w) \cup {e} ELSE Fresh(w)
  PROVE  Promise!Next
<1>1. Promise!WithdrawNewer(e)
  BY DEF Promise!WithdrawNewer, Running, Fresh
<1> QED BY <1>1 DEF Promise!Next

\* A worker begins to execute entries that nobody executes.
LEMMA ToBegin ==
  ASSUME NEW w \in Worker, NEW S \in SUBSET Entry, OpenRequests' = OpenRequests,
         orphans' = orphans,
         \A v \in Worker \ {w} : Unmoved(v),
         PhaseOf(w) = "idle", S # {}, \A v \in Worker : Running(v) \cap S = {},
         PhaseOf(w)' = "executing", Running(w)' = S, Fresh(w)' = S
  PROVE  Promise!Next
<1>1. Promise!Begin(w, S)
  BY DEF Promise!Begin, Unmoved, Running, Fresh
<1> QED BY <1>1 DEF Promise!Next

\* The execution returns.
LEMMA ToEnd ==
  ASSUME NEW w \in Worker, OpenRequests' = OpenRequests, orphans' = orphans,
         \A v \in Worker \ {w} : Unmoved(v),
         PhaseOf(w) = "executing", PhaseOf(w)' = "finishing",
         Running(w)' = Running(w), Fresh(w)' = Fresh(w)
  PROVE  Promise!Next
<1>1. Promise!End(w)
  BY DEF Promise!End, Unmoved, Running, Fresh
<1> QED BY <1>1 DEF Promise!Next

\* One entry is finished, served or not.
LEMMA ToFinish ==
  ASSUME NEW w \in Worker, NEW e \in Entry, NEW served \in BOOLEAN, orphans' = orphans,
         \A v \in Worker \ {w} : Unmoved(v),
         PhaseOf(w) = "finishing", PhaseOf(w)' = "finishing", e \in Running(w),
         OpenRequests' = IF served /\ e \in Fresh(w) THEN OpenRequests \ {e} ELSE OpenRequests,
         Running(w)' = Running(w) \ {e}, Fresh(w)' = Fresh(w) \ {e}
  PROVE  Promise!Next
<1>1. Promise!Finish(w, e, served)
  BY DEF Promise!Finish, Unmoved, Running, Fresh
<1> QED BY <1>1 DEF Promise!Next

\* The worker is through, or dies and leaves S behind.
LEMMA ToStop ==
  ASSUME NEW w \in Worker, NEW S, S \subseteq Running(w), S # {} => PhaseOf(w) = "executing",
         S \subseteq Entry,
         OpenRequests' = OpenRequests, \A v \in Worker \ {w} : Unmoved(v),
         PhaseOf(w)' = "idle", Running(w)' = {}, Fresh(w)' = {}, orphans' = orphans \cup S
  PROVE  Promise!Next
<1>1. Promise!Stop(w, S)
  BY DEF Promise!Stop, Unmoved, Running, Fresh
<1>2. S \in SUBSET Entry
  OBVIOUS
<1> QED BY <1>1, <1>2 DEF Promise!Next

\* What a worker left behind comes to an end.
LEMMA ToStrayEnds ==
  ASSUME NEW e \in Entry, OpenRequests' = OpenRequests, \A w \in Worker : Unmoved(w),
         orphans' = orphans \ {e}
  PROVE  Promise!Next
<1>1. Promise!StrayEnds(e)
  BY DEF Promise!StrayEnds, Unmoved, Running, Fresh
<1> QED BY <1>1 DEF Promise!Next

-----------------------------------------------------------------------------
(* The steps.                                                               *)

\* The refinement mapping of a reachable state: what is asked, who runs what.
Mapped ==
  /\ OpenRequests = owed
  /\ \A w \in Worker : pc[w] \in Busy =>
       /\ PhaseOf(w) = IF pc[w] = "exec" THEN "executing" ELSE "finishing"
       /\ Running(w) = {<<wq[w], t>> : t \in {u \in Task : Holds(w, u)}}
       /\ Fresh(w) = {<<wq[w], t>> : t \in {u \in covered[w] : Holds(w, u)}}

\* What is known of a state and of the one after it.
Known == TypeOK /\ Ownership /\ Mapped

\* What the refinement mapping relies on holds throughout.
LEMMA KnownHolds ==
  ASSUME Timely, SafeBatches, OwnHome
  PROVE  Spec => []Known
<1>1. TypeOK /\ Ownership /\ NoLostTask => Known
  BY OwedIsOpen, BusyMap DEF Known, Mapped
<1> QED BY <1>1, TypeCorrect, TakenOnce, NothingLost, PTL

\* A worker that executes nothing before and after is mapped to the same.
LEMMA IdleUnmoved ==
  ASSUME NEW w \in Worker, pc[w] \notin Busy, pc'[w] \notin Busy
  PROVE  Unmoved(w)
<1>1. PhaseOf(w)' = "idle" /\ Running(w)' = {} /\ Fresh(w)' = {}
  BY DEF PhaseOf, Running, Fresh, EntriesOf, Busy
<1> QED BY <1>1, IdleMap DEF Unmoved

\* A request.
LEMMA AskStep ==
  ASSUME Known, Known', NEW q \in Queue, NEW t \in Task,
         Retry(q, t) \/ \E s \in {QUEUED, SCHEDULED} : Delay(q, t, s)
  PROVE  Promise!Next
<1> DEFINE e == <<q, t>>
<1>1. owed' = owed \cup {e} /\ UNCHANGED <<pc, wq, job, orphans>> /\ Uncover(q, t)
  BY DEF Retry, Delay, workerVars, lockVars
<1>2. OpenRequests' = OpenRequests \cup {e}
  BY <1>1 DEF Known, Mapped
<1>3. ASSUME NEW w \in Worker
      PROVE  /\ PhaseOf(w)' = PhaseOf(w) /\ Running(w)' = Running(w)
             /\ Fresh(w)' = Fresh(w) \ {e}
  <2>1. PhaseOf(w)' = PhaseOf(w) /\ JobsIn(w, InGroup)' = JobsIn(w, InGroup)
    BY <1>1 DEF PhaseOf, JobsIn
  <2>2. Running(w)' = Running(w)
    BY <1>1, <2>1 DEF Running, EntriesOf
  <2>3. covered'[w] = IF wq[w] = q THEN covered[w] \ {t} ELSE covered[w]
    BY <1>1 DEF Uncover, Known, TypeOK
  <2>4. Fresh(w)' = Fresh(w) \ {e}
    BY <1>1, <2>1, <2>3 DEF Fresh, EntriesOf
  <2> QED BY <2>1, <2>2, <2>4
<1>4. e \in Entry
  BY DEF Entry
<1> HIDE DEF e
<1> QED BY <1>1, <1>2, <1>3, <1>4, ToAsk

\* A request given up: of a task that only one set of the queue held, or else one
\* that an execution in progress serves, or that another set of the queue stands for.
LEMMA CancelStep ==
  ASSUME Known, Known', NEW q \in Queue, NEW t \in Task, Cancel(q, t)
  PROVE  Promise!Next \/ UNCHANGED Promise!vars
<1> USE StateValues
<1> DEFINE e == <<q, t>>
<1>1. UNCHANGED <<pc, wq, job, orphans>> /\ e \in Entry
  BY DEF Cancel, workerVars, lockVars, Entry
<1>2. ASSUME NEW w \in Worker
      PROVE  PhaseOf(w)' = PhaseOf(w) /\ Running(w)' = Running(w)
  <2>1. PhaseOf(w)' = PhaseOf(w) /\ JobsIn(w, InGroup)' = JobsIn(w, InGroup)
    BY <1>1 DEF PhaseOf, JobsIn
  <2> QED BY <1>1, <2>1 DEF Running, EntriesOf
<1>3. ASSUME NEW w \in Worker, covered'[w] = covered[w] PROVE Unmoved(w)
  BY <1>1, <1>3, SameMap DEF Unmoved
<1>4. CASE ~HeldOutside({SCHEDULED}, q, t)
  <2>1. ASSUME NEW w \in Worker, Holds(w, t) PROVE wq[w] # q
    BY <1>4, <2>1 DEF HeldOutside, Known, Ownership, HeldAreActive
  <2>2. ASSUME NEW w \in Worker PROVE Unmoved(w) /\ e \notin Running(w)
    <3>1. ~(wq[w] = q /\ job[w][t] \in InGroup)
      BY <2>1 DEF Holds, InGroup
    <3>2. covered'[w] = covered[w]
      BY <3>1 DEF Cancel, Known, TypeOK
    <3>3. e \notin Running(w)
      BY <2>1, RunningEntry DEF Known
    <3> QED BY <1>3, <3>2, <3>3
  <2>3. OpenRequests' = OpenRequests \ {e}
    BY <1>4 DEF Cancel, Known, Mapped
  <2> HIDE DEF e
  <2> QED BY <1>1, <2>2, <2>3, ToWithdraw
<1>5. CASE HeldOutside({SCHEDULED}, q, t) /\ In(QUEUED, q, t)
  <2>1. OpenRequests' = OpenRequests /\ covered' = covered
    BY <1>5 DEF Cancel, Known, Mapped
  <2> QED BY <1>1, <1>3, <2>1, ToStutter
<1>6. CASE HeldOutside({SCHEDULED}, q, t) /\ ~In(QUEUED, q, t)
  <2>1. OpenRequests' = OpenRequests
    BY <1>6 DEF Cancel, Known, Mapped
  <2>2. ASSUME NEW w \in Worker
        PROVE  Fresh(w)' = IF e \in Running(w) THEN Fresh(w) \cup {e} ELSE Fresh(w)
    <3>1. covered'[w] = IF wq[w] = q /\ job[w][t] \in InGroup
                        THEN covered[w] \cup {t} ELSE covered[w]
      BY <1>6 DEF Cancel, Known, TypeOK
    <3>2. CASE pc[w] \notin Busy
      BY <1>1, <3>2, IdleMap, IdleUnmoved DEF Unmoved
    <3>3. CASE pc[w] \in Busy
      <4>1. Holds(w, t) <=> job[w][t] \in InGroup
        <5>1. job[w][t] \in {"none", "ready", "retrying", "quiet"}
          BY <3>3, JobsAtValues DEF Known, Ownership, PhasesRespected, Busy
        <5> QED BY <5>1 DEF Holds, InGroup
      <4>2. e \in Running(w) <=> wq[w] = q /\ Holds(w, t)
        BY <3>3, RunningEntry DEF Known
      <4>3. Fresh(w) = {<<wq[w], u>> : u \in {x \in covered[w] : Holds(w, x)}}
        BY <3>3, BusyMap DEF Known
      <4>4. Fresh(w)' = {<<wq[w], u>> : u \in {x \in covered'[w] : Holds(w, x)}}
        BY <1>1, <3>3 DEF Known, Mapped, Holds
      <4>5. CASE e \in Running(w)
        <5>1. covered'[w] = covered[w] \cup {t} /\ wq[w] = q /\ Holds(w, t)
          BY <3>1, <4>1, <4>2, <4>5
        <5> QED BY <4>3, <4>4, <4>5, <5>1
      <4>6. CASE e \notin Running(w)
        BY <3>1, <4>1, <4>2, <4>3, <4>4, <4>6
      <4> QED BY <4>5, <4>6
    <3> QED BY <3>2, <3>3
  <2> HIDE DEF e
  <2> QED BY <1>1, <1>2, <2>1, <2>2, ToWithdrawNewer
<1> QED BY <1>4, <1>5, <1>6

\* A failed task is deleted.
LEMMA DeleteStep ==
  ASSUME Known, Known', NEW q \in Queue, NEW t \in Task, Delete(q, t)
  PROVE  Promise!Next \/ UNCHANGED Promise!vars
<1> USE StateValues
<1> DEFINE e == <<q, t>>
<1>1. UNCHANGED <<pc, wq, job, covered, orphans>> /\ e \in Entry
  BY DEF Delete, workerVars, lockVars, Entry
<1>2. ASSUME NEW w \in Worker PROVE Unmoved(w)
  BY <1>1, SameMap DEF Unmoved
<1>3. CASE ~HeldOutside({ERROR}, q, t)
  <2>1. ASSUME NEW w \in Worker PROVE e \notin Running(w)
    <3>1. ~(wq[w] = q /\ Holds(w, t))
      BY <1>3 DEF HeldOutside, Known, Ownership, HeldAreActive
    <3> QED BY <3>1, RunningEntry DEF Known
  <2>2. OpenRequests' = OpenRequests \ {e}
    BY <1>3 DEF Delete, Known, Mapped
  <2> HIDE DEF e
  <2> QED BY <1>1, <1>2, <2>1, <2>2, ToWithdraw
<1>4. CASE HeldOutside({ERROR}, q, t)
  <2>1. OpenRequests' = OpenRequests
    BY <1>4 DEF Delete, Known, Mapped
  <2> QED BY <1>1, <1>2, <2>1, ToStutter
<1> QED BY <1>3, <1>4

\* executor.execute starts: of entries that no other worker executes, because no two
\* workers hold the same task of a queue.
LEMMA ExecuteStep ==
  ASSUME Known, Known', NEW w \in Worker, Execute(w)
  PROVE  Promise!Next
<1> DEFINE S == {<<wq[w], t>> : t \in JobsIn(w, {"ready"})}
<1>1. /\ pc[w] = "lock" /\ pc' = [pc EXCEPT ![w] = "exec"]
      /\ covered' = [covered EXCEPT ![w] = JobsIn(w, {"ready"})]
      /\ UNCHANGED <<wq, job, owed, orphans>>
      /\ JobsIn(w, {"locking"}) = {} /\ JobsIn(w, {"ready"}) # {}
  BY DEF Execute, lockVars
<1>2. JobsIn(w, {"ready"}) = {t \in Task : Holds(w, t)}
  <2>1. \A t \in Task : job[w][t] \in {"none", "locking", "ready"} /\ job[w][t] # "locking"
    BY <1>1, JobsAtValues DEF Known, Ownership, PhasesRespected, JobsIn
  <2> QED BY <2>1 DEF JobsIn, Holds
<1>3. OpenRequests' = OpenRequests
  BY <1>1 DEF Known, Mapped
<1>4. ASSUME NEW v \in Worker \ {w} PROVE Unmoved(v)
  BY <1>1, SameMap DEF Unmoved, Known, TypeOK
<1>5. S \in SUBSET Entry /\ S # {}
  <2>1. wq[w] \in Queue /\ JobsIn(w, {"ready"}) \subseteq Task
    BY DEF Known, TypeOK, JobsIn
  <2>2. PICK t : t \in JobsIn(w, {"ready"})
    BY <1>1
  <2>3. <<wq[w], t>> \in S
    BY <2>2
  <2>4. ASSUME NEW u \in JobsIn(w, {"ready"}) PROVE <<wq[w], u>> \in Entry
    BY <2>1 DEF Entry
  <2>5. S \subseteq Entry
    BY <2>4
  <2> HIDE DEF S
  <2> QED BY <2>3, <2>5
<1>6. ASSUME NEW v \in Worker PROVE Running(v) \cap S = {}
  <2>1. CASE v = w
    BY <1>1, <2>1, IdleMap DEF Busy
  <2>2. CASE v # w
    <3> SUFFICES ASSUME NEW t \in JobsIn(w, {"ready"}), <<wq[w], t>> \in Running(v) PROVE FALSE
      OBVIOUS
    <3>1. t \in Task /\ Holds(w, t) /\ wq[w] \in Queue
      BY <1>2 DEF Known, TypeOK
    <3>2. wq[v] = wq[w] /\ Holds(v, t)
      BY <3>1, RunningEntry DEF Known
    <3> QED BY <2>2, <3>1, <3>2 DEF Known, Ownership, HeldOnce
  <2> QED BY <2>1, <2>2
<1>7. PhaseOf(w) = "idle" /\ PhaseOf(w)' = "executing"
  BY <1>1 DEF PhaseOf, Known, TypeOK
<1>8. Running(w)' = S /\ Fresh(w)' = S
  <2>1. pc'[w] \in Busy /\ covered'[w] = {t \in Task : Holds(w, t)}
    BY <1>1, <1>2 DEF Busy, Known, TypeOK
  <2>2. /\ Running(w)' = {<<wq[w], t>> : t \in {u \in Task : Holds(w, u)}}
        /\ Fresh(w)' = {<<wq[w], t>> : t \in {u \in covered'[w] : Holds(w, u)}}
    BY <1>1, <2>1 DEF Known, Mapped, Holds
  <2> QED BY <1>2, <2>1, <2>2
<1> HIDE DEF S
<1> QED BY <1>1, <1>3, <1>4, <1>5, <1>6, <1>7, <1>8, ToBegin

\* It returns.
LEMMA ReturnStep ==
  ASSUME Known, Known', NEW w \in Worker, Succeed(w) \/ Fail(w)
  PROVE  Promise!Next
<1>1. /\ pc[w] = "exec" /\ pc'[w] \in {"done", "failed"}
      /\ UNCHANGED <<wq, job, owed, covered, orphans>>
      /\ \A v \in Worker \ {w} : pc'[v] = pc[v]
  BY DEF Succeed, Fail, ghostVars, Known, TypeOK
<1>2. OpenRequests' = OpenRequests
  BY <1>1 DEF Known, Mapped
<1>3. ASSUME NEW v \in Worker \ {w} PROVE Unmoved(v)
  BY <1>1, SameMap DEF Unmoved
<1>4. PhaseOf(w) = "executing" /\ PhaseOf(w)' = "finishing"
  BY <1>1 DEF PhaseOf
<1>5. JobsIn(w, InGroup)' = JobsIn(w, InGroup)
  BY <1>1 DEF JobsIn
<1>6. Running(w)' = Running(w) /\ Fresh(w)' = Fresh(w)
  BY <1>1, <1>4, <1>5 DEF Running, Fresh, EntriesOf
<1> QED BY <1>1, <1>2, <1>3, <1>4, <1>6, ToEnd

\* A task of the group leaves it, and the worker goes on with the others.
LEMMA FinishMap ==
  ASSUME Known, Known', NEW w \in Worker, NEW t \in Task, pc[w] \in {"done", "failed"},
         Holds(w, t), Step(w, pc[w], {t}, "none"), UNCHANGED <<wq, covered>>
  PROVE  /\ \A v \in Worker \ {w} : Unmoved(v)
         /\ PhaseOf(w) = "finishing" /\ PhaseOf(w)' = "finishing"
         /\ <<wq[w], t>> \in Entry /\ <<wq[w], t>> \in Running(w)
         /\ <<wq[w], t>> \in Fresh(w) <=> t \in covered[w]
         /\ Running(w)' = Running(w) \ {<<wq[w], t>>}
         /\ Fresh(w)' = Fresh(w) \ {<<wq[w], t>>}
<1>1. /\ pc' = pc
      /\ \A v \in Worker \ {w} : job'[v] = job[v]
      /\ \A u \in Task : Holds(w, u)' <=> Holds(w, u) /\ u # t
  BY DEF Step, Holds, Known, TypeOK
<1>2. ASSUME NEW v \in Worker \ {w} PROVE Unmoved(v)
  BY <1>1, <1>2, SameMap DEF Unmoved
<1>3. PhaseOf(w) = "finishing" /\ PhaseOf(w)' = "finishing"
  BY <1>1 DEF PhaseOf
<1>4. wq[w] \in Queue /\ pc[w] \in Busy /\ pc'[w] \in Busy
  BY <1>1 DEF Known, TypeOK, Busy
<1>5. /\ Running(w) = {<<wq[w], u>> : u \in {x \in Task : Holds(w, x)}}
      /\ Fresh(w) = {<<wq[w], u>> : u \in {x \in covered[w] : Holds(w, x)}}
  BY <1>4 DEF Known, Mapped
<1>6. /\ Running(w)' = {<<wq[w], u>> : u \in {x \in Task : Holds(w, x)'}}
      /\ Fresh(w)' = {<<wq[w], u>> : u \in {x \in covered[w] : Holds(w, x)'}}
  BY <1>4 DEF Known, Mapped
<1>7. covered[w] \subseteq Task
  BY DEF Known, TypeOK
<1> QED BY <1>1, <1>2, <1>3, <1>4, <1>5, <1>6, <1>7 DEF Entry

\* The task is removed; the requests that the execution covers are served.
LEMMA FinishDoneStep ==
  ASSUME Known, Known', NEW w \in Worker, NEW t \in Task, FinishDone(w, t)
  PROVE  Promise!Next
<1> DEFINE e == <<wq[w], t>>
<1>1. /\ pc[w] \in {"done", "failed"} /\ Holds(w, t)
      /\ Step(w, pc[w], {t}, "none") /\ Settle(w, t) /\ UNCHANGED <<wq, covered, orphans>>
  BY NeverRaised DEF FinishDone, Holds, Known, lockVars
<1>2. OpenRequests' = IF t \in covered[w] THEN OpenRequests \ {e} ELSE OpenRequests
  BY <1>1 DEF Settle, Known, Mapped
<1>3. /\ \A v \in Worker \ {w} : Unmoved(v)
      /\ PhaseOf(w) = "finishing" /\ PhaseOf(w)' = "finishing"
      /\ e \in Entry /\ e \in Running(w) /\ (e \in Fresh(w) <=> t \in covered[w])
      /\ Running(w)' = Running(w) \ {e} /\ Fresh(w)' = Fresh(w) \ {e}
  BY <1>1, FinishMap
<1>4. PICK served \in BOOLEAN : served
  OBVIOUS
<1> HIDE DEF e
<1> QED BY <1>1, <1>2, <1>3, <1>4, ToFinish

\* The task fails or is retried: nothing is served.
LEMMA FinishFailedStep ==
  ASSUME Known, Known', NEW w \in Worker, NEW t \in Task, FinishFailed(w, t)
  PROVE  Promise!Next
<1> DEFINE e == <<wq[w], t>>
<1>1. /\ pc[w] \in {"done", "failed"} /\ Holds(w, t)
      /\ Step(w, pc[w], {t}, "none") /\ UNCHANGED <<wq, covered, owed, orphans>>
  BY NeverRaised DEF FinishFailed, Holds, Known, lockVars
<1>2. OpenRequests' = OpenRequests
  BY <1>1 DEF Known, Mapped
<1>3. /\ \A v \in Worker \ {w} : Unmoved(v)
      /\ PhaseOf(w) = "finishing" /\ PhaseOf(w)' = "finishing"
      /\ e \in Entry /\ e \in Running(w)
      /\ Running(w)' = Running(w) \ {e} /\ Fresh(w)' = Fresh(w) \ {e}
  BY <1>1, FinishMap
<1>4. PICK served \in BOOLEAN : ~served
  OBVIOUS
<1> HIDE DEF e
<1> QED BY <1>1, <1>2, <1>3, <1>4, ToFinish

\* The group ends, or the process, and its child may go on.
LEMMA StopStep ==
  ASSUME Known, Known', NEW w \in Worker, EndGroup(w) \/ \E p \in Gone : Die(w, p)
  PROVE  Promise!Next
<1>1. /\ pc'[w] \notin Busy
      /\ UNCHANGED <<wq, owed>>
      /\ \A v \in Worker \ {w} :
           pc'[v] = pc[v] /\ job'[v] = job[v] /\ covered'[v] = covered[v]
  BY DEF EndGroup, Die, Known, TypeOK, Gone, Busy
<1>2. OpenRequests' = OpenRequests
  BY <1>1 DEF Known, Mapped
<1>3. ASSUME NEW v \in Worker \ {w} PROVE Unmoved(v)
  BY <1>1, SameMap DEF Unmoved
<1>4. PhaseOf(w)' = "idle" /\ Running(w)' = {} /\ Fresh(w)' = {}
  BY <1>1 DEF PhaseOf, Running, Fresh, EntriesOf, Busy
<1>5. CASE EndGroup(w)
  <2>1. orphans' = orphans \cup {}
    BY <1>5 DEF EndGroup, lockVars
  <2> QED BY <1>2, <1>3, <1>4, <2>1, ToStop
<1>6. ASSUME NEW p \in Gone, Die(w, p) PROVE Promise!Next
  <2> DEFINE S == {<<wq[w], t>> : t \in {u \in Outliving : Executing(w, u)}}
  <2>1. orphans' = orphans \cup S
    BY <1>6 DEF Die
  <2>2. S \subseteq Running(w) /\ S \subseteq Entry
    <3> SUFFICES ASSUME NEW t \in Outliving, Executing(w, t)
                 PROVE  <<wq[w], t>> \in Running(w) /\ <<wq[w], t>> \in Entry
      OBVIOUS
    <3>1. t \in Task /\ wq[w] \in Queue
      BY ConstantsOK DEF Known, TypeOK
    <3>2. pc[w] \in Busy /\ Holds(w, t)
      BY DEF Executing, Busy, Holds
    <3> QED BY <3>1, <3>2, RunningEntry DEF Known, Entry
  <2>3. S # {} => PhaseOf(w) = "executing"
    BY DEF Executing, PhaseOf
  <2> HIDE DEF S
  <2> QED BY <1>2, <1>3, <1>4, <2>1, <2>2, <2>3, ToStop
<1> QED BY <1>5, <1>6

\* A step of a worker before and after that has no execution.
LEMMA IdleStep ==
  ASSUME Known, Known', NEW w \in Worker, pc[w] \notin Busy, pc'[w] \notin Busy,
         UNCHANGED <<owed, covered, orphans>>,
         \A v \in Worker \ {w} : pc'[v] = pc[v] /\ job'[v] = job[v] /\ wq'[v] = wq[v]
  PROVE  UNCHANGED Promise!vars
<1>1. OpenRequests' = OpenRequests
  BY DEF Known, Mapped
<1>2. ASSUME NEW v \in Worker \ {w} PROVE Unmoved(v)
  BY SameMap DEF Unmoved
<1>3. Unmoved(w)
  BY IdleUnmoved
<1> QED BY <1>1, <1>2, <1>3, ToStutter

\* The jobs of a group change, but not which tasks are in it.
LEMMA CountStep ==
  ASSUME Known, Known', NEW w \in Worker, NEW t \in Task, CountExecutions(w, t)
  PROVE  Promise!Next \/ UNCHANGED Promise!vars
<1>1. CASE Die(w, "raised")
  BY <1>1, StopStep DEF Gone
<1>2. CASE ~Die(w, "raised")
  <2>1. PICK j \in {"retrying", "quiet"} :
          /\ Step(w, "failed", {t}, j)
          /\ UNCHANGED <<wq, owed, covered, orphans>>
    BY <1>2 DEF CountExecutions, ghostVars, lockVars
  <2>2. pc' = pc /\ (\A v \in Worker, u \in Task : Holds(v, u)' <=> Holds(v, u))
    BY <2>1 DEF CountExecutions, Step, Holds, Known, TypeOK
  <2>3. OpenRequests' = OpenRequests
    BY <2>1 DEF Known, Mapped
  <2>4. ASSUME NEW v \in Worker PROVE Unmoved(v)
    <3>1. CASE pc[v] \notin Busy
      BY <2>2, <3>1, IdleUnmoved
    <3>2. CASE pc[v] \in Busy
      <4>1. wq'[v] = wq[v] /\ covered'[v] = covered[v] /\ pc'[v] \in Busy
        BY <2>1, <2>2, <3>2
      <4>2. PhaseOf(v)' = PhaseOf(v)
        BY <2>2 DEF PhaseOf
      <4>3. /\ Running(v) = {<<wq[v], u>> : u \in {x \in Task : Holds(v, x)}}
            /\ Fresh(v) = {<<wq[v], u>> : u \in {x \in covered[v] : Holds(v, x)}}
        BY <3>2, BusyMap DEF Known
      <4>4. /\ Running(v)' = {<<wq'[v], u>> : u \in {x \in Task : Holds(v, x)'}}
            /\ Fresh(v)' = {<<wq'[v], u>> : u \in {x \in covered'[v] : Holds(v, x)'}}
        BY <4>1 DEF Known, Mapped
      <4>5. {x \in Task : Holds(v, x)'} = {x \in Task : Holds(v, x)}
        BY <2>2
      <4>6. {x \in covered'[v] : Holds(v, x)'} = {x \in covered[v] : Holds(v, x)}
        BY <2>2, <4>1 DEF Known, TypeOK
      <4> QED BY <4>1, <4>2, <4>3, <4>4, <4>5, <4>6 DEF Unmoved
    <3> QED BY <3>1, <3>2
  <2> QED BY <2>1, <2>3, <2>4, ToStutter
<1> QED BY <1>1, <1>2

\* A step that leaves the workers and the requests alone.
LEMMA QuietStep ==
  ASSUME Known, Known', UNCHANGED <<pc, wq, job, owed, covered, orphans>>
  PROVE  UNCHANGED Promise!vars
<1>1. OpenRequests' = OpenRequests
  BY DEF Known, Mapped
<1>2. ASSUME NEW v \in Worker PROVE Unmoved(v)
  BY SameMap DEF Unmoved
<1> QED BY <1>1, <1>2, ToStutter

\* The steps of a worker on its batch.
LEMMA ProcessStep ==
  ASSUME Known, Known', NEW w \in Worker, Process(w)
  PROVE  Promise!Next \/ UNCHANGED Promise!vars
<1> USE DEF workerVars, lockVars, ghostVars, Busy
<1>1. ASSUME NEW q \in Queue, Pop(w, q) PROVE UNCHANGED Promise!vars
  <2>1. /\ pc[w] \notin Busy /\ pc'[w] \notin Busy /\ UNCHANGED <<owed, covered, orphans>>
        /\ \A v \in Worker \ {w} : pc'[v] = pc[v] /\ job'[v] = job[v] /\ wq'[v] = wq[v]
    BY <1>1 DEF Pop, Step, Known, TypeOK
  <2> QED BY <2>1, IdleStep
<1>2. CASE Load(w) \/ BeginGroup(w) \/ EndBatch(w)
  <2>1. /\ pc[w] \notin Busy /\ pc'[w] \notin Busy /\ UNCHANGED <<owed, covered, orphans, wq>>
        /\ \A v \in Worker \ {w} : pc'[v] = pc[v] /\ job'[v] = job[v]
    BY <1>2 DEF Load, BeginGroup, EndBatch, Step, Known, TypeOK
  <2> QED BY <2>1, IdleStep
<1>3. ASSUME NEW t \in Task, Drop(w, t) \/ LockedOut(w, t)
      PROVE  Promise!Next \/ UNCHANGED Promise!vars
  <2>1. CASE Die(w, "raised")
    BY <2>1, StopStep DEF Gone
  <2>2. CASE ~Die(w, "raised")
    <3>1. /\ pc[w] \notin Busy /\ pc'[w] \notin Busy /\ UNCHANGED <<owed, covered, orphans, wq>>
          /\ \A v \in Worker \ {w} : pc'[v] = pc[v] /\ job'[v] = job[v]
      BY <1>3, <2>2 DEF Drop, LockedOut, Raise, Step, Known, TypeOK
    <3> QED BY <3>1, IdleStep
  <2> QED BY <2>1, <2>2
<1>4. ASSUME NEW t \in Task, AcquireLock(w, t) PROVE UNCHANGED Promise!vars
  <2>1. /\ pc[w] \notin Busy /\ pc'[w] \notin Busy /\ UNCHANGED <<owed, covered, orphans, wq>>
        /\ \A v \in Worker \ {w} : pc'[v] = pc[v] /\ job'[v] = job[v]
    BY <1>4 DEF AcquireLock, Step, Known, TypeOK
  <2> QED BY <2>1, IdleStep
<1>5. CASE Heartbeat(w)
  BY <1>5, QuietStep DEF Heartbeat
<1> QED BY <1>1, <1>2, <1>3, <1>4, <1>5, ExecuteStep, ReturnStep, FinishDoneStep,
           FinishFailedStep, CountStep, StopStep, Process(w) DEF Process

\* The steps of a worker on scheduled and on expired tasks.
LEMMA MaintainStep ==
  ASSUME Known, Known', NEW w \in Worker, Maintain(w)
  PROVE  Promise!Next \/ UNCHANGED Promise!vars
<1> USE DEF workerVars, lockVars, ghostVars, Busy
<1>1. CASE Die(w, "raised")
  BY <1>1, StopStep DEF Gone
<1>2. CASE ~Die(w, "raised")
  <2>1. /\ pc[w] \notin Busy /\ pc'[w] \notin Busy /\ UNCHANGED <<owed, covered, orphans, wq, job>>
        /\ \A v \in Worker \ {w} : pc'[v] = pc[v]
    BY <1>2 DEF Maintain, Schedule, ExpireScan, ExpireLoad, ExpireMove, ExpireCheck, ExpireDrop,
                ExpireDone, Goto, Raise, Known, TypeOK
  <2> QED BY <2>1, IdleStep
<1> QED BY <1>1, <1>2

\* Every step is one of AtLeastOnce, or stutters there.
LEMMA StepMap ==
  ASSUME Known, Known', [Next]_vars
  PROVE  [Promise!Next]_(Promise!vars)
<1> USE DEF workerVars, lockVars, ghostVars
<1>1. CASE Client
  <2>1. ASSUME NEW t \in Task, Vanish(t) PROVE UNCHANGED Promise!vars
    BY <2>1, QuietStep DEF Vanish
  <2> QED BY <1>1, <2>1, AskStep, CancelStep, DeleteStep DEF Client
<1>2. CASE Environment
  <2>1. ASSUME NEW w \in Worker, Crash(w) PROVE Promise!Next
    BY <2>1, StopStep DEF Crash, Gone
  <2>2. ASSUME NEW w \in Worker, Restart(w) PROVE UNCHANGED Promise!vars
    <3>1. /\ pc[w] \notin Busy /\ pc'[w] \notin Busy /\ UNCHANGED <<owed, covered, orphans, wq, job>>
          /\ \A v \in Worker \ {w} : pc'[v] = pc[v]
      BY <2>2 DEF Restart, Gone, Busy, Known, TypeOK
    <3> QED BY <3>1, IdleStep
  <2>3. ASSUME NEW e \in Entry, ChildEnds(e) PROVE Promise!Next \/ UNCHANGED Promise!vars
    <3>1. UNCHANGED <<pc, wq, job, owed, covered>> /\ orphans' \in {orphans, orphans \ {e}}
      BY <2>3 DEF ChildEnds
    <3>2. OpenRequests' = OpenRequests
      BY <3>1 DEF Known, Mapped
    <3>3. ASSUME NEW w \in Worker PROVE Unmoved(w)
      BY <3>1, SameMap DEF Unmoved
    <3> QED BY <3>1, <3>2, <3>3, ToStutter, ToStrayEnds
  <2>4. CASE \/ ExpireLockLapse \/ \E q \in Queue, t \in Task : Lapse(q, t)
             \/ \E l \in Lock : LockLapse(l)
    BY <2>4, QuietStep DEF Lapse, LockLapse, ExpireLockLapse
  <2> QED BY <1>2, <2>1, <2>2, <2>3, <2>4 DEF Environment
<1>3. CASE UNCHANGED vars
  BY <1>3, QuietStep DEF vars
<1> QED BY <1>1, <1>2, <1>3, ProcessStep, MaintainStep DEF Next

(* Of timely workers, safe batches and unique tasks with one queue each,    *)
(* whether or not objects vanish: TaskTiger's queues are at-least-once      *)
(* queues whose entries have one execution at a time by live workers, and   *)
(* perhaps others by children that outlived theirs.                         *)
THEOREM AtLeastOnceImplemented ==
  ASSUME Timely, SafeBatches, OwnHome
  PROVE  Spec => ImplementsAtLeastOnce
<1>1. Init => Promise!Init
  <2> SUFFICES ASSUME Init PROVE Promise!Init
    OBVIOUS
  <2>1. OpenRequests = {} /\ orphans = {}
    BY DEF Init, OpenRequests
  <2>2. ASSUME NEW w \in Worker
        PROVE  PhaseOf(w) = "idle" /\ Running(w) = {} /\ Fresh(w) = {}
    BY IdleMap DEF Init, Busy
  <2> QED BY <2>1, <2>2 DEF Promise!Init, Running, Fresh
<1>2. Known /\ Known' /\ [Next]_vars => [Promise!Next]_(Promise!vars)
  BY StepMap
<1> QED BY <1>1, <1>2, KnownHolds, PTL DEF Spec, ImplementsAtLeastOnce, Promise!Spec
=============================================================================
