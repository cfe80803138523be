------------------------- MODULE WorkerProcessProofs -------------------------
(****************************************************************************)
(* Theorems about WorkerProcess, for any number of tasks, any timer and     *)
(* timeout, any bound on the retries, on the clock and on the children that *)
(* die, and both executors.                                                 *)
(*                                                                          *)
(* The invariant has one part for each thing that the threads and the child *)
(* know of each other, each inductive given TypeOK; a part is disturbed by  *)
(* few actions, and the others leave its variables alone.                   *)
(****************************************************************************)
EXTENDS WorkerProcess, TLAPS

\* Where a task has been reported as started, and not as ended.
Working == {"fork", "check", "select", "recheck", "beat", "kill", "store",
            "sync", "join", "end", "ended", "gone"}

\* What the main thread and the statistics thread know of the running task.
StatsInv ==
  /\ startTime # None <=> pc \in Working
  /\ pc = "start" => mnow = trueStart
  /\ BusyConserved

\* The heartbeat thread lives while the main thread executes, or joins it.
ThreadInv == thread # "off" => pc \in {"sync", "join"}

\* Select, and the sleep of the heartbeat thread, begin with the heartbeat, or late.
BeatInv ==
  /\ pc = "check" => clock <= beat + lost
  /\ pc \in {"select", "recheck", "beat", "kill"} => slept <= beat + lost
  /\ pc = "sync" => slept = beat
  /\ pc \in {"select", "recheck", "beat", "kill", "sync"} => clock <= beat + Timer + lost

\* A select begins only if the time was not over before the last heartbeat.
LimitInv ==
  /\ pc = "beat" => clock <= began + Allowance + lost
  /\ pc = "check" => clock <= began + Allowance + Lag + lost
  /\ pc \in {"select", "recheck", "kill"} =>
       /\ slept <= began + Allowance + Lag + lost
       /\ clock <= began + Allowance + Lag + Timer + lost

\* What is stored, and left to store, at each point of the child's life.
ChildInv ==
  /\ pc \in {"check", "select", "recheck", "beat", "kill"} => child # "none"
  /\ child \in Alive => code = "none"
  /\ child = "run" => outcome = "none" /\ stored = {}
  /\ child = "store" => outcome = "raised" /\ group \subseteq stored \cup left
  /\ child = "shutdown" =>
       outcome = "returned" \/ (outcome = "raised" /\ group \subseteq stored)
  /\ child = "exited" =>
       \/ code = "signal" \/ outcome = "left"
       \/ outcome = "returned" /\ code = "0"
       \/ outcome = "raised" /\ code = "1" /\ group \subseteq stored

\* The same in the main thread, after the child or instead of it.
OutcomeInv ==
  /\ pc = "store" =>
       /\ group \subseteq stored \cup left
       /\ success => outcome = "returned" \/ (outcome = "left" /\ code = "0")
  /\ pc = "sync" /\ left # {} => outcome = "raised" /\ group \subseteq stored \cup left
  /\ pc = "join" =>
       outcome \in {"returned", "left"} \/ (outcome = "raised" /\ group \subseteq stored)
  /\ OutcomeKnown

\* The executions of a task that may be executed again, and of one that was executed.
Again(t) == attempts[t] <= count[t] + silent[t] /\ attempts[t] <= MaxRetries + silent[t]
Once(t) == /\ attempts[t] <= count[t] + silent[t] + (IF t \in stored THEN 0 ELSE 1)
           /\ attempts[t] <= MaxRetries + 1 + silent[t]

\* Whatever was executed was counted, or nothing was stored of it.
RetryInv ==
  /\ \A t \in retried : Again(t)
  /\ \A t \in group : IF pc \in {"idle", "start", "fork"} THEN Again(t) ELSE Once(t)
  /\ RetriesBounded

-----------------------------------------------------------------------------
(* A step keeps the types. *)
LEMMA TypeStep == TypeOK /\ [Next]_vars => TypeOK'
<1> SUFFICES ASSUME TypeOK, [Next]_vars PROVE TypeOK'
  OBVIOUS
<1> USE ProcessConstantsOK DEF TypeOK, PC, Alive, Goto, times, mainVars, childVars, taskVars,
     statVars
<1>1. CASE ReadStart
  BY <1>1 DEF ReadStart
<1>2. CASE ReportStart
  BY <1>2 DEF ReportStart
<1>3. CASE ReadEnd
  BY <1>3 DEF ReadEnd
<1>4. CASE ReportEnd
  BY <1>4 DEF ReportEnd
<1>5. CASE Fork
  BY <1>5 DEF Fork
<1>6. CASE Reap
  BY <1>6 DEF Reap
<1>7. CASE Select
  BY <1>7 DEF Select
<1>8. CASE Wake
  BY <1>8 DEF Wake
<1>9. CASE Recheck
  BY <1>9 DEF Recheck
<1>10. CASE Beat
  BY <1>10 DEF Beat
<1>11. CASE Kill
  BY <1>11 DEF Kill
<1>12. ASSUME NEW t \in Task, StoreTimeout(t) PROVE TypeOK'
  BY <1>12 DEF StoreTimeout, Store
<1>13. CASE SyncStart
  BY <1>13 DEF SyncStart
<1>14. CASE SyncEnd
  BY <1>14 DEF SyncEnd
<1>15. CASE SyncJoin
  BY <1>15 DEF SyncJoin
<1>16. ASSUME NEW t \in Task, SyncStore(t) PROVE TypeOK'
  BY <1>16 DEF SyncStore, Store
<1>17. CASE NextGroup
  BY <1>17 DEF NextGroup
<1>18. ASSUME NEW t \in Task, Finish(t) PROVE TypeOK'
  BY <1>18 DEF Finish
<1>19. CASE ThreadWake
  BY <1>19 DEF ThreadWake
<1>20. CASE ThreadBeat
  BY <1>20 DEF ThreadBeat
<1>21. CASE ThreadEnd
  BY <1>21 DEF ThreadEnd
<1>22. CASE ChildEnd
  BY <1>22 DEF ChildEnd
<1>23. ASSUME NEW t \in Task, ChildStore(t) PROVE TypeOK'
  BY <1>23 DEF ChildStore, Store
<1>24. CASE ChildExit
  BY <1>24 DEF ChildExit
<1>25. CASE ChildDies
  BY <1>25 DEF ChildDies
<1>26. CASE ReadNow
  BY <1>26 DEF ReadNow
<1>27. CASE Compute
  BY <1>27 DEF Compute
<1>28. CASE ChildLeave
  BY <1>28 DEF ChildLeave
<1>29. CASE EndLog
  BY <1>29 DEF EndLog
<1>30. CASE Tick
  BY <1>30 DEF Tick
<1>31. CASE Lose
  BY <1>31 DEF Lose
<1>32. CASE UNCHANGED vars
  BY <1>32 DEF vars
<1> QED
  BY <1>1, <1>2, <1>3, <1>4, <1>5, <1>6, <1>7, <1>8, <1>9, <1>10, <1>11, <1>12, <1>13, <1>14,
     <1>15, <1>16, <1>17, <1>18, <1>19, <1>20, <1>21, <1>22, <1>23, <1>24, <1>25, <1>26,
     <1>27, <1>28, <1>29, <1>30, <1>31, <1>32
  DEF Next, Main, Child, Thread, Stats

(* Each report, and each computation, moves the busy time and its start together. *)
LEMMA StatsStep == TypeOK /\ StatsInv /\ [Next]_vars => StatsInv'
<1> SUFFICES ASSUME TypeOK, StatsInv, [Next]_vars PROVE StatsInv'
  OBVIOUS
<1> USE ProcessConstantsOK DEF TypeOK, StatsInv, BusyConserved, Working, PC, Goto, times,
     mainVars, childVars, taskVars, statVars
<1>1. CASE ReadStart
  BY <1>1 DEF ReadStart
<1>2. CASE ReportStart
  BY <1>2 DEF ReportStart
<1>3. CASE ReadEnd
  BY <1>3 DEF ReadEnd
<1>4. CASE ReportEnd
  BY <1>4 DEF ReportEnd
<1>5. CASE Compute
  BY <1>5 DEF Compute
<1>6. ASSUME NEW t \in Task, StoreTimeout(t) PROVE StatsInv'
  BY <1>6 DEF StoreTimeout, Store
<1>7. ASSUME NEW t \in Task, SyncStore(t) PROVE StatsInv'
  BY <1>7 DEF SyncStore, Store
<1>8. ASSUME NEW t \in Task, Finish(t) PROVE StatsInv'
  BY <1>8 DEF Finish
<1>9. ASSUME NEW t \in Task, ChildStore(t) PROVE StatsInv'
  BY <1>9 DEF ChildStore, Store
<1>10. CASE Fork \/ Reap \/ Select \/ Wake \/ Recheck \/ Beat \/ Kill
  BY <1>10 DEF Fork, Reap, Select, Wake, Recheck, Beat, Kill
<1>11. CASE SyncStart \/ SyncEnd \/ SyncJoin \/ NextGroup
  BY <1>11 DEF SyncStart, SyncEnd, SyncJoin, NextGroup
<1>12. CASE ThreadWake \/ ThreadBeat \/ ThreadEnd
  BY <1>12 DEF ThreadWake, ThreadBeat, ThreadEnd
<1>13. CASE ChildEnd \/ ChildLeave \/ ChildExit \/ ChildDies
  BY <1>13 DEF ChildEnd, ChildLeave, ChildExit, ChildDies
<1>14. CASE ReadNow \/ EndLog
  BY <1>14 DEF ReadNow, EndLog
<1>15. CASE Tick \/ Lose \/ UNCHANGED vars
  BY <1>15 DEF Tick, Lose, vars
<1> QED
  BY <1>1, <1>2, <1>3, <1>4, <1>5, <1>6, <1>7, <1>8, <1>9, <1>10, <1>11, <1>12, <1>13, <1>14,
     <1>15
  DEF Next, Main, Child, Thread, Stats

(* The main thread goes on from join when the thread has ended. *)
LEMMA ThreadStep == TypeOK /\ ThreadInv /\ [Next]_vars => ThreadInv'
<1> SUFFICES ASSUME TypeOK, ThreadInv, [Next]_vars PROVE ThreadInv'
  OBVIOUS
<1> USE ProcessConstantsOK DEF TypeOK, ThreadInv, PC, Goto, times, mainVars, childVars,
     taskVars, statVars
<1>1. CASE SyncStart
  BY <1>1 DEF SyncStart
<1>2. CASE SyncJoin
  BY <1>2 DEF SyncJoin
<1>3. ASSUME NEW t \in Task, StoreTimeout(t) PROVE ThreadInv'
  BY <1>3 DEF StoreTimeout, Store
<1>4. ASSUME NEW t \in Task, SyncStore(t) PROVE ThreadInv'
  BY <1>4 DEF SyncStore, Store
<1>5. ASSUME NEW t \in Task, Finish(t) PROVE ThreadInv'
  BY <1>5 DEF Finish
<1>6. ASSUME NEW t \in Task, ChildStore(t) PROVE ThreadInv'
  BY <1>6 DEF ChildStore, Store
<1>7. CASE ReadStart \/ ReportStart \/ ReadEnd \/ ReportEnd
  BY <1>7 DEF ReadStart, ReportStart, ReadEnd, ReportEnd
<1>8. CASE Fork \/ Reap \/ Select \/ Wake \/ Recheck \/ Beat \/ Kill
  BY <1>8 DEF Fork, Reap, Select, Wake, Recheck, Beat, Kill
<1>9. CASE SyncEnd \/ NextGroup
  BY <1>9 DEF SyncEnd, NextGroup
<1>10. CASE ThreadWake \/ ThreadBeat \/ ThreadEnd
  BY <1>10 DEF ThreadWake, ThreadBeat, ThreadEnd
<1>11. CASE ChildEnd \/ ChildLeave \/ ChildExit \/ ChildDies
  BY <1>11 DEF ChildEnd, ChildLeave, ChildExit, ChildDies
<1>12. CASE ReadNow \/ Compute \/ EndLog
  BY <1>12 DEF ReadNow, Compute, EndLog
<1>13. CASE Tick \/ Lose \/ UNCHANGED vars
  BY <1>13 DEF Tick, Lose, vars
<1> QED
  BY <1>1, <1>2, <1>3, <1>4, <1>5, <1>6, <1>7, <1>8, <1>9, <1>10, <1>11, <1>12, <1>13
  DEF Next, Main, Child, Thread, Stats

(* Time passes in select, and in the sleep, up to the timer. *)
LEMMA BeatStep == TypeOK /\ BeatInv /\ [Next]_vars => BeatInv'
<1> SUFFICES ASSUME TypeOK, BeatInv, [Next]_vars PROVE BeatInv'
  OBVIOUS
<1> USE ProcessConstantsOK DEF TypeOK, BeatInv, PC, Goto, Waiting, times, mainVars,
     childVars, taskVars, statVars
<1>1. CASE Fork
  BY <1>1 DEF Fork
<1>2. CASE Select
  BY <1>2 DEF Select
<1>3. CASE Beat
  BY <1>3 DEF Beat
<1>4. CASE SyncStart
  BY <1>4 DEF SyncStart
<1>5. CASE ThreadBeat
  BY <1>5 DEF ThreadBeat
<1>6. CASE Tick \/ Lose
  BY <1>6 DEF Tick, Lose
<1>7. ASSUME NEW t \in Task, StoreTimeout(t) PROVE BeatInv'
  BY <1>7 DEF StoreTimeout, Store
<1>8. ASSUME NEW t \in Task, SyncStore(t) PROVE BeatInv'
  BY <1>8 DEF SyncStore, Store
<1>9. ASSUME NEW t \in Task, Finish(t) PROVE BeatInv'
  BY <1>9 DEF Finish
<1>10. ASSUME NEW t \in Task, ChildStore(t) PROVE BeatInv'
  BY <1>10 DEF ChildStore, Store
<1>11. CASE ReadStart \/ ReportStart \/ ReadEnd \/ ReportEnd
  BY <1>11 DEF ReadStart, ReportStart, ReadEnd, ReportEnd
<1>12. CASE Reap \/ Wake \/ Recheck \/ Kill
  BY <1>12 DEF Reap, Wake, Recheck, Kill
<1>13. CASE SyncEnd \/ SyncJoin \/ NextGroup
  BY <1>13 DEF SyncEnd, SyncJoin, NextGroup
<1>14. CASE ThreadWake \/ ThreadEnd
  BY <1>14 DEF ThreadWake, ThreadEnd
<1>15. CASE ChildEnd \/ ChildLeave \/ ChildExit \/ ChildDies
  BY <1>15 DEF ChildEnd, ChildLeave, ChildExit, ChildDies
<1>16. CASE ReadNow \/ Compute \/ EndLog
  BY <1>16 DEF ReadNow, Compute, EndLog
<1>17. CASE UNCHANGED vars
  BY <1>17 DEF vars
<1> QED
  BY <1>1, <1>2, <1>3, <1>4, <1>5, <1>6, <1>7, <1>8, <1>9, <1>10, <1>11, <1>12, <1>13, <1>14,
     <1>15, <1>16, <1>17
  DEF Next, Main, Child, Thread, Stats

(* After each select the time is compared. *)
LEMMA LimitStep == TypeOK /\ ThreadInv /\ LimitInv /\ [Next]_vars => LimitInv'
<1> SUFFICES ASSUME TypeOK, ThreadInv, LimitInv, [Next]_vars PROVE LimitInv'
  OBVIOUS
<1> USE ProcessConstantsOK DEF TypeOK, ThreadInv, LimitInv, PC, Goto, Waiting, Overdue,
     times, mainVars, childVars, taskVars, statVars
<1>1. CASE Fork
  BY <1>1 DEF Fork
<1>2. CASE Select
  BY <1>2 DEF Select
<1>3. CASE Recheck
  BY <1>3 DEF Recheck
<1>4. CASE Tick \/ Lose
  BY <1>4 DEF Tick, Lose
<1>5. ASSUME NEW t \in Task, StoreTimeout(t) PROVE LimitInv'
  BY <1>5 DEF StoreTimeout, Store
<1>6. ASSUME NEW t \in Task, SyncStore(t) PROVE LimitInv'
  BY <1>6 DEF SyncStore, Store
<1>7. ASSUME NEW t \in Task, Finish(t) PROVE LimitInv'
  BY <1>7 DEF Finish
<1>8. ASSUME NEW t \in Task, ChildStore(t) PROVE LimitInv'
  BY <1>8 DEF ChildStore, Store
<1>9. CASE ReadStart \/ ReportStart \/ ReadEnd \/ ReportEnd
  BY <1>9 DEF ReadStart, ReportStart, ReadEnd, ReportEnd
<1>10. CASE Reap \/ Wake \/ Beat \/ Kill
  BY <1>10 DEF Reap, Wake, Beat, Kill
<1>11. CASE SyncStart \/ SyncEnd \/ SyncJoin \/ NextGroup
  BY <1>11 DEF SyncStart, SyncEnd, SyncJoin, NextGroup
<1>12. CASE ThreadWake \/ ThreadBeat \/ ThreadEnd
  BY <1>12 DEF ThreadWake, ThreadBeat, ThreadEnd
<1>13. CASE ChildEnd \/ ChildLeave \/ ChildExit \/ ChildDies
  BY <1>13 DEF ChildEnd, ChildLeave, ChildExit, ChildDies
<1>14. CASE ReadNow \/ Compute \/ EndLog
  BY <1>14 DEF ReadNow, Compute, EndLog
<1>15. CASE UNCHANGED vars
  BY <1>15 DEF vars
<1> QED
  BY <1>1, <1>2, <1>3, <1>4, <1>5, <1>6, <1>7, <1>8, <1>9, <1>10, <1>11, <1>12, <1>13, <1>14,
     <1>15
  DEF Next, Main, Child, Thread, Stats

(* The child stores an execution of each task before it exits with a failure. *)
LEMMA ChildStep == TypeOK /\ ChildInv /\ [Next]_vars => ChildInv'
<1> SUFFICES ASSUME TypeOK, ChildInv, [Next]_vars PROVE ChildInv'
  OBVIOUS
<1> USE ProcessConstantsOK DEF TypeOK, ChildInv, PC, Alive, Goto, times, mainVars, childVars,
     taskVars, statVars
<1>1. CASE Fork
  BY <1>1 DEF Fork
<1>2. CASE ChildEnd
  BY <1>2 DEF ChildEnd
<1>3. CASE ChildExit
  BY <1>3 DEF ChildExit
<1>4. CASE ChildDies
  BY <1>4 DEF ChildDies
<1>5. ASSUME NEW t \in Task, StoreTimeout(t) PROVE ChildInv'
  BY <1>5 DEF StoreTimeout, Store
<1>6. ASSUME NEW t \in Task, SyncStore(t) PROVE ChildInv'
  BY <1>6 DEF SyncStore, Store
<1>7. ASSUME NEW t \in Task, Finish(t) PROVE ChildInv'
  BY <1>7 DEF Finish
<1>8. ASSUME NEW t \in Task, ChildStore(t) PROVE ChildInv'
  BY <1>8 DEF ChildStore, Store
<1>9. CASE ReadStart \/ ReportStart \/ ReadEnd \/ ReportEnd
  BY <1>9 DEF ReadStart, ReportStart, ReadEnd, ReportEnd
<1>10. CASE Reap \/ Select \/ Wake \/ Recheck \/ Beat \/ Kill
  BY <1>10 DEF Reap, Select, Wake, Recheck, Beat, Kill
<1>11. CASE SyncStart \/ SyncEnd \/ SyncJoin \/ NextGroup
  BY <1>11 DEF SyncStart, SyncEnd, SyncJoin, NextGroup
<1>12. CASE ThreadWake \/ ThreadBeat \/ ThreadEnd
  BY <1>12 DEF ThreadWake, ThreadBeat, ThreadEnd
<1>13. CASE ReadNow \/ Compute \/ EndLog
  BY <1>13 DEF ReadNow, Compute, EndLog
<1>14. CASE Tick \/ Lose \/ UNCHANGED vars
  BY <1>14 DEF Tick, Lose, vars
<1>15. CASE ChildLeave
  BY <1>15 DEF ChildLeave
<1> QED
  BY <1>1, <1>2, <1>3, <1>4, <1>5, <1>6, <1>7, <1>8, <1>9, <1>10, <1>11, <1>12, <1>13, <1>14,
     <1>15
  DEF Next, Main, Child, Thread, Stats

(* The main thread takes the outcome from the child that it reaps, or stores the executions
     itself. *)
LEMMA OutcomeStep == TypeOK /\ ChildInv /\ OutcomeInv /\ [Next]_vars => OutcomeInv'
<1> SUFFICES ASSUME TypeOK, ChildInv, OutcomeInv, [Next]_vars PROVE OutcomeInv'
  OBVIOUS
<1> USE ProcessConstantsOK DEF TypeOK, ChildInv, OutcomeInv, OutcomeKnown, PC, Alive, Goto,
     times, mainVars, childVars, taskVars, statVars
<1>1. CASE Reap
  BY <1>1 DEF Reap
<1>2. CASE Kill
  BY <1>2 DEF Kill
<1>3. CASE SyncStart
  BY <1>3 DEF SyncStart
<1>4. CASE SyncEnd
  BY <1>4 DEF SyncEnd
<1>5. CASE SyncJoin
  BY <1>5 DEF SyncJoin
<1>6. ASSUME NEW t \in Task, StoreTimeout(t) PROVE OutcomeInv'
  BY <1>6 DEF StoreTimeout, Store
<1>7. ASSUME NEW t \in Task, SyncStore(t) PROVE OutcomeInv'
  BY <1>7 DEF SyncStore, Store
<1>8. ASSUME NEW t \in Task, Finish(t) PROVE OutcomeInv'
  BY <1>8 DEF Finish
<1>9. ASSUME NEW t \in Task, ChildStore(t) PROVE OutcomeInv'
  BY <1>9 DEF ChildStore, Store
<1>10. CASE ReadStart \/ ReportStart \/ ReadEnd \/ ReportEnd
  BY <1>10 DEF ReadStart, ReportStart, ReadEnd, ReportEnd
<1>11. CASE Fork \/ Select \/ Wake \/ Recheck \/ Beat
  BY <1>11 DEF Fork, Select, Wake, Recheck, Beat
<1>12. CASE NextGroup
  BY <1>12 DEF NextGroup
<1>13. CASE ThreadWake \/ ThreadBeat \/ ThreadEnd
  BY <1>13 DEF ThreadWake, ThreadBeat, ThreadEnd
<1>14. CASE ChildEnd \/ ChildLeave \/ ChildExit \/ ChildDies
  BY <1>14 DEF ChildEnd, ChildLeave, ChildExit, ChildDies
<1>15. CASE ReadNow \/ Compute \/ EndLog
  BY <1>15 DEF ReadNow, Compute, EndLog
<1>16. CASE Tick \/ Lose \/ UNCHANGED vars
  BY <1>16 DEF Tick, Lose, vars
<1> QED
  BY <1>1, <1>2, <1>3, <1>4, <1>5, <1>6, <1>7, <1>8, <1>9, <1>10, <1>11, <1>12, <1>13, <1>14,
     <1>15, <1>16
  DEF Next, Main, Child, Thread, Stats

(* A task is retried when what is counted allows it. *)
LEMMA RetryStep == TypeOK /\ RetryInv /\ [Next]_vars => RetryInv'
<1> SUFFICES ASSUME TypeOK, RetryInv, [Next]_vars PROVE RetryInv'
  OBVIOUS
<1> USE ProcessConstantsOK DEF TypeOK, RetryInv, RetriesBounded, Again, Once, PC, Goto,
     times, mainVars, childVars, taskVars, statVars
<1>1. CASE Fork
  BY <1>1 DEF Fork
<1>2. CASE SyncStart
  BY <1>2 DEF SyncStart
<1>3. CASE NextGroup
  BY <1>3 DEF NextGroup
<1>4. ASSUME NEW t \in Task, StoreTimeout(t) PROVE RetryInv'
  BY <1>4 DEF StoreTimeout, Store
<1>5. ASSUME NEW t \in Task, SyncStore(t) PROVE RetryInv'
  BY <1>5 DEF SyncStore, Store
<1>6. ASSUME NEW t \in Task, Finish(t) PROVE RetryInv'
  <2> USE <1>6 DEF Finish
  <2>1. pc = "finish" /\ pc' = "finish" /\ group' = group \ {t} /\ UNCHANGED <<count,
     attempts, stored>>
    OBVIOUS
  <2>2. silent \in [Task -> Nat] /\ silent' \in [Task -> Nat]
    OBVIOUS
  <2>3. \A s \in Task : silent[s] <= silent'[s]
    OBVIOUS
  <2>4. \A s \in group' : Once(s)'
    BY <2>1, <2>2, <2>3
  <2>5. \A s \in Task : attempts'[s] <= MaxRetries + 1 + silent'[s]
    BY <2>1, <2>2, <2>3
  <2>6. \A s \in retried : Again(s)'
    BY <2>1, <2>2, <2>3
  <2>7. ASSUME ~success, MayRetry(RetryNum(t)) PROVE Again(t)'
    <3>1. Once(t)
      OBVIOUS
    <3>2. silent'[t] = IF t \in stored THEN silent[t] ELSE silent[t] + 1
      BY <2>7
    <3>3. attempts'[t] <= count'[t] + silent'[t]
      BY <2>1, <2>2, <3>1, <3>2
    <3>4. count[t] <= MaxRetries
      BY <2>7 DEF MayRetry, RetryNum
    <3> QED
      BY <2>1, <2>2, <3>3, <3>4
  <2>8. \A s \in retried' : Again(s)'
    BY <2>6, <2>7
  <2> QED
    BY <2>1, <2>4, <2>5, <2>8
<1>7. ASSUME NEW t \in Task, ChildStore(t) PROVE RetryInv'
  BY <1>7 DEF ChildStore, Store
<1>8. CASE ReadStart \/ ReportStart \/ ReadEnd \/ ReportEnd
  BY <1>8 DEF ReadStart, ReportStart, ReadEnd, ReportEnd
<1>9. CASE Reap \/ Select \/ Wake \/ Recheck \/ Beat \/ Kill
  BY <1>9 DEF Reap, Select, Wake, Recheck, Beat, Kill
<1>10. CASE SyncEnd \/ SyncJoin
  BY <1>10 DEF SyncEnd, SyncJoin
<1>11. CASE ThreadWake \/ ThreadBeat \/ ThreadEnd
  BY <1>11 DEF ThreadWake, ThreadBeat, ThreadEnd
<1>12. CASE ChildEnd \/ ChildLeave \/ ChildExit \/ ChildDies
  BY <1>12 DEF ChildEnd, ChildLeave, ChildExit, ChildDies
<1>13. CASE ReadNow \/ Compute \/ EndLog
  BY <1>13 DEF ReadNow, Compute, EndLog
<1>14. CASE Tick \/ Lose \/ UNCHANGED vars
  BY <1>14 DEF Tick, Lose, vars
<1> QED
  BY <1>1, <1>2, <1>3, <1>4, <1>5, <1>6, <1>7, <1>8, <1>9, <1>10, <1>11, <1>12, <1>13, <1>14
  DEF Next, Main, Child, Thread, Stats

-----------------------------------------------------------------------------
\* All parts together.
IInv == TypeOK /\ StatsInv /\ ThreadInv /\ BeatInv /\ LimitInv /\ ChildInv /\ OutcomeInv /\ RetryInv

(* In every state of the worker process each part holds. *)
THEOREM Invariant == Spec => []IInv
<1>1. Init => IInv
  <2> SUFFICES ASSUME Init PROVE IInv
    OBVIOUS
  <2> USE ProcessConstantsOK DEF Init
  <2>1. TypeOK
    <3>1. executor \in {"fork", "sync"} /\ clock \in 0..MaxTime /\ deaths \in 0..MaxDeaths
      OBVIOUS
    <3>2. {began, slept, beat, snow, mnow, timeStart, trueStart} \subseteq 0..clock
      OBVIOUS
    <3>3. count \in [Task -> Nat] /\ attempts \in [Task -> Nat] /\ silent \in [Task -> Nat]
      OBVIOUS
    <3>4. pc \in PC /\ child \in {"none", "exited"} \cup Alive
      BY DEF PC
    <3>5. lost \in 0..Lag
      OBVIOUS
    <3>6. success \in BOOLEAN
      OBVIOUS
    <3> QED
      BY <3>1, <3>2, <3>3, <3>4, <3>5, <3>6 DEF TypeOK
  <2>2. StatsInv /\ ThreadInv /\ BeatInv /\ LimitInv
    BY DEF StatsInv, BusyConserved, ThreadInv, BeatInv, LimitInv, Working
  <2>3. ChildInv /\ OutcomeInv
    BY DEF ChildInv, OutcomeInv, OutcomeKnown, Alive
  <2>4. RetryInv
    BY DEF RetryInv, RetriesBounded, Again, Once
  <2> QED
    BY <2>1, <2>2, <2>3, <2>4 DEF IInv
<1>2. IInv /\ [Next]_vars => IInv'
  BY TypeStep, StatsStep, ThreadStep, BeatStep, LimitStep, ChildStep, OutcomeStep, RetryStep
  DEF IInv
<1> QED
  BY <1>1, <1>2, PTL DEF Spec

(* The types of the variables: where a child may be, that what is left to   *)
(* store belongs to the group, and that the clocks read are not ahead.      *)
THEOREM TypeCorrect == Spec => []TypeOK
<1>1. IInv => TypeOK
  BY DEF IInv
<1> QED
  BY Invariant, <1>1, PTL

(* While the tasks are executed, by the child or the main thread, their     *)
(* entries get a heartbeat every Timer, whatever wakes the main thread, and *)
(* later only by what the worker lost since the last one.                   *)
THEOREM EntriesKept == Spec => []HeartbeatsInTime
<1>1. IInv => HeartbeatsInTime
  BY ProcessConstantsOK DEF IInv, TypeOK, BeatInv, HeartbeatsInTime, Alive
<1> QED
  BY Invariant, <1>1, PTL

(* The heartbeat thread is joined before the outcome is reported, so that   *)
(* no heartbeat brings an entry back that the outcome moves.                *)
THEOREM HeartbeatsEnd == Spec => NoLateHeartbeat
<1>1. IInv /\ [Next]_vars => [beat' > beat => pc \in {"fork", "beat", "sync", "join"}]_vars
  <2> SUFFICES ASSUME TypeOK, ThreadInv, [Next]_vars, beat' > beat
               PROVE  pc \in {"fork", "beat", "sync", "join"}
    BY DEF IInv
  <2>1. CASE Fork \/ Beat \/ SyncStart \/ ThreadBeat
    BY <2>1 DEF Fork, Beat, SyncStart, ThreadBeat, ThreadInv
  <2>2. CASE ReadEnd
    BY <2>2 DEF ReadEnd, TypeOK
  <2>3. beat \in Int
    BY DEF TypeOK
  <2> QED
    BY <2>1, <2>2, <2>3
    DEF Next, Main, Child, Thread, Stats, ReadStart, ReportStart, Reap, Select, Wake, Recheck,
        Kill, SyncEnd, SyncJoin, ReportEnd, NextGroup, StoreTimeout, SyncStore, Finish,
        ThreadWake, ThreadEnd, ChildEnd, ChildLeave, ChildStore, ChildExit, ChildDies, ReadNow,
        Compute, EndLog, Tick, Lose, vars, mainVars, times
<1> QED
  BY Invariant, <1>1, PTL DEF Spec, NoLateHeartbeat

(* A child that hangs is killed one Timer after its time, at the latest,    *)
(* and later only by what the worker lost around the last heartbeat.        *)
THEOREM HungChildKilled == Spec => []ChildGoneInTime
<1>1. IInv => ChildGoneInTime
  BY ProcessConstantsOK DEF IInv, TypeOK, LimitInv, ChildGoneInTime, Alive
<1> QED
  BY Invariant, <1>1, PTL

(* Success is reported only if all tasks returned, or one left the child    *)
(* with status 0, which the parent cannot tell; failure comes with an       *)
(* execution stored for each task unless the child left or died.            *)
THEOREM OutcomeReported == Spec => []OutcomeKnown
<1>1. IInv => OutcomeKnown
  BY DEF IInv, OutcomeInv
<1> QED
  BY Invariant, <1>1, PTL

(* The statistics lose no interval of work and count none twice, wherever   *)
(* the clock is read.                                                       *)
THEOREM BusyTimeConserved == Spec => []BusyConserved
<1>1. IInv => BusyConserved
  BY DEF IInv, StatsInv
<1> QED
  BY Invariant, <1>1, PTL

(* The retry method's max_retries bounds the executions of a task, but for  *)
(* those of which nothing was stored.                                       *)
THEOREM RetriesEnd == Spec => []RetriesBounded
<1>1. IInv => RetriesBounded
  BY DEF IInv, RetryInv
<1> QED
  BY Invariant, <1>1, PTL
=============================================================================
