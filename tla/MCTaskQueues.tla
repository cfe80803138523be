----------------------------- MODULE MCTaskQueues -----------------------------
(* Small instances of TaskQueues for TLC.                                   *)
EXTENDS TaskQueuesRefinement, TLC

CONSTANTS w1, w2, t1, t2, q1, q2, l1, f1, f2

Workers == Permutations(Worker)

OneQueue == [t \in Task |-> {q1}]
BothQueues == [t \in Task |-> Queue]
OneFunc == [t \in Task |-> f1]
OwnFunc == [t \in Task |-> IF t = t1 THEN f1 ELSE f2]
NoLocks == [t \in Task |-> NoLock]
SharedLock == [t \in Task |-> l1]
One == [q \in Queue |-> 1]
Two == [q \in Queue |-> 2]
=============================================================================
