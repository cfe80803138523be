-------------------------- MODULE MCQueueSemaphore --------------------------
(* Small instances of QueueSemaphore for TLC.                               *)
EXTENDS QueueSemaphore, TLC

Workers == Permutations(Worker)
=============================================================================
