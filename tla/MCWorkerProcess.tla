---------------------------- MODULE MCWorkerProcess ----------------------------
(* Small instances of WorkerProcess for TLC.                                *)
EXTENDS WorkerProcess, TLC

Tasks == Permutations(Task)
=============================================================================
