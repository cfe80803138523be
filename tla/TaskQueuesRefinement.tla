------------------------- MODULE TaskQueuesRefinement -------------------------
(****************************************************************************)
(* TaskQueues implements AtLeastOnce.  An entry has an open request if a    *)
(* request for it is unserved and its data and its place in Redis are       *)
(* there; a worker is executing between executor.execute and its return,    *)
(* and finishing until _finish_task_processing is done with the last task.  *)
(****************************************************************************)
EXTENDS TaskQueues

\* Requests whose task can be found (all of owed, by NoLostTask), or had an object
\* that somebody deleted.
OpenRequests == {e \in owed : e[2] \in vanished \/ Retrievable(e[1], e[2])}

PhaseOf(w) ==
  CASE pc[w] = "exec" -> "executing"
    [] pc[w] \in {"done", "failed"} -> "finishing"
    [] OTHER -> "idle"

EntriesOf(w, S) ==
  IF PhaseOf(w) = "idle" THEN {} ELSE {<<wq[w], t>> : t \in JobsIn(w, InGroup) \cap S}

Promise == INSTANCE AtLeastOnce WITH
  asked <- OpenRequests,
  phase <- [w \in Worker |-> PhaseOf(w)],
  running <- [w \in Worker |-> EntriesOf(w, Task)],
  fresh <- [w \in Worker |-> EntriesOf(w, covered[w])],
  strays <- orphans

(* Clients see an at-least-once queue whose entries are executed by one     *)
(* worker at a time, and perhaps by children of workers that are gone: of   *)
(* timely workers, safe batches and unique tasks with one queue each, every *)
(* step is one of AtLeastOnce or changes nothing there.                     *)
ImplementsAtLeastOnce == Promise!Spec
=============================================================================
