----------------------------- MODULE PurgeErrored -----------------------------
(****************************************************************************)
(* TaskTiger.purge_errored_tasks, called again and again as its docstring   *)
(* shows, until it returns less than its limit.  It pages through the       *)
(* failed tasks of each queue, latest page first, and deletes the tasks of  *)
(* a page that are old enough before it reads the next one.  Meanwhile more *)
(* tasks fail, and clients retry failed ones.                               *)
(*                                                                          *)
(* Tasks are numbered in the order of their scores, the times they failed,  *)
(* and a task that fails now fails later than all others.  One that is      *)
(* retried and fails again counts as another task.                          *)
(****************************************************************************)
EXTENDS QueueNames, FiniteSets, FiniteSetsExt

CONSTANTS
  Queue,       \* names of queues
  Name,        \* names that filters may contain
  N,           \* bound on the number of failures
  Cutoff,      \* tasks after Cutoff failed after last_execution_before; N: no date
  PageSize,    \* task_limit
  Limit,       \* limit; 0: None
  Interfering  \* others retry failed tasks during the purge

ASSUME PurgeConstantsOK ==
  /\ IsFiniteSet(Queue) /\ Queue # {}
  /\ \A q \in Queue \cup Name : q \in Seq(STRING) /\ q # <<>>
  /\ N \in Nat /\ Cutoff \in 0..N
  /\ PageSize \in Nat \ {0} /\ Limit \in Nat
  /\ Interfering \in BOOLEAN

VARIABLES
  only,    \* only_queues, the same for all calls
  exclude, \* exclude_queues
  errors,  \* errors[q]: the error set of queue q
  last,    \* the last failure
  pc,      \* "idle", "next", "fetch", "purge", "done", or "raised": TaskNotFound
  todo,    \* the queues left
  queue,   \* the queue of the page
  skip,    \* offset
  total,   \* total_tasks
  page,    \* tasks of the page that are still to be deleted
  count,   \* total_processed of this call
  old      \* ghost: the tasks to purge when this call began that nobody else
           \* has taken out of the error sets since

filters == <<only, exclude>>
vars == <<filters, errors, last, pc, todo, queue, skip, total, page, count, old>>

TypeOK ==
  /\ only \subseteq Name /\ exclude \subseteq Name
  /\ errors \in [Queue -> SUBSET (1..N)] /\ last \in 0..N
  /\ pc \in {"idle", "next", "fetch", "purge", "done", "raised"}
  /\ todo \subseteq Queue /\ queue \in Queue
  /\ skip \in Nat /\ total \in 0..N
  /\ page \subseteq 1..N /\ count \in 0 .. IF Limit = 0 THEN N ELSE Limit
  /\ old \subseteq Queue \X (1..N)

Init ==
  /\ only \in SUBSET Name /\ exclude \in SUBSET Name
  /\ errors = [q \in Queue |-> {}]
  /\ last = 0
  /\ pc = "idle" /\ todo = {} /\ queue = CHOOSE q \in Queue : TRUE
  /\ skip = 0 /\ total = 0 /\ page = {} /\ count = 0
  /\ old = {}

-----------------------------------------------------------------------------
(* Others.                                                                  *)

\* A task of q fails.
Fail(q) ==
  /\ last < N
  /\ last' = last + 1
  /\ errors' = [errors EXCEPT ![q] = @ \cup {last'}]
  /\ UNCHANGED <<filters, pc, todo, queue, skip, total, page, count, old>>

\* Somebody retries, or deletes, a failed task.
TakeOut(q, t) ==
  /\ Interfering
  /\ t \in errors[q]
  /\ errors' = [errors EXCEPT ![q] = @ \ {t}]
  /\ old' = old \ {<<q, t>>}
  /\ UNCHANGED <<filters, last, pc, todo, queue, skip, total, page, count>>

-----------------------------------------------------------------------------
(* One call.                                                                *)

\* smembers of the index of the error state
Call ==
  /\ pc = "idle"
  /\ pc' = "next"
  /\ todo' = {q \in Queue : errors[q] # {}}
  /\ old' = {e \in Queue \X (1..Cutoff) :
               Selected(e[1], only, exclude) /\ e[2] \in errors[e[1]]}
  /\ UNCHANGED <<filters, errors, last, queue, skip, total, page, count>>

\* The next queue that the filters match, or one that they do not.
NextQueue ==
  /\ pc = "next"
  /\ \E q \in todo :
       /\ todo' = todo \ {q}
       /\ IF QueueMatches(q, only, exclude)
          THEN queue' = q /\ pc' = "fetch" /\ skip' = 0
          ELSE UNCHANGED <<queue, pc, skip>>
  /\ UNCHANGED <<filters, errors, last, total, page, count, old>>

\* Mutant: the page starts one task too far.
PageAfter(S, k, n) == {t \in S : Cardinality({u \in S : u > t}) \in k + 1 .. k + n}

\* ZRANGE -n-k -1-k: of the set S, the n latest but for the k latest.
PageOf(S, k, n) == {t \in S : Cardinality({u \in S : u > t}) \in k .. k + n - 1}

\* Task.tasks_from_queue, and the tasks of the page that are old enough.
Fetch ==
  /\ pc = "fetch"
  /\ total' = Cardinality(errors[queue])
  /\ page' = {t \in PageOf(errors[queue], skip, PageSize) : t <= Cutoff}
  /\ pc' = "purge"
  /\ UNCHANGED <<filters, errors, last, todo, queue, skip, count, old>>

\* Mutant: the limit is off by one.
PurgeOneMore ==
  /\ pc = "purge" /\ page # {}
  /\ LET t == Min(page)
     IN  IF t \in errors[queue]
         THEN /\ errors' = [errors EXCEPT ![queue] = @ \ {t}]
              /\ page' = page \ {t}
              /\ count' = count + 1
              /\ pc' = IF Limit # 0 /\ count' > Limit THEN "done" ELSE "purge"
         ELSE pc' = "raised" /\ UNCHANGED <<errors, page, count>>
  /\ UNCHANGED <<filters, last, todo, queue, skip, total, old>>

\* task.delete, then the check of the limit.
Purge ==
  /\ pc = "purge" /\ page # {}
  /\ LET t == Min(page)
     IN  IF t \in errors[queue]
         THEN /\ errors' = [errors EXCEPT ![queue] = @ \ {t}]
              /\ page' = page \ {t}
              /\ count' = count + 1
              /\ pc' = IF Limit # 0 /\ count' >= Limit THEN "done" ELSE "purge"
         ELSE pc' = "raised" /\ UNCHANGED <<errors, page, count>>
  /\ UNCHANGED <<filters, last, todo, queue, skip, total, old>>

\* skip += task_limit
NextPage ==
  /\ pc = "purge" /\ page = {}
  /\ skip' = skip + PageSize
  /\ pc' = IF skip' < total THEN "fetch" ELSE "next"
  /\ UNCHANGED <<filters, errors, last, todo, queue, total, page, count, old>>

LastQueue ==
  /\ pc = "next" /\ todo = {}
  /\ pc' = "done"
  /\ UNCHANGED <<filters, errors, last, todo, queue, skip, total, page, count, old>>

\* The caller calls again after a full count.
Again ==
  /\ pc = "done" /\ Limit # 0 /\ count = Limit
  /\ pc' = "idle"
  /\ todo' = {} /\ page' = {} /\ count' = 0 /\ total' = 0 /\ skip' = 0
  /\ old' = {}
  /\ UNCHANGED <<filters, errors, last, queue>>

Purging ==
  \/ Call \/ NextQueue \/ Fetch \/ Purge \/ NextPage \/ LastQueue \/ Again

Next ==
  \/ \E q \in Queue : Fail(q) \/ \E t \in errors[q] : TakeOut(q, t)
  \/ Purging

Spec == Init /\ [][Next]_vars

-----------------------------------------------------------------------------
(* Properties.                                                              *)

Finished == pc = "done" /\ ~(Limit # 0 /\ count = Limit)

(* When the last call returns, every task of a selected queue that was old  *)
(* enough when it began is gone (the docstring: "to purge all in one go",   *)
(* "limit=None", and the loop "while n_processed == limit").                *)
AllPurged == Finished => \A e \in old : e[2] \notin errors[e[1]]

(* A task that nobody takes out stays, unless the filters select its queue  *)
(* and it is old enough.                                                    *)
OnlySelectedPurged ==
  [][\A q \in Queue : \A t \in errors[q] \ errors'[q] :
       (Selected(q, only, exclude) /\ t <= Cutoff) \/ TakeOut(q, t)]_vars
=============================================================================
