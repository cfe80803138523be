----------------------------- MODULE AtLeastOnce -----------------------------
(****************************************************************************)
(* What TaskTiger promises to the clients of its queues, whatever happens   *)
(* to its workers: a request (an entry: a task in a queue) is open until an *)
(* execution that began after it is complete, or until a client withdraws   *)
(* it; and an entry has one execution at a time by workers that are alive.  *)
(* Nothing is said of how often an entry is executed: a request may outlive *)
(* any number of executions that failed, and what a worker executed when it *)
(* died strays on, beside an execution by another one, and serves nobody.   *)
(****************************************************************************)
CONSTANTS Entry, Worker

VARIABLES
  asked,    \* the entries with open requests
  phase,    \* phase[w]: "idle", "executing", or "finishing" what it executed
  running,  \* running[w]: the entries that w executes or finishes
  fresh,    \* fresh[w]: those of them all of whose requests came before
  strays    \* the entries whose execution outlived its worker

vars == <<asked, phase, running, fresh, strays>>

TypeOK ==
  /\ asked \subseteq Entry
  /\ phase \in [Worker -> {"idle", "executing", "finishing"}]
  /\ running \in [Worker -> SUBSET Entry]
  /\ fresh \in [Worker -> SUBSET Entry]
  /\ strays \subseteq Entry

Init ==
  /\ asked = {}
  /\ phase = [w \in Worker |-> "idle"]
  /\ running = [w \in Worker |-> {}]
  /\ fresh = [w \in Worker |-> {}]
  /\ strays = {}

\* A request that is not served by an execution in progress.
Ask(e) ==
  /\ asked' = asked \cup {e}
  /\ fresh' = [w \in Worker |-> fresh[w] \ {e}]
  /\ UNCHANGED <<phase, running, strays>>

\* Requests cannot be withdrawn from an execution in progress ...
Withdraw(e) ==
  /\ \A w \in Worker : e \notin running[w]
  /\ asked' = asked \ {e}
  /\ UNCHANGED <<phase, running, fresh, strays>>

\* ... which then serves the requests that are left.
WithdrawNewer(e) ==
  /\ fresh' = [w \in Worker |-> IF e \in running[w] THEN fresh[w] \cup {e} ELSE fresh[w]]
  /\ UNCHANGED <<asked, phase, running, strays>>

Begin(w, S) ==
  /\ phase[w] = "idle" /\ S # {}
  /\ \A v \in Worker : running[v] \cap S = {}
  /\ phase' = [phase EXCEPT ![w] = "executing"]
  /\ running' = [running EXCEPT ![w] = S]
  /\ fresh' = [fresh EXCEPT ![w] = S]
  /\ UNCHANGED <<asked, strays>>

End(w) ==
  /\ phase[w] = "executing"
  /\ phase' = [phase EXCEPT ![w] = "finishing"]
  /\ UNCHANGED <<asked, running, fresh, strays>>

\* w is done with e; the requests that are served are those known when it began.
Finish(w, e, served) ==
  /\ phase[w] = "finishing" /\ e \in running[w]
  /\ asked' = IF served /\ e \in fresh[w] THEN asked \ {e} ELSE asked
  /\ running' = [running EXCEPT ![w] = @ \ {e}]
  /\ fresh' = [fresh EXCEPT ![w] = @ \ {e}]
  /\ UNCHANGED <<phase, strays>>

(* w is through with what it executed, or dies: then nothing is served.  If  *)
(* it dies while it executes, S is what goes on without it.                 *)
Stop(w, S) ==
  /\ S \subseteq running[w] /\ (S # {} => phase[w] = "executing")
  /\ phase' = [phase EXCEPT ![w] = "idle"]
  /\ running' = [running EXCEPT ![w] = {}]
  /\ fresh' = [fresh EXCEPT ![w] = {}]
  /\ strays' = strays \cup S
  /\ UNCHANGED asked

StrayEnds(e) ==
  /\ strays' = strays \ {e}
  /\ UNCHANGED <<asked, phase, running, fresh>>

Next ==
  \/ \E e \in Entry : Ask(e) \/ Withdraw(e) \/ WithdrawNewer(e) \/ StrayEnds(e)
  \/ \E w \in Worker :
       \/ \E S \in SUBSET Entry : Begin(w, S) \/ Stop(w, S)
       \/ End(w)
       \/ \E e \in Entry, served \in BOOLEAN : Finish(w, e, served)

Spec == Init /\ [][Next]_vars
=============================================================================
