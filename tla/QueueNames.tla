----------------------------- MODULE QueueNames -----------------------------
(****************************************************************************)
(* Names of queues, sequences of parts ("a.b" is <<"a", "b">>), and the     *)
(* filters that select queues: names to include and names to exclude, each  *)
(* of which stands for its subqueues too.                                   *)
(****************************************************************************)
EXTENDS Integers, Sequences

\* The first n parts of q.
Part(q, n) == SubSeq(q, 1, n)

\* Mutant: the shortest part decides, not the longest.
MatchesShortest(q, only, exclude) ==
  LET from[n \in 1 .. Len(q) + 1] ==
        IF n > Len(q) THEN only = {}
        ELSE IF Part(q, n) \in exclude THEN FALSE
        ELSE IF Part(q, n) \in only THEN TRUE
        ELSE from[n + 1]
  IN  from[1]

\* queue_matches: the parts of q, from the longest, until a filter has one.
QueueMatches(q, only, exclude) ==
  LET from[n \in 0 .. Len(q)] ==
        IF n = 0 THEN only = {}
        ELSE IF Part(q, n) \in exclude THEN FALSE
        ELSE IF Part(q, n) \in only THEN TRUE
        ELSE from[n - 1]
  IN  from[Len(q)]

(* What the README says of the options --queues and --exclude-queues: the   *)
(* given queues and their subqueues, and not those excluded, "unless a more *)
(* specific queue is specified with the -q option".                         *)
Selected(q, only, exclude) ==
  /\ only = {} \/ \E n \in 1 .. Len(q) : Part(q, n) \in only
  /\ \A n \in 1 .. Len(q) :
       Part(q, n) \in exclude => \E m \in n + 1 .. Len(q) : Part(q, m) \in only
=============================================================================
