-------------------------- MODULE PurgeErroredProofs --------------------------
(****************************************************************************)
(* Proofs about the purge of failed tasks and the filters of queues: which  *)
(* queues the filters select, for any names and filters; that nothing else  *)
(* is purged; and that everything is, where the limit is within one page    *)
(* and no date is given.                                                    *)
(****************************************************************************)
EXTENDS PurgeErrored, FiniteSetTheorems, WellFoundedInduction, TLAPS

-----------------------------------------------------------------------------
(* Numbers.                                                                 *)

\* A set of natural numbers has a least element.
LEMMA Least ==
  ASSUME NEW S, S \subseteq Nat, S # {}
  PROVE  \E x \in S : \A y \in S : x <= y
<1> DEFINE R == OpToRel(<, Nat)
<1>1. IsWellFoundedOn(R, Nat)
  BY NatLessThanWellFounded
<1>2. \A x, y \in Nat : <<y, x>> \in R <=> y < x
  BY DEF OpToRel
<1> HIDE DEF R
<1>3. PICK x \in S : \A y \in S : ~ (<<y, x>> \in R)
  BY <1>1, WFMin
<1>4. ASSUME NEW y \in S PROVE x <= y
  <2>1. x \in Nat /\ y \in Nat /\ ~ (<<y, x>> \in R)
    BY <1>3
  <2>2. ~ (y < x)
    BY <1>2, <2>1
  <2> QED BY <2>1, <2>2
<1> QED BY <1>4

\* And a greatest one if it is bounded.
LEMMA Greatest ==
  ASSUME NEW n \in Nat, NEW S, S \subseteq 0..n, S # {}
  PROVE  \E x \in S : \A y \in S : y <= x
<1> DEFINE D == {n - x : x \in S}
<1>1. D \subseteq Nat /\ D # {}
  <2>1. \A x \in S : x \in 0..n
    OBVIOUS
  <2>2. \A x \in S : n - x \in Nat
    BY <2>1
  <2> QED BY <2>2
<1>2. PICK d \in D : \A e \in D : d <= e
  BY <1>1, Least
<1>3. PICK x \in S : d = n - x
  BY <1>2
<1>4. ASSUME NEW y \in S PROVE y <= x
  <2>1. n - y \in D
    OBVIOUS
  <2>2. d <= n - y
    BY <1>2, <2>1
  <2>3. x \in 0..n /\ y \in 0..n
    OBVIOUS
  <2> QED BY <1>3, <2>2, <2>3
<1> QED BY <1>4

\* Min of the community modules.
LEMMA MinIn ==
  ASSUME NEW S, S \subseteq Nat, S # {}
  PROVE  Min(S) \in S /\ \A y \in S : Min(S) <= y
<1>1. \E x \in S : \A y \in S : x <= y
  BY Least
<1> QED BY <1>1 DEF Min

-----------------------------------------------------------------------------
(* queue_matches.                                                           *)

\* What the first n parts of a name decide.
SelectedUpTo(q, inc, exc, n) ==
  /\ inc = {} \/ \E k \in 1..n : Part(q, k) \in inc
  /\ \A k \in 1..n : Part(q, k) \in exc => \E m \in k + 1 .. n : Part(q, m) \in inc

\* One step of the loop over the parts.
LEMMA SelectedStep ==
  ASSUME NEW q, NEW inc, NEW exc, NEW n \in Nat
  PROVE  SelectedUpTo(q, inc, exc, n) <=>
           (IF n = 0 THEN inc = {}
            ELSE IF Part(q, n) \in exc THEN FALSE
            ELSE IF Part(q, n) \in inc THEN TRUE
            ELSE SelectedUpTo(q, inc, exc, n - 1))
<1>1. CASE n = 0
  BY <1>1 DEF SelectedUpTo
<1>2. CASE n # 0 /\ Part(q, n) \in exc
  <2>1. n \in 1..n /\ n + 1 .. n = {}
    BY <1>2
  <2>2. ~SelectedUpTo(q, inc, exc, n)
    BY <1>2, <2>1 DEF SelectedUpTo
  <2> QED BY <1>2, <2>2
<1>3. CASE n # 0 /\ Part(q, n) \notin exc /\ Part(q, n) \in inc
  BY <1>3 DEF SelectedUpTo
<1>4. CASE n # 0 /\ Part(q, n) \notin exc /\ Part(q, n) \notin inc
  <2>1. (\E k \in 1..n : Part(q, k) \in inc) <=> (\E k \in 1 .. n - 1 : Part(q, k) \in inc)
    BY <1>4
  <2>2. ASSUME NEW k \in 1 .. n - 1
        PROVE  (\E m \in k + 1 .. n : Part(q, m) \in inc) <=>
               (\E m \in k + 1 .. n - 1 : Part(q, m) \in inc)
    BY <1>4
  <2>3. SelectedUpTo(q, inc, exc, n) <=> SelectedUpTo(q, inc, exc, n - 1)
    BY <1>4, <2>1, <2>2 DEF SelectedUpTo
  <2> QED BY <1>4, <2>3 DEF SelectedUpTo
<1> QED BY <1>1, <1>2, <1>3, <1>4

(* queue_matches, which looks at the parts of a name one after another, the *)
(* longest first, and stops at the first one that a filter has, selects     *)
(* what the README says of --queues and --exclude-queues.                   *)
THEOREM FiltersSelect ==
  ASSUME NEW q, Len(q) \in Nat, NEW inc, NEW exc
  PROVE  QueueMatches(q, inc, exc) <=> Selected(q, inc, exc)
<1> DEFINE S == 0 .. Len(q)
           body(f) == [n \in S |->
             IF n = 0 THEN inc = {}
             ELSE IF Part(q, n) \in exc THEN FALSE
             ELSE IF Part(q, n) \in inc THEN TRUE
             ELSE f[n - 1]]
           from == CHOOSE f : f = body(f)
           g == [n \in S |-> SelectedUpTo(q, inc, exc, n)]
<1>1. ASSUME NEW n \in S
      PROVE  SelectedUpTo(q, inc, exc, n) =
               (IF n = 0 THEN inc = {}
                ELSE IF Part(q, n) \in exc THEN FALSE
                ELSE IF Part(q, n) \in inc THEN TRUE
                ELSE SelectedUpTo(q, inc, exc, n - 1))
  <2>1. n \in Nat
    OBVIOUS
  <2>2. SelectedUpTo(q, inc, exc, n) \in BOOLEAN /\ SelectedUpTo(q, inc, exc, n - 1) \in BOOLEAN
    BY DEF SelectedUpTo
  <2> QED BY <2>1, <2>2, SelectedStep
<1>2. g = body(g)
  <2>1. ASSUME NEW n \in S, n # 0 PROVE g[n - 1] = SelectedUpTo(q, inc, exc, n - 1)
    <3>1. n - 1 \in S
      BY <2>1
    <3> QED BY <3>1
  <2>2. ASSUME NEW n \in S
        PROVE  SelectedUpTo(q, inc, exc, n) =
                 (IF n = 0 THEN inc = {}
                  ELSE IF Part(q, n) \in exc THEN FALSE
                  ELSE IF Part(q, n) \in inc THEN TRUE
                  ELSE g[n - 1])
    BY <1>1, <2>1
  <2> QED BY <2>2
<1>3. from = body(from)
  BY <1>2
<1>4. QueueMatches(q, inc, exc) = from[Len(q)]
  BY DEF QueueMatches
<1> HIDE DEF from
<1>5. \A n \in S : from[n] = SelectedUpTo(q, inc, exc, n)
  <2> DEFINE Wrong == {n \in S : from[n] # SelectedUpTo(q, inc, exc, n)}
  <2> SUFFICES ASSUME Wrong # {} PROVE FALSE
    OBVIOUS
  <2>1. Wrong \subseteq Nat
    OBVIOUS
  <2>2. PICK n \in Wrong : \A m \in Wrong : n <= m
    BY <2>1, Least
  <2>3. n \in S /\ n \in Nat /\ from[n] # SelectedUpTo(q, inc, exc, n)
    BY <2>1, <2>2
  <2>4. n # 0 => n - 1 \in S /\ n - 1 \notin Wrong
    BY <2>2, <2>3
  <2>5. n # 0 => from[n - 1] = SelectedUpTo(q, inc, exc, n - 1)
    BY <2>4
  <2>6. from[n] = (IF n = 0 THEN inc = {}
                   ELSE IF Part(q, n) \in exc THEN FALSE
                   ELSE IF Part(q, n) \in inc THEN TRUE
                   ELSE from[n - 1])
    BY <1>3, <2>3
  <2> QED BY <1>1, <2>3, <2>5, <2>6
<1>6. from[Len(q)] = SelectedUpTo(q, inc, exc, Len(q))
  BY <1>5
<1>7. SelectedUpTo(q, inc, exc, Len(q)) <=> Selected(q, inc, exc)
  BY DEF Selected, SelectedUpTo
<1> QED BY <1>4, <1>6, <1>7

-----------------------------------------------------------------------------
(* The invariant.                                                           *)

Failed == UNION {errors[q] : q \in Queue}

\* A failure is in the error set of one queue, and was counted.
Failures ==
  /\ \A q \in Queue : errors[q] \subseteq 1..last
  /\ \A q, r \in Queue : q # r => errors[q] \cap errors[r] = {}
  /\ count + Cardinality(Failed) <= last

\* A call goes on below its limit only.
BelowLimit ==
  /\ pc = "idle" => count = 0
  /\ Limit # 0 /\ pc \in {"next", "fetch", "purge"} => count < Limit

CountInv == TypeOK /\ Failures /\ BelowLimit

\* The filters have let the queue of the page through, and the date its tasks.
PageChosen ==
  /\ pc \in {"fetch", "purge"} => Selected(queue, only, exclude)
  /\ \A t \in page : t <= Cutoff

\* Nothing of what was to be purged is left in q.
Gone(q) == \A e \in old : e[1] = q => e[2] \notin errors[q]

\* What the tasks still to be deleted leave of the queue, if they do not reach the limit.
Covers == \A e \in old : e[1] = queue /\ e[2] \in errors[queue] => e[2] \in page
Full == count + Cardinality(page) >= Limit

Progress ==
  /\ \A e \in old : e[1] \in Queue /\ e[2] <= last /\ Selected(e[1], only, exclude)
  /\ pc = "next" => \A q \in Queue \ todo : Gone(q)
  /\ pc \in {"fetch", "purge"} => \A q \in Queue \ (todo \cup {queue}) : Gone(q)
  /\ pc = "fetch" => skip = 0 \/ Gone(queue)
  /\ pc = "purge" => Covers \/ Full
  /\ pc = "done" => count = Limit \/ \A q \in Queue : Gone(q)

(* What a caller gives who wants all of it: no date, and a limit that the   *)
(* page holds (the default limit is the size of a page).  Without a limit,  *)
(* or with one beyond the page, tasks are skipped.                          *)
WithinPage == Limit # 0 /\ Limit <= PageSize /\ Cutoff = N

-----------------------------------------------------------------------------
(* Counts and types.                                                        *)

\* The failures, in any error set, are finitely many.
LEMMA FailedFinite ==
  ASSUME TypeOK
  PROVE  /\ Failed \subseteq 1..N /\ IsFiniteSet(Failed) /\ Cardinality(Failed) \in Nat
         /\ \A q \in Queue : /\ IsFiniteSet(errors[q])
                             /\ Cardinality(errors[q]) \in 0..N
<1>1. N \in Nat
  BY PurgeConstantsOK
<1>2. IsFiniteSet(1..N) /\ Cardinality(1..N) = N
  BY <1>1, FS_Interval
<1>3. Failed \subseteq 1..N
  BY DEF Failed, TypeOK
<1>4. \A q \in Queue : errors[q] \subseteq 1..N
  BY DEF TypeOK
<1>5. ASSUME NEW S, S \subseteq 1..N
      PROVE  IsFiniteSet(S) /\ Cardinality(S) \in Nat /\ Cardinality(S) <= N
  <2>1. IsFiniteSet(S) /\ Cardinality(S) <= N
    BY <1>2, <1>5, FS_Subset
  <2> QED BY <2>1, FS_CardinalityType
<1>6. ASSUME NEW q \in Queue
      PROVE  IsFiniteSet(errors[q]) /\ Cardinality(errors[q]) \in 0..N
  <2>1. IsFiniteSet(errors[q]) /\ Cardinality(errors[q]) \in Nat /\ Cardinality(errors[q]) <= N
    BY <1>4, <1>5
  <2> QED BY <1>1, <2>1
<1> QED BY <1>3, <1>5, <1>6

\* A failed task is taken out of its error set.
LEMMA TakenOutOnce ==
  ASSUME TypeOK, Failures, NEW q \in Queue, NEW t \in errors[q],
         errors' = [errors EXCEPT ![q] = @ \ {t}]
  PROVE  /\ Cardinality(Failed') = Cardinality(Failed) - 1
         /\ errors' \in [Queue -> SUBSET (1..N)]
         /\ errors'[q] = errors[q] \ {t}
         /\ \A r \in Queue : errors'[r] \subseteq errors[r]
         /\ \A r \in Queue \ {q} : errors'[r] = errors[r]
<1>1. /\ errors'[q] = errors[q] \ {t}
      /\ \A r \in Queue \ {q} : errors'[r] = errors[r]
      /\ errors' \in [Queue -> SUBSET (1..N)]
  BY DEF TypeOK
<1>2. \A r \in Queue \ {q} : t \notin errors[r]
  BY DEF Failures
<1>3. Failed' = Failed \ {t} /\ t \in Failed
  BY <1>1, <1>2 DEF Failed
<1>4. Cardinality(Failed \ {t}) = Cardinality(Failed) - 1
  BY <1>3, FailedFinite, FS_RemoveElement
<1> QED BY <1>1, <1>3, <1>4

\* Filters, errors and numbers at the start.
LEMMA CountInit == Init => CountInv /\ PageChosen /\ Progress
<1> SUFFICES ASSUME Init PROVE CountInv /\ PageChosen /\ Progress
  OBVIOUS
<1> USE PurgeConstantsOK DEF Init
<1>1. TypeOK
  <2>1. queue \in Queue
    OBVIOUS
  <2>2. errors \in [Queue -> SUBSET (1..N)] /\ last \in 0..N /\ total \in 0..N
    OBVIOUS
  <2>3. count \in 0 .. IF Limit = 0 THEN N ELSE Limit
    OBVIOUS
  <2> QED BY <2>1, <2>2, <2>3 DEF TypeOK
<1>2. Failures
  <2>1. Failed = {} /\ \A q \in Queue : errors[q] = {}
    BY DEF Failed
  <2>2. Cardinality(Failed) = 0
    BY <2>1, FS_EmptySet
  <2> QED BY <2>1, <2>2 DEF Failures
<1> QED BY <1>1, <1>2 DEF CountInv, BelowLimit, PageChosen, Progress

\* A task fails.
LEMMA CountFail ==
  ASSUME CountInv, NEW q \in Queue, Fail(q)
  PROVE  /\ CountInv'
         /\ \A r \in Queue : errors'[r] = IF r = q THEN errors[r] \cup {last + 1} ELSE errors[r]
<1>1. TypeOK /\ Failures
  BY DEF CountInv
<1>2. /\ last < N /\ last' = last + 1 /\ last \in Nat /\ N \in Nat
      /\ errors' = [errors EXCEPT ![q] = @ \cup {last + 1}]
  BY <1>1, PurgeConstantsOK DEF Fail, TypeOK
<1>3. /\ last + 1 \in 1..N
      /\ errors'[q] = errors[q] \cup {last + 1}
      /\ \A r \in Queue \ {q} : errors'[r] = errors[r]
      /\ errors' \in [Queue -> SUBSET (1..N)]
  <2>1. last + 1 \in 1..N
    BY <1>2
  <2> QED BY <1>1, <1>2, <2>1 DEF TypeOK
<1>4. \A r \in Queue : errors[r] \subseteq 1..last /\ last + 1 \notin errors[r]
  BY <1>1, <1>2 DEF Failures
<1>5. Failed' = Failed \cup {last + 1} /\ last + 1 \notin Failed
  BY <1>3, <1>4 DEF Failed
<1>6. Cardinality(Failed') = Cardinality(Failed) + 1
  BY <1>1, <1>5, FailedFinite, FS_AddElement
<1>7. Failures'
  <2>1. \A r \in Queue : errors'[r] \subseteq 1..last'
    BY <1>2, <1>3, <1>4
  <2>2. \A r, x \in Queue : r # x => errors'[r] \cap errors'[x] = {}
    BY <1>1, <1>3, <1>4 DEF Failures
  <2>3. count' + Cardinality(Failed') <= last'
    <3>1. /\ count \in Nat /\ count' = count /\ Cardinality(Failed) \in Nat
          /\ count + Cardinality(Failed) <= last
      BY <1>1, FailedFinite, PurgeConstantsOK DEF Failures, TypeOK, Fail
    <3> QED BY <1>2, <1>6, <3>1
  <2> QED BY <2>1, <2>2, <2>3 DEF Failures
<1>8. TypeOK'
  BY <1>1, <1>2, <1>3 DEF TypeOK, Fail, filters
<1>9. BelowLimit'
  BY DEF CountInv, BelowLimit, Fail
<1> QED BY <1>3, <1>7, <1>8, <1>9 DEF CountInv

\* Somebody takes a failed task out.
LEMMA CountTakeOut ==
  ASSUME CountInv, NEW q \in Queue, NEW t \in errors[q], TakeOut(q, t)
  PROVE  CountInv'
<1>1. TypeOK /\ Failures
  BY DEF CountInv
<1>2. /\ Cardinality(Failed') = Cardinality(Failed) - 1
      /\ errors' \in [Queue -> SUBSET (1..N)]
      /\ \A r \in Queue : errors'[r] \subseteq errors[r]
  BY <1>1, TakenOutOnce DEF TakeOut
<1>3. UNCHANGED <<count, last>> /\ count \in Nat /\ last \in Nat /\ Cardinality(Failed) \in Nat
  BY <1>1, FailedFinite, PurgeConstantsOK DEF TakeOut, TypeOK
<1>4. Failures'
  BY <1>1, <1>2, <1>3 DEF Failures
<1>5. TypeOK'
  BY <1>1, <1>2 DEF TypeOK, TakeOut, filters
<1>6. BelowLimit'
  BY DEF CountInv, BelowLimit, TakeOut
<1> QED BY <1>4, <1>5, <1>6 DEF CountInv

\* What Purge does: the least task of the page goes, or somebody else has it.
LEMMA PurgeStep ==
  ASSUME TypeOK, Purge
  PROVE  /\ pc = "purge" /\ Min(page) \in page /\ page \subseteq Nat
         /\ UNCHANGED <<filters, last, todo, queue, skip, total, old>>
         /\ \/ /\ pc' = "raised" /\ UNCHANGED <<errors, page, count>>
            \/ /\ Min(page) \in errors[queue]
               /\ errors' = [errors EXCEPT ![queue] = @ \ {Min(page)}]
               /\ page' = page \ {Min(page)} /\ count' = count + 1
               /\ pc' = IF Limit # 0 /\ count + 1 >= Limit THEN "done" ELSE "purge"
<1>1. page \subseteq Nat /\ page # {}
  BY DEF TypeOK, Purge
<1>2. Min(page) \in page
  BY <1>1, MinIn
<1>3. PICK t : t = Min(page)
  OBVIOUS
<1>4. \/ /\ pc' = "raised" /\ UNCHANGED <<errors, page, count>>
      \/ /\ t \in errors[queue]
         /\ errors' = [errors EXCEPT ![queue] = @ \ {t}]
         /\ page' = page \ {t} /\ count' = count + 1
         /\ pc' = IF Limit # 0 /\ count + 1 >= Limit THEN "done" ELSE "purge"
  BY <1>3 DEF Purge
<1> QED BY <1>1, <1>2, <1>3, <1>4 DEF Purge

\* The purge of a task: the limit is not passed, and the count is one of failures.
LEMMA CountPurge ==
  ASSUME CountInv, Purge
  PROVE  CountInv'
<1>1. TypeOK /\ Failures /\ BelowLimit
  BY DEF CountInv
<1>2. /\ pc = "purge" /\ UNCHANGED <<filters, last, todo, queue, skip, total, old>>
      /\ queue \in Queue /\ count \in Nat /\ last \in Nat /\ last <= N /\ N \in Nat /\ Limit \in Nat
      /\ (Limit # 0 => count < Limit)
  BY <1>1, PurgeStep, PurgeConstantsOK DEF TypeOK, BelowLimit
<1>3. PICK t : t = Min(page)
  OBVIOUS
<1>4. CASE pc' = "raised" /\ UNCHANGED <<errors, page, count>>
  <2>1. TypeOK'
    BY <1>1, <1>2, <1>4 DEF TypeOK, filters
  <2>2. Failures' /\ BelowLimit'
    BY <1>1, <1>2, <1>4 DEF Failures, Failed, BelowLimit
  <2> QED BY <2>1, <2>2 DEF CountInv
<1>5. CASE /\ t \in errors[queue] /\ errors' = [errors EXCEPT ![queue] = @ \ {t}]
           /\ page' = page \ {t} /\ count' = count + 1
           /\ pc' = IF Limit # 0 /\ count + 1 >= Limit THEN "done" ELSE "purge"
  <2>1. /\ Cardinality(Failed') = Cardinality(Failed) - 1
        /\ errors' \in [Queue -> SUBSET (1..N)]
        /\ \A r \in Queue : errors'[r] \subseteq errors[r]
    BY <1>1, <1>2, <1>5, TakenOutOnce
  <2>2. Cardinality(Failed) \in Nat /\ count + Cardinality(Failed) <= last
    BY <1>1, FailedFinite DEF Failures
  <2>3. Cardinality(Failed') \in Nat
    <3>1. Failed' \subseteq Failed
      BY <2>1 DEF Failed
    <3>2. IsFiniteSet(Failed')
      BY <1>1, <3>1, FailedFinite, FS_Subset
    <3> QED BY <3>2, FS_CardinalityType
  <2>4. Failures'
    BY <1>1, <1>2, <1>5, <2>1, <2>2 DEF Failures
  <2>5. count' \in 0 .. IF Limit = 0 THEN N ELSE Limit
    BY <1>2, <1>5, <2>1, <2>2, <2>3
  <2>6. TypeOK'
    <3>1. page' \subseteq 1..N /\ pc' \in {"idle", "next", "fetch", "purge", "done", "raised"}
      BY <1>1, <1>5 DEF TypeOK
    <3> QED BY <1>1, <1>2, <2>1, <2>5, <3>1 DEF TypeOK, filters
  <2>7. BelowLimit'
    BY <1>2, <1>5 DEF BelowLimit
  <2> QED BY <2>4, <2>6, <2>7 DEF CountInv
<1> QED BY <1>1, <1>3, <1>4, <1>5, PurgeStep

\* The steps of a call that take nothing out.
LEMMA CountCall ==
  ASSUME CountInv, Call \/ NextQueue \/ Fetch \/ NextPage \/ LastQueue \/ Again
  PROVE  CountInv'
<1>1. TypeOK /\ Failures /\ BelowLimit /\ UNCHANGED <<errors, last>>
  BY DEF CountInv, Call, NextQueue, Fetch, NextPage, LastQueue, Again
<1>2. /\ count' = count \/ count' = 0
      /\ last \in Nat /\ count \in Nat /\ Limit \in Nat /\ Cardinality(Failed) \in Nat
      /\ N \in Nat
  BY <1>1, FailedFinite, PurgeConstantsOK
     DEF Call, NextQueue, Fetch, NextPage, LastQueue, Again, TypeOK
<1>3. Failures'
  <2>1. Failed' = Failed
    BY <1>1 DEF Failed
  <2> QED BY <1>1, <1>2, <2>1 DEF Failures
<1>4. BelowLimit'
  BY <1>1, <1>2 DEF BelowLimit, Call, NextQueue, Fetch, NextPage, LastQueue, Again
<1>5. CASE Call
  <2>1. old' \subseteq Queue \X (1..N)
    BY <1>5, PurgeConstantsOK DEF Call
  <2> QED BY <1>1, <1>3, <1>4, <1>5, <2>1 DEF CountInv, Call, TypeOK, filters
<1>6. CASE NextQueue
  BY <1>1, <1>3, <1>4, <1>6 DEF CountInv, NextQueue, TypeOK, filters
<1>7. CASE Fetch
  <2>1. total' \in 0..N /\ page' \subseteq 1..N
    <3>1. queue \in Queue /\ errors[queue] \subseteq 1..N
      BY <1>1 DEF TypeOK
    <3> QED BY <1>1, <1>7, <3>1, FailedFinite DEF Fetch, PageOf
  <2> QED BY <1>1, <1>3, <1>4, <1>7, <2>1 DEF CountInv, Fetch, TypeOK, filters
<1>8. CASE NextPage
  <2>1. skip' \in Nat
    BY <1>1, <1>8, PurgeConstantsOK DEF NextPage, TypeOK
  <2> QED BY <1>1, <1>3, <1>4, <1>8, <2>1 DEF CountInv, NextPage, TypeOK, filters
<1>9. CASE LastQueue
  BY <1>1, <1>3, <1>4, <1>9 DEF CountInv, LastQueue, TypeOK, filters
<1>10. CASE Again
  BY <1>1, <1>2, <1>3, <1>4, <1>10 DEF CountInv, Again, TypeOK, filters
<1> QED BY <1>5, <1>6, <1>7, <1>8, <1>9, <1>10

\* Every step.
LEMMA CountNext == CountInv /\ [Next]_vars => CountInv'
<1> SUFFICES ASSUME CountInv, [Next]_vars PROVE CountInv'
  OBVIOUS
<1>1. CASE UNCHANGED vars
  BY <1>1 DEF vars, filters, CountInv, TypeOK, Failures, Failed, BelowLimit
<1>2. CASE Next
  BY <1>2, CountFail, CountTakeOut, CountPurge, CountCall DEF Next, Purging
<1> QED BY <1>1, <1>2

(* The types of a purge: in particular the count of a call, which decides   *)
(* whether the caller goes on, never passes the limit, and without one it   *)
(* never passes the number of failures.                                     *)
THEOREM TypeCorrect == Spec => []TypeOK
<1>1. CountInv => TypeOK
  BY DEF CountInv
<1> QED BY <1>1, CountInit, CountNext, PTL DEF Spec

-----------------------------------------------------------------------------
(* Nothing else is purged.                                                  *)

\* The filters, for a queue.
LEMMA Filtered ==
  ASSUME NEW q \in Queue
  PROVE  QueueMatches(q, only, exclude) <=> Selected(q, only, exclude)
<1>1. Len(q) \in Nat
  BY PurgeConstantsOK
<1> QED BY <1>1, FiltersSelect

\* A page is read of a queue that is selected only.
LEMMA ChosenNext == CountInv /\ PageChosen /\ [Next]_vars => PageChosen'
<1> SUFFICES ASSUME TypeOK, PageChosen, [Next]_vars PROVE PageChosen'
  BY DEF CountInv
<1>1. ASSUME UNCHANGED <<filters, pc, queue, page>> PROVE PageChosen'
  BY <1>1 DEF PageChosen, filters, Selected
\* Where no page is read.
<1>2. ASSUME page' \subseteq page, UNCHANGED <<filters, queue>>,
             pc' \in {"fetch", "purge"} => pc \in {"fetch", "purge"}
      PROVE  PageChosen'
  BY <1>2 DEF PageChosen, filters, Selected
<1>3. CASE UNCHANGED vars
  BY <1>1, <1>3 DEF vars
<1>4. CASE \E q \in Queue : Fail(q) \/ \E t \in errors[q] : TakeOut(q, t)
  BY <1>1, <1>4 DEF Fail, TakeOut
<1>5. CASE Call \/ NextPage \/ LastQueue \/ Again
  BY <1>2, <1>5 DEF Call, NextPage, LastQueue, Again
<1>6. CASE Purge
  BY <1>2, <1>6, PurgeStep
<1>7. CASE NextQueue
  <2>1. UNCHANGED <<filters, page>> /\ pc = "next"
    BY <1>7 DEF NextQueue
  <2>2. PICK q \in todo :
          IF QueueMatches(q, only, exclude)
          THEN queue' = q /\ pc' = "fetch"
          ELSE UNCHANGED <<queue, pc>>
    BY <1>7 DEF NextQueue
  <2>3. QueueMatches(q, only, exclude) <=> Selected(q, only, exclude)
    BY Filtered DEF TypeOK
  <2>4. CASE QueueMatches(q, only, exclude)
    BY <2>1, <2>2, <2>3, <2>4 DEF PageChosen, filters, Selected
  <2>5. CASE ~QueueMatches(q, only, exclude)
    BY <1>1, <2>1, <2>2, <2>5
  <2> QED BY <2>4, <2>5
<1>8. CASE Fetch
  <2>1. \A t \in page' : t <= Cutoff
    BY <1>8 DEF Fetch
  <2> QED BY <1>8, <2>1 DEF Fetch, PageChosen, filters, Selected
<1> QED BY <1>3, <1>4, <1>5, <1>6, <1>7, <1>8 DEF Next, Purging

(* The purge deletes no task of a queue that the filters do not select, and *)
(* none that failed after the date, whatever fails or is retried while it   *)
(* pages through the queues.                                                *)
THEOREM NothingElsePurged == Spec => OnlySelectedPurged
<1>1. CountInv /\ PageChosen /\ [Next]_vars =>
        [\A q \in Queue : \A t \in errors[q] \ errors'[q] :
           (Selected(q, only, exclude) /\ t <= Cutoff) \/ TakeOut(q, t)]_vars
  <2> SUFFICES ASSUME TypeOK, PageChosen, Next, NEW q \in Queue, NEW t \in errors[q] \ errors'[q],
                      ~TakeOut(q, t)
               PROVE  Selected(q, only, exclude) /\ t <= Cutoff
    BY DEF CountInv
  <2>1. Purge
    <3>1. ASSUME NEW r \in Queue, Fail(r) PROVE FALSE
      BY <3>1 DEF Fail, TypeOK
    <3>2. ASSUME NEW r \in Queue, NEW u \in errors[r], TakeOut(r, u) PROVE FALSE
      <4>1. q = r /\ t = u
        BY <3>2 DEF TakeOut, TypeOK
      <4> QED BY <3>2, <4>1
    <3>3. CASE Call \/ NextQueue \/ Fetch \/ NextPage \/ LastQueue \/ Again
      BY <3>3 DEF Call, NextQueue, Fetch, NextPage, LastQueue, Again
    <3> QED BY <3>1, <3>2, <3>3 DEF Next, Purging
  <2>2. PICK m : m = Min(page)
    OBVIOUS
  <2>3. pc = "purge" /\ m \in page /\ errors' = [errors EXCEPT ![queue] = @ \ {m}]
    BY <2>1, <2>2, PurgeStep
  <2>4. q = queue /\ t = m
    BY <2>3 DEF TypeOK
  <2> QED BY <2>3, <2>4 DEF PageChosen
<1> QED BY <1>1, CountInit, CountNext, ChosenNext, PTL DEF Spec, OnlySelectedPurged

-----------------------------------------------------------------------------
(* All is purged.                                                           *)

\* A first page that does not hold the whole set is full.
LEMMA FirstPage ==
  ASSUME NEW S, S \subseteq 1..N, NEW n \in Nat, PageOf(S, 0, n) # S
  PROVE  Cardinality(PageOf(S, 0, n)) >= n
<1> DEFINE P == PageOf(S, 0, n)
<1>1. N \in Nat
  BY PurgeConstantsOK
<1>2. IsFiniteSet(S)
  <2>1. IsFiniteSet(1..N)
    BY <1>1, FS_Interval
  <2> QED BY <2>1, FS_Subset
<1>3. P \subseteq S /\ IsFiniteSet(P) /\ Cardinality(P) \in Nat
  <2>1. P \subseteq S
    BY DEF PageOf
  <2>2. IsFiniteSet(P)
    BY <1>2, <2>1, FS_Subset
  <2> QED BY <2>1, <2>2, FS_CardinalityType
\* The latest task that is not on the page has n later ones, all on the page.
<1>4. S \ P # {} /\ S \ P \subseteq 0..N
  <2>1. P # S
    OBVIOUS
  <2>2. S \ P # {}
    BY <1>3, <2>1
  <2>3. \A x \in S : x \in 0..N
    BY <1>1
  <2> QED BY <2>2, <2>3
<1>5. PICK t \in S \ P : \A u \in S \ P : u <= t
  BY <1>1, <1>4, Greatest
<1> DEFINE L == {u \in S : u > t}
<1>6. L \subseteq P
  <2> SUFFICES ASSUME NEW u \in L, u \notin P PROVE FALSE
    OBVIOUS
  <2>1. u \in S \ P /\ u > t /\ u \in 1..N /\ t \in 1..N
    BY <1>5
  <2> QED BY <1>5, <2>1
<1>7. Cardinality(L) \in Nat /\ Cardinality(L) <= Cardinality(P)
  <2>1. IsFiniteSet(L) /\ Cardinality(L) <= Cardinality(P)
    BY <1>3, <1>6, FS_Subset
  <2> QED BY <2>1, FS_CardinalityType
<1>8. Cardinality(L) \notin 0 .. 0 + n - 1
  BY <1>5 DEF PageOf
<1> QED BY <1>3, <1>7, <1>8

\* Others take away, or add later failures.
LEMMA ProgressOthers ==
  ASSUME WithinPage, CountInv, Progress,
         \E q \in Queue : Fail(q) \/ \E t \in errors[q] : TakeOut(q, t)
  PROVE  Progress'
<1>1. /\ UNCHANGED <<filters, pc, todo, queue, skip, page, count>>
      /\ last \in Nat /\ last' \in Nat /\ last <= last'
      /\ old' \subseteq old /\ queue \in Queue
  BY PurgeConstantsOK DEF Fail, TakeOut, CountInv, TypeOK
<1>2. \A e \in old, r \in Queue : e[2] \in errors'[r] => e[2] \in errors[r]
  <2>1. ASSUME NEW q \in Queue, Fail(q)
        PROVE  \A e \in old, r \in Queue : e[2] \in errors'[r] => e[2] \in errors[r]
    <3>1. \A r \in Queue : errors'[r] = IF r = q THEN errors[r] \cup {last + 1} ELSE errors[r]
      BY <2>1, CountFail
    <3>2. \A e \in old : e[2] # last + 1
      <4> SUFFICES ASSUME NEW e \in old PROVE e[2] # last + 1
        OBVIOUS
      <4>1. e[2] \in 1..N /\ N \in Nat
        BY PurgeConstantsOK DEF CountInv, TypeOK
      <4>2. e[2] <= last
        BY DEF Progress
      <4> QED BY <1>1, <4>1, <4>2
    <3> QED BY <3>1, <3>2
  <2>2. ASSUME NEW q \in Queue, NEW t \in errors[q], TakeOut(q, t)
        PROVE  \A r \in Queue : errors'[r] \subseteq errors[r]
    BY <2>2, TakenOutOnce DEF TakeOut, CountInv
  <2> QED BY <2>1, <2>2
<1>3. \A r \in Queue : Gone(r) => Gone(r)'
  BY <1>1, <1>2 DEF Gone
<1>4. Covers => Covers'
  BY <1>1, <1>2 DEF Covers
<1>5. Full => Full'
  BY <1>1 DEF Full
<1>6. \A e \in old' : e[1] \in Queue /\ e[2] <= last' /\ Selected(e[1], only', exclude')
  <2> SUFFICES ASSUME NEW e \in old' PROVE e[1] \in Queue /\ e[2] <= last' /\ Selected(e[1], only, exclude)
    BY <1>1 DEF filters
  <2>1. e \in old /\ e[2] \in 1..N /\ N \in Nat
    BY <1>1, PurgeConstantsOK DEF CountInv, TypeOK
  <2>2. e[1] \in Queue /\ e[2] <= last /\ Selected(e[1], only, exclude)
    BY <2>1 DEF Progress
  <2> QED BY <1>1, <2>1, <2>2
<1>7. pc' = "next" => \A q \in Queue \ todo' : Gone(q)'
  BY <1>1, <1>3 DEF Progress
<1>8. pc' \in {"fetch", "purge"} => \A q \in Queue \ (todo' \cup {queue'}) : Gone(q)'
  BY <1>1, <1>3 DEF Progress
<1>9. pc' = "fetch" => skip' = 0 \/ Gone(queue)'
  BY <1>1, <1>2 DEF Progress, Gone
<1>10. pc' = "done" => count' = Limit \/ \A q \in Queue : Gone(q)'
  BY <1>1, <1>3 DEF Progress
<1>11. pc' = "purge" => Covers' \/ Full'
  BY <1>1, <1>4, <1>5 DEF Progress
<1> QED BY <1>6, <1>7, <1>8, <1>9, <1>10, <1>11 DEF Progress, Selected

\* A task of the page is deleted; a full page stays good for the limit.
LEMMA ProgressPurge ==
  ASSUME WithinPage, CountInv, Progress, Purge
  PROVE  Progress'
<1>1. TypeOK /\ Failures /\ BelowLimit
  BY DEF CountInv
<1>2. /\ pc = "purge" /\ UNCHANGED <<filters, last, todo, queue, skip, total, old>>
      /\ queue \in Queue /\ page \subseteq Nat /\ count \in Nat /\ Limit \in Nat /\ Limit # 0
      /\ count < Limit
  BY <1>1, PurgeStep, PurgeConstantsOK DEF TypeOK, BelowLimit, WithinPage
<1>3. \A e \in old' : e[1] \in Queue /\ e[2] <= last' /\ Selected(e[1], only, exclude)'
  BY <1>2 DEF Progress, filters, Selected
<1>4. PICK t : t = Min(page)
  OBVIOUS
<1>5. t \in page
  BY <1>1, <1>4, PurgeStep
<1>6. CASE pc' = "raised"
  BY <1>3, <1>6 DEF Progress
<1>7. CASE /\ t \in errors[queue] /\ errors' = [errors EXCEPT ![queue] = @ \ {t}]
           /\ page' = page \ {t} /\ count' = count + 1
           /\ pc' = IF Limit # 0 /\ count + 1 >= Limit THEN "done" ELSE "purge"
  <2>1. /\ errors'[queue] = errors[queue] \ {t}
        /\ \A r \in Queue : errors'[r] \subseteq errors[r]
    BY <1>1, <1>2, <1>7, TakenOutOnce
  <2>2. \A r \in Queue : Gone(r) => Gone(r)'
    BY <1>2, <2>1 DEF Gone
  <2>3. CASE count + 1 >= Limit
    <3>1. pc' = "done" /\ count' = Limit
      BY <1>2, <1>7, <2>3
    <3> QED BY <1>3, <3>1 DEF Progress
  <2>4. CASE count + 1 < Limit
    <3>1. pc' = "purge"
      BY <1>2, <1>7, <2>4
    <3>2. Covers => Covers'
      BY <1>2, <1>7, <2>1 DEF Covers
    <3>3. Full => Full'
      <4>1. IsFiniteSet(page)
        <5>1. IsFiniteSet(1..N) /\ page \subseteq 1..N
          BY <1>1, PurgeConstantsOK, FS_Interval DEF TypeOK
        <5> QED BY <5>1, FS_Subset
      <4>2. Cardinality(page) \in Nat /\ Cardinality(page \ {t}) = Cardinality(page) - 1
        BY <1>5, <4>1, FS_RemoveElement, FS_CardinalityType
      <4>3. Cardinality(page') = Cardinality(page) - 1
        BY <1>7, <4>2
      <4> QED BY <1>2, <1>7, <4>2, <4>3 DEF Full
    <3>4. \A q \in Queue \ (todo' \cup {queue'}) : Gone(q)'
      BY <1>2, <2>2 DEF Progress
    <3> QED BY <1>2, <1>3, <3>1, <3>2, <3>3, <3>4 DEF Progress
  <2> QED BY <1>2, <2>3, <2>4
<1> QED BY <1>1, <1>4, <1>6, <1>7, PurgeStep

\* The other steps of a call.
LEMMA ProgressCall ==
  ASSUME WithinPage, CountInv, PageChosen, Progress,
         Call \/ NextQueue \/ Fetch \/ NextPage \/ LastQueue \/ Again
  PROVE  Progress'
<1>1. TypeOK /\ Failures /\ BelowLimit /\ UNCHANGED <<filters, errors, last>>
  BY DEF CountInv, Call, NextQueue, Fetch, NextPage, LastQueue, Again
<1>2. /\ N \in Nat /\ Limit \in Nat /\ Limit # 0 /\ Limit <= PageSize /\ PageSize \in Nat
      /\ Cutoff = N /\ count \in Nat /\ queue \in Queue /\ skip \in Nat
  BY <1>1, PurgeConstantsOK DEF TypeOK, WithinPage
\* Nothing left of a queue stays so.
<1>3. UNCHANGED old => \A q \in Queue : Gone(q)' <=> Gone(q)
  BY <1>1 DEF Gone
<1>4. UNCHANGED old => \A e \in old' : e[1] \in Queue /\ e[2] <= last' /\ Selected(e[1], only, exclude)'
  BY <1>1 DEF Progress, filters, Selected
<1>5. CASE Call
  <2>1. /\ pc' = "next" /\ todo' = {q \in Queue : errors[q] # {}}
        /\ old' = {e \in Queue \X (1..Cutoff) :
                     Selected(e[1], only, exclude) /\ e[2] \in errors[e[1]]}
    BY <1>5 DEF Call
  <2>2. \A q \in Queue \ todo' : Gone(q)'
    BY <1>1, <2>1 DEF Gone
  <2>3. \A e \in old' : e[1] \in Queue /\ e[2] <= last' /\ Selected(e[1], only, exclude)'
    <3> SUFFICES ASSUME NEW e \in old'
                 PROVE  e[1] \in Queue /\ e[2] <= last /\ Selected(e[1], only, exclude)
      BY <1>1 DEF filters, Selected
    <3>1. e[1] \in Queue /\ e[2] \in errors[e[1]] /\ Selected(e[1], only, exclude)
      BY <2>1
    <3>2. e[2] \in 1..last
      BY <1>1, <3>1 DEF Failures
    <3> QED BY <1>1, <3>1, <3>2 DEF TypeOK
  <2> QED BY <2>1, <2>2, <2>3 DEF Progress
<1>6. CASE NextQueue
  <2>1. UNCHANGED old /\ pc = "next" /\ todo \subseteq Queue
    BY <1>1, <1>6 DEF NextQueue, TypeOK
  <2>2. PICK q \in todo :
          /\ todo' = todo \ {q}
          /\ IF QueueMatches(q, only, exclude)
             THEN queue' = q /\ pc' = "fetch" /\ skip' = 0
             ELSE UNCHANGED <<queue, pc, skip>>
    BY <1>6 DEF NextQueue
  <2>3. \A r \in Queue \ todo : Gone(r)'
    BY <1>3, <2>1 DEF Progress
  <2>4. CASE QueueMatches(q, only, exclude)
    <3>1. \A r \in Queue \ (todo' \cup {queue'}) : Gone(r)'
      BY <2>2, <2>3, <2>4
    <3> QED BY <1>4, <2>1, <2>2, <2>4, <3>1 DEF Progress
  <2>5. CASE ~QueueMatches(q, only, exclude)
    <3>1. ~Selected(q, only, exclude)
      BY <2>1, <2>5, Filtered
    <3>2. Gone(q)
      BY <3>1 DEF Gone, Progress
    <3>3. \A r \in Queue \ todo' : Gone(r)'
      BY <1>3, <2>1, <2>2, <2>3, <3>2
    <3> QED BY <1>4, <2>1, <2>2, <2>5, <3>3 DEF Progress
  <2> QED BY <2>4, <2>5
<1>7. CASE Fetch
  <2>1. /\ pc = "fetch" /\ pc' = "purge" /\ UNCHANGED <<todo, queue, skip, count, old>>
        /\ page' = {t \in PageOf(errors[queue], skip, PageSize) : t <= Cutoff}
    BY <1>7 DEF Fetch
  <2>2. \A q \in Queue \ (todo' \cup {queue'}) : Gone(q)'
    BY <1>3, <2>1 DEF Progress
  <2>3. Covers' \/ Full'
    <3>1. CASE Gone(queue)
      BY <1>1, <2>1, <3>1 DEF Covers, Gone
    <3>2. CASE skip = 0
      <4>1. page' = PageOf(errors[queue], 0, PageSize)
        <5>1. errors[queue] \subseteq 1..N
          BY <1>1, <1>2 DEF TypeOK
        <5>2. \A t \in PageOf(errors[queue], 0, PageSize) : t <= Cutoff
          BY <1>2, <5>1 DEF PageOf
        <5> QED BY <2>1, <3>2, <5>2
      <4>2. CASE PageOf(errors[queue], 0, PageSize) = errors[queue]
        BY <1>1, <2>1, <4>1, <4>2 DEF Covers
      <4>3. CASE PageOf(errors[queue], 0, PageSize) # errors[queue]
        <5>1. errors[queue] \subseteq 1..N
          BY <1>1, <1>2 DEF TypeOK
        <5>2. Cardinality(page') >= PageSize
          BY <1>2, <4>1, <4>3, <5>1, FirstPage
        <5>3. Cardinality(page') \in Nat
          <6>1. page' \subseteq 1..N
            BY <4>1, <5>1 DEF PageOf
          <6>2. IsFiniteSet(1..N)
            BY <1>2, FS_Interval
          <6>3. IsFiniteSet(page')
            BY <6>1, <6>2, FS_Subset
          <6> QED BY <6>3, FS_CardinalityType
        <5>4. count' + Cardinality(page') >= Limit
          BY <1>2, <2>1, <5>2, <5>3
        <5> QED BY <5>4 DEF Full
      <4> QED BY <4>2, <4>3
    <3> QED BY <2>1, <3>1, <3>2 DEF Progress
  <2> QED BY <1>4, <2>1, <2>2, <2>3 DEF Progress
<1>8. CASE NextPage
  <2>1. /\ pc = "purge" /\ page = {} /\ UNCHANGED <<todo, queue, count, old>>
        /\ pc' \in {"fetch", "next"}
    BY <1>8 DEF NextPage
  <2>2. Gone(queue)
    <3>1. Cardinality(page) = 0
      BY <2>1, FS_EmptySet
    <3>2. count < Limit
      BY <1>1, <1>2, <2>1 DEF BelowLimit
    <3>3. ~Full
      BY <1>2, <3>1, <3>2 DEF Full
    <3>4. Covers
      BY <2>1, <3>3 DEF Progress
    <3> QED BY <2>1, <3>4 DEF Covers, Gone
  <2>3. \A q \in Queue \ todo : Gone(q)
    BY <2>1, <2>2 DEF Progress
  <2>4. (\A q \in Queue \ todo' : Gone(q)') /\ Gone(queue)'
    <3>1. Gone(queue)'
      BY <1>1, <2>1, <2>2 DEF Gone
    <3> QED BY <1>3, <2>1, <2>3, <3>1
  <2> QED BY <1>4, <2>1, <2>4 DEF Progress
<1>9. CASE LastQueue
  <2>1. pc = "next" /\ todo = {} /\ pc' = "done" /\ UNCHANGED old
    BY <1>9 DEF LastQueue
  <2>2. \A q \in Queue : Gone(q)'
    BY <1>3, <2>1 DEF Progress
  <2> QED BY <1>4, <2>1, <2>2 DEF Progress
<1>10. CASE Again
  <2>1. pc' = "idle" /\ old' = {}
    BY <1>10 DEF Again
  <2> QED BY <2>1 DEF Progress
<1> QED BY <1>5, <1>6, <1>7, <1>8, <1>9, <1>10

(* The caller who repeats the call as the docstring shows, with a limit     *)
(* that a page holds and no date, leaves nothing: when a call returns less  *)
(* than its limit, all that had failed in a selected queue when it began is *)
(* gone, although every deletion moves the pages, and more tasks fail or    *)
(* are retried meanwhile.  A page that does not hold the whole error set    *)
(* has enough for the limit, so that the next page is never needed.         *)
THEOREM NothingLeft ==
  ASSUME WithinPage
  PROVE  Spec => []AllPurged
<1>1. CountInv /\ PageChosen /\ Progress /\ [Next]_vars => Progress'
  <2> SUFFICES ASSUME CountInv, PageChosen, Progress, [Next]_vars PROVE Progress'
    OBVIOUS
  <2>1. CASE UNCHANGED vars
    BY <2>1 DEF vars, filters, Progress, Gone, Covers, Full, Selected
  <2>2. CASE Next
    BY <2>2, ProgressOthers, ProgressPurge, ProgressCall DEF Next, Purging
  <2> QED BY <2>1, <2>2
<1>2. Progress => AllPurged
  <2> SUFFICES ASSUME Progress, pc = "done", count # Limit, NEW e \in old
               PROVE  e[2] \notin errors[e[1]]
    BY DEF AllPurged, Finished, WithinPage
  <2> QED BY DEF Progress, Gone
<1> QED BY <1>1, <1>2, CountInit, CountNext, ChosenNext, PTL DEF Spec
=============================================================================
