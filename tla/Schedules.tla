------------------------------ MODULE Schedules ------------------------------
(****************************************************************************)
(* The arithmetic of schedule.py: the time of the next execution of a task  *)
(* with schedule=periodic(...).  Times are whole seconds: what is left of a *)
(* second is dropped when the runs so far are counted, so that the result   *)
(* is later than the time it is computed at all the same.                   *)
(****************************************************************************)
EXTENDS Integers

CONSTANT None  \* no date

ASSUME NoneIsNoDate == None \notin Int

\* The next multiple of the period after dt, counted from start.
NextRun(dt, period, start) == start + ((dt - start) \div period + 1) * period

\* _periodic
PeriodicDate(dt, period, start, end) ==
  IF end # None /\ dt >= end THEN None
  ELSE IF dt < start THEN start
  ELSE IF end # None /\ NextRun(dt, period, start) > end THEN None
  ELSE NextRun(dt, period, start)
=============================================================================
