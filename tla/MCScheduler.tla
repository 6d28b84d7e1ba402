----------------------------- MODULE MCScheduler -----------------------------
(* Instances of Scheduler for TLC.                                         *)
EXTENDS Scheduler

CONSTANTS r1, r2, c1, c2

Every(n) == [type |-> "interval", n |-> n]
Cron(n)  == [type |-> "cron", n |-> n]

\* Schedules that pass their own due times at different rates.
Daily      == {Every(1), Cron(2)}

NoDues   == {}
PastDue  == {0}

PausesAndSchedules ==
  {[active |-> FALSE], [active |-> TRUE], [schedule |-> Cron(2)]}
NoEdits == {}

=============================================================================
