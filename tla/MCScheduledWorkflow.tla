------------------------ MODULE MCScheduledWorkflow ------------------------
(* The recurring runs with which TLC checks ScheduledWorkflow.              *)
EXTENDS ScheduledWorkflow

(* Every second; the end falls on a due time.                               *)
EverySecond ==
    [kind |-> "periodic", interval |-> 1, start |-> Nil, end |-> 3, ticks |-> {}]

(* A cron expression that matches at times 2 and 3.                         *)
CronTwice ==
    [kind |-> "cron", interval |-> 0, start |-> Nil, end |-> Nil, ticks |-> {2, 3}]

Once ==
    [kind |-> "oneoff", interval |-> 0, start |-> Nil, end |-> Nil, ticks |-> {}]

Recurring(s, noCatchup, pinned) == [sched |-> s, noCatchup |-> noCatchup, pinned |-> pinned]

AllSpecs == {Recurring(CronTwice, FALSE, FALSE), Recurring(Once, FALSE, TRUE),
             Recurring(EverySecond, TRUE, FALSE)}
ServedSpecs == {Recurring(EverySecond, FALSE, FALSE)}
=============================================================================
