----------------------------- MODULE MCSchedules -----------------------------
(* The schedules with which TLC checks Timer. *)
EXTENDS Timer

MCSched ==
    {[kind |-> "periodic", interval |-> i, start |-> a, end |-> e, ticks |-> {}] :
        i \in 0 .. 3, a \in {Nil, 1, 4}, e \in {Nil, 6, 7}}
    \cup
    {[kind |-> "cron", interval |-> 0, start |-> a, end |-> e, ticks |-> T] :
        a \in {Nil, 4}, e \in {Nil, 6, 7}, T \in {{1, 2, 4, 7, 8, 10}, {3, 5, 6, 9}, {6, 7}}}
    \cup
    {[kind |-> "oneoff", interval |-> 0, start |-> Nil, end |-> Nil, ticks |-> {}]}

MCPlans == {[sched |-> s, noCatchup |-> b] : s \in MCSched, b \in BOOLEAN}
=============================================================================
