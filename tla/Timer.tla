-------------------------------- MODULE Timer --------------------------------
(***************************************************************************)
(* A schedule on its own: time passes, and a controller that may be late   *)
(* triggers whenever the next scheduled time has come.                     *)
(***************************************************************************)
EXTENDS Schedules, Sequences

CONSTANTS
    Plans,      \* schedules, each with noCatchup
    CreatedAt,  \* the creation time of the ScheduledWorkflow
    Horizon     \* bound: the clock stops here

(* A resource without a cron or periodic schedule has no start or end time. *)
ASSUME TimerAssumption ==
    /\ Plans \subseteq [sched : Schedule, noCatchup : BOOLEAN]
    /\ \A p \in Plans : p.sched.kind = "oneoff" => p.sched.end = Nil
    /\ Horizon \in Nat /\ Horizon < Never /\ CreatedAt \in 1 .. Horizon

VARIABLES plan, clock, fired

timerVars == <<plan, clock, fired>>

TimerInit == /\ plan \in Plans
             /\ clock = CreatedAt
             /\ fired = <<>>

(* Status.Trigger.LastTriggeredTime *)
LastFired == IF fired = <<>> THEN Nil ELSE fired[Len(fired)]

NextEpoch == NextScheduledEpoch(plan.sched, plan.noCatchup, LastFired, CreatedAt, clock)

TimePasses == /\ clock < Horizon
              /\ clock' = clock + 1
              /\ UNCHANGED <<plan, fired>>

(* The next time has come. A schedule that is disabled, or has reached its  *)
(* limit of concurrent workflows, is one whose controller is late.          *)
Trigger == /\ NextEpoch <= clock
           /\ fired' = Append(fired, NextEpoch)
           /\ UNCHANGED <<plan, clock>>

TimerNext == TimePasses \/ Trigger

TimerSpec == TimerInit /\ [][TimerNext]_timerVars
-----------------------------------------------------------------------------
Due == DueTimes(plan.sched, CreatedAt, Horizon)

(* With catch-up the workflows run at exactly the due times, one after the  *)
(* other, and when nothing is left to trigger none is missing               *)
(* (GetNextScheduledEpoch, GetNextScheduledTime).                           *)
CatchupMissesNothing ==
    ~plan.noCatchup =>
       /\ \A i \in DOMAIN fired : fired[i] = DueTime(plan.sched, CreatedAt, Horizon, i)
       /\ NextEpoch > clock => Len(fired) = Cardinality({t \in Due : t <= clock})

(* Without catch-up a late controller triggers once for all it missed: each *)
(* trigger is later than the one before, none lies outside the schedule's   *)
(* window, and a controller with nothing to do is not behind: no due time   *)
(* of a cron schedule, and no full period of a periodic one, has passed     *)
(* since the last trigger.                                                  *)
NoCatchupIsCurrent ==
    plan.noCatchup =>
       /\ \A i \in DOMAIN fired : ~After(plan.sched, fired[i]) /\ fired[i] <= clock
       /\ \A i \in 2 .. Len(fired) : fired[i - 1] < fired[i]
       /\ plan.sched.kind = "cron" /\ NextEpoch > clock =>
             \A t \in Due : t <= clock => t <= LastFired
       /\ plan.sched.kind = "periodic" /\ NextEpoch > clock =>
             LET from == EffectiveLast(plan.sched, LastFired, CreatedAt)
             IN \/ clock - from < IntervalOf(plan.sched)
                \/ After(plan.sched, from + IntervalOf(plan.sched))
=============================================================================
