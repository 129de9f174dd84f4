------------------------------ MODULE Schedules ------------------------------
(***************************************************************************)
(* When a ScheduledWorkflow triggers: the periodic and the cron schedules  *)
(* of the controller, with and without catch-up.                           *)
(*                                                                         *)
(* Times are natural numbers of seconds; Nil stands for an absent optional *)
(* time, so every time that is present is at least 1.  Never is beyond     *)
(* every time (math.MaxInt64, maxTime).                                    *)
(***************************************************************************)
EXTENDS Integers, FiniteSets, FiniteSetsExt

CONSTANT Never

ASSUME NeverAssumption == Never \in Nat \ {0}

Nil == 0

(* The kinds of trigger: neither schedule given means one run, at once.     *)
(* A cron expression is the set of times it matches.                        *)
Schedule == [kind : {"periodic", "cron", "oneoff"}, interval : Nat, start : Nat,
             end : Nat, ticks : SUBSET (1 .. Never - 1)]

(* The last trigger, else the start time, else the creation of the resource.*)
EffectiveLast(s, last, created) ==
    IF last # Nil THEN last ELSE IF s.start # Nil THEN s.start ELSE created

After(s, t) == s.end # Nil /\ t > s.end
-----------------------------------------------------------------------------
IntervalOf(s) == IF s.interval = 0 THEN 1 ELSE s.interval

(* Mutant of PeriodicNext: the end time itself is taken to be too late.     *)
PeriodicNextEndsEarly(s, last, created) ==
    LET from == EffectiveLast(s, last, created)
        result == from + IntervalOf(s)
    IN IF s.end # Nil /\ s.end <= result THEN Never ELSE result

PeriodicNext(s, last, created) ==
    LET from == EffectiveLast(s, last, created)
        result == from + IntervalOf(s)
    IN IF s.start > from THEN s.start
       ELSE IF After(s, result) THEN Never ELSE result

(* Mutant of PeriodicNextNoCatchup: the comparison is a period off.         *)
PeriodicNextNoCatchupEarly(s, last, created, now) ==
    LET next == PeriodicNext(s, last, created)
    IN IF next # Never /\ now >= next - IntervalOf(s)
         THEN IF After(s, now) THEN s.end ELSE now
         ELSE next

(* A schedule that is behind by a period or more triggers now, or at its    *)
(* end if that is over.                                                     *)
PeriodicNextNoCatchup(s, last, created, now) ==
    LET next == PeriodicNext(s, last, created)
    IN IF next # Never /\ now >= next + IntervalOf(s)
         THEN IF After(s, now) THEN s.end ELSE now
         ELSE next
-----------------------------------------------------------------------------
(* cron.Schedule.Next (external): the first matching time after t.          *)
CronTick(s, t) ==
    LET later == {x \in s.ticks : x > t}
    IN IF later = {} THEN Never ELSE Min(later)

CronNext(s, last, created) ==
    LET from == Max({EffectiveLast(s, last, created), s.start})
        result == CronTick(s, from)
    IN IF After(s, result) THEN Never ELSE result

(* Mutant of CronCatchUp: the loop goes past the present.                   *)
CronCatchUpPastNow(s, t, now) ==
    LET last[x \in 1 .. Never] ==
           IF CronTick(s, x) # Never /\ ~After(s, CronTick(s, x))
             THEN last[CronTick(s, x)] ELSE x
    IN last[t]

(* The loop that skips to the latest matching time not after now.           *)
CronCatchUp(s, t, now) ==
    LET last[x \in 1 .. Never] ==
           IF CronTick(s, x) <= now /\ ~After(s, CronTick(s, x))
             THEN last[CronTick(s, x)] ELSE x
    IN last[t]

CronNextNoCatchup(s, last, created, now) ==
    LET next == CronNext(s, last, created)
    IN IF next = Never THEN Never ELSE CronCatchUp(s, next, now)
-----------------------------------------------------------------------------
(* Mutant of OneOffNext: that the run has been triggered is forgotten.      *)
OneOffNextAlways(last, created) == created

OneOffNext(last, created) == IF last # Nil THEN Never ELSE created

(* ScheduledWorkflow.getNextScheduledEpoch                                  *)
NextScheduledEpoch(s, noCatchup, last, created, now) ==
    CASE s.kind = "periodic" /\ ~noCatchup -> PeriodicNext(s, last, created)
      [] s.kind = "periodic" /\ noCatchup -> PeriodicNextNoCatchup(s, last, created, now)
      [] s.kind = "cron" /\ ~noCatchup -> CronNext(s, last, created)
      [] s.kind = "cron" /\ noCatchup -> CronNextNoCatchup(s, last, created, now)
      [] OTHER -> OneOffNext(last, created)
-----------------------------------------------------------------------------
(***************************************************************************)
(* What a schedule promises, independently of how the controller computes  *)
(* it: the times up to horizon at which a workflow is due.                 *)
(***************************************************************************)
DueTimes(s, created, horizon) ==
    LET base == IF s.start # Nil THEN s.start ELSE created
        bounded == {t \in 1 .. horizon : ~After(s, t)}
    IN CASE s.kind = "periodic" ->
              {t \in bounded : t > base /\ (t - base) % IntervalOf(s) = 0}
         [] s.kind = "cron" -> {t \in bounded : t > base /\ t \in s.ticks}
         [] OTHER -> {created}

(* The i-th due time, Nil for i = 0, Never when there are not that many.    *)
DueTime(s, created, horizon, i) ==
    LET due == DueTimes(s, created, horizon)
    IN IF i = 0 THEN Nil
       ELSE IF i > Cardinality(due) THEN Never
       ELSE CHOOSE t \in due : Cardinality({x \in due : x <= t}) = i
=============================================================================
