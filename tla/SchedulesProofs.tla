--------------------------- MODULE SchedulesProofs ---------------------------
(***************************************************************************)
(* What the schedules compute, for every schedule and every time: the next *)
(* scheduled time is later than the last one, and with catch-up it is the  *)
(* due time that follows it.                                               *)
(***************************************************************************)
EXTENDS Timer, FiniteSetTheorems, SequenceTheorems, WellFoundedInduction, TLAPS

(* The order of the natural numbers, as a relation.                         *)
Below == {p \in Nat \X Nat : p[1] < p[2]}

(* Every set of times has a first one: the induction behind all that       *)
(* follows, as a fact about sets.                                           *)
LEMMA LeastNat ==
  ASSUME NEW T, T \subseteq Nat, T # {}
  PROVE  \E x \in T : \A y \in T : x <= y
<1>1. OpToRel(<, Nat) = Below
  BY DEF OpToRel, Below
<1>2. IsWellFoundedOn(Below, Nat)
  BY <1>1, NatLessThanWellFounded
<1>3. PICK x \in T : \A y \in T : ~(<<y, x>> \in Below)
  BY <1>2, WFMin
<1>4. ASSUME NEW y \in T PROVE x <= y
  <2>1. x \in Nat /\ y \in Nat /\ <<y, x>> \in Nat \X Nat
    OBVIOUS
  <2>2. ~(<<y, x>>[1] < <<y, x>>[2])
    BY <1>3, <2>1 DEF Below
  <2> QED
    BY <2>1, <2>2
<1> QED
  BY <1>4

LEMMA MinIsLeast ==
  ASSUME NEW T, T \subseteq Nat, T # {}
  PROVE  Min(T) \in T /\ \A y \in T : Min(T) <= y
<1>1. PICK x \in T : \A y \in T : x <= y
  BY LeastNat
<1>2. \E z \in T : \A y \in T : z =< y
  BY <1>1
<1> QED
  BY <1>2 DEF Min

LEMMA MaxOfTwo ==
  ASSUME NEW a \in Int, NEW b \in Int
  PROVE  Max({a, b}) = IF a >= b THEN a ELSE b
<1> DEFINE m == IF a >= b THEN a ELSE b
<1>1. m \in {a, b} /\ (\A y \in {a, b} : m >= y)
  OBVIOUS
<1>2. \A z \in {a, b} : (\A y \in {a, b} : z >= y) => z = m
  OBVIOUS
<1> QED
  BY <1>1, <1>2 DEF Max

-----------------------------------------------------------------------------
(* cron *)

(* The first match after t: a match, later than t, with none in between.    *)
LEMMA CronTickIsNext ==
  ASSUME NEW s \in Schedule, NEW t \in Nat
  PROVE  /\ CronTick(s, t) \in 1 .. Never
         /\ CronTick(s, t) # Never => CronTick(s, t) \in s.ticks /\ CronTick(s, t) > t
         /\ \A x \in s.ticks : x > t => CronTick(s, t) <= x
<1> DEFINE later == {x \in s.ticks : x > t}
<1>1. s.ticks \subseteq 1 .. Never - 1 /\ Never \in Nat \ {0}
  BY NeverAssumption DEF Schedule
<1>2. CASE later = {}
  BY <1>1, <1>2 DEF CronTick
<1>3. CASE later # {}
  <2>1. later \subseteq Nat
    BY <1>1
  <2>2. Min(later) \in later /\ \A y \in later : Min(later) <= y
    BY <1>3, <2>1, MinIsLeast
  <2>3. CronTick(s, t) = Min(later)
    BY <1>3 DEF CronTick
  <2> QED
    BY <1>1, <2>2, <2>3
<1> QED
  BY <1>2, <1>3
(* One more match before the present and the end: the loop goes on from x.  *)
Skips(s, now, x) == CronTick(s, x) <= now /\ ~After(s, CronTick(s, x))

(* f is the loop of CronCatchUp, for the times from lo on.                  *)
IsLoop(s, now, lo, f) ==
  f = [x \in lo .. Never |-> IF Skips(s, now, x) THEN f[CronTick(s, x)] ELSE x]

LEMMA SkipsForward ==
  ASSUME NEW s \in Schedule, NEW now \in Nat, now < Never, NEW x \in Nat, Skips(s, now, x)
  PROVE  CronTick(s, x) \in x + 1 .. now /\ CronTick(s, x) \in s.ticks
BY CronTickIsNext, NeverAssumption DEF Skips

(* The loop is defined one time earlier: from lo + 1 on gives from lo on.   *)
LEMMA LoopExtends ==
  ASSUME NEW s \in Schedule, NEW now \in Nat, now < Never, NEW lo \in 1 .. Never - 1,
         NEW g, IsLoop(s, now, lo + 1, g)
  PROVE  \E f : IsLoop(s, now, lo, f)
<1> DEFINE f == [x \in lo .. Never |->
                   IF x = lo THEN IF Skips(s, now, lo) THEN g[CronTick(s, lo)] ELSE lo ELSE g[x]]
<1>1. Never \in Nat /\ lo \in Nat /\ now + 1 <= Never
  BY NeverAssumption
<1>2. ASSUME NEW x \in lo .. Never
      PROVE  f[x] = IF Skips(s, now, x) THEN f[CronTick(s, x)] ELSE x
  <2>1. Skips(s, now, x) => CronTick(s, x) \in lo + 1 .. Never /\ f[CronTick(s, x)] = g[CronTick(s, x)]
    <3>1. x \in Nat
      BY <1>1
    <3> QED
      BY <1>1, <3>1, SkipsForward
  <2>2. CASE x = lo
    BY <1>1, <2>1, <2>2
  <2>3. CASE x # lo
    <3>1. x \in lo + 1 .. Never
      BY <1>1, <2>3
    <3>2. g[x] = IF Skips(s, now, x) THEN g[CronTick(s, x)] ELSE x
      BY <3>1 DEF IsLoop
    <3> QED
      BY <2>1, <2>3, <3>1, <3>2
  <2> QED
    BY <2>2, <2>3
<1>3. f = [x \in lo .. Never |-> IF Skips(s, now, x) THEN f[CronTick(s, x)] ELSE x]
  BY <1>2
<1>4. IsLoop(s, now, lo, f)
  BY <1>3 DEF IsLoop
<1> QED
  BY <1>4

(* So it is defined for every time.                                         *)
LEMMA LoopExists ==
  ASSUME NEW s \in Schedule, NEW now \in Nat, now < Never
  PROVE  \E f : IsLoop(s, now, 1, f)
<1>0. Never \in Nat \ {0}
  BY NeverAssumption
<1> DEFINE missing == {k \in 0 .. Never - 1 : ~\E f : IsLoop(s, now, Never - k, f)}
<1>1. missing = {}
  <2> SUFFICES ASSUME missing # {} PROVE FALSE
    OBVIOUS
  <2>1. PICK k \in missing : \A j \in missing : k <= j
    <3>1. missing \subseteq Nat
      BY <1>0
    <3> QED
      BY <3>1, LeastNat
  <2>2. k \in 0 .. Never - 1 /\ ~\E f : IsLoop(s, now, Never - k, f)
    OBVIOUS
  <2>3. CASE k = 0
    <3> DEFINE f == [x \in Never .. Never |-> x]
    <3>1. \A x \in Never .. Never : ~Skips(s, now, x)
      BY <1>0, SkipsForward
    <3>2. f = [x \in Never .. Never |-> IF Skips(s, now, x) THEN f[CronTick(s, x)] ELSE x]
      BY <3>1
    <3>3. IsLoop(s, now, Never - k, f)
      BY <1>0, <2>3, <3>2 DEF IsLoop
    <3> QED
      BY <2>2, <3>3
  <2>4. CASE k # 0
    <3>1. k - 1 \in 0 .. Never - 1 /\ ~(k <= k - 1)
      BY <1>0, <2>2, <2>4
    <3>2. k - 1 \notin missing
      BY <2>1, <3>1
    <3>3. PICK g : IsLoop(s, now, Never - (k - 1), g)
      BY <3>1, <3>2
    <3>4. Never - k \in 1 .. Never - 1 /\ Never - (k - 1) = (Never - k) + 1
      BY <1>0, <2>2, <2>4
    <3>5. IsLoop(s, now, (Never - k) + 1, g)
      BY <3>3, <3>4
    <3> QED
      BY <2>2, <3>4, <3>5, LoopExtends
  <2> QED
    BY <2>3, <2>4
<1>2. Never - 1 \in 0 .. Never - 1 /\ Never - (Never - 1) = 1
  BY <1>0
<1>3. \E f : IsLoop(s, now, Never - (Never - 1), f)
  BY <1>1, <1>2
<1> QED
  BY <1>2, <1>3

LEMMA CatchUpIsLoop ==
  ASSUME NEW s \in Schedule, NEW now \in Nat, now < Never
  PROVE  \E f : IsLoop(s, now, 1, f) /\ \A t : CronCatchUp(s, t, now) = f[t]
<1> DEFINE f == CHOOSE f : f = [x \in 1 .. Never |->
                   IF CronTick(s, x) <= now /\ ~After(s, CronTick(s, x))
                     THEN f[CronTick(s, x)] ELSE x]
<1>1. IsLoop(s, now, 1, f)
  BY LoopExists DEF IsLoop, Skips
<1>2. \A t : CronCatchUp(s, t, now) = f[t]
  BY DEF CronCatchUp
<1> QED
  BY <1>1, <1>2
(* The loop ends at the time it began with or at a later match that has     *)
(* come, and from there it goes no further.                                 *)
CaughtUp(s, now, x, y) ==
  /\ y \in x .. Never
  /\ y = x \/ (y <= now /\ ~After(s, y) /\ y \in s.ticks)
  /\ ~Skips(s, now, y)

LEMMA CatchUpEnds ==
  ASSUME NEW s \in Schedule, NEW now \in Nat, now < Never, NEW t \in 1 .. Never
  PROVE  CaughtUp(s, now, t, CronCatchUp(s, t, now))
<1>0. Never \in Nat \ {0}
  BY NeverAssumption
<1>1. PICK f : IsLoop(s, now, 1, f) /\ \A u : CronCatchUp(s, u, now) = f[u]
  BY CatchUpIsLoop
<1>2. \A x \in 1 .. Never : f[x] = IF Skips(s, now, x) THEN f[CronTick(s, x)] ELSE x
  BY <1>1 DEF IsLoop
<1> DEFINE wrong == {k \in 0 .. Never - 1 : ~CaughtUp(s, now, Never - k, f[Never - k])}
<1>3. wrong = {}
  <2> SUFFICES ASSUME wrong # {} PROVE FALSE
    OBVIOUS
  <2>1. PICK k \in wrong : \A j \in wrong : k <= j
    <3>1. wrong \subseteq Nat
      BY <1>0
    <3> QED
      BY <3>1, LeastNat
  <2> DEFINE x == Never - k
  <2>2. k \in 0 .. Never - 1 /\ x \in 1 .. Never /\ ~CaughtUp(s, now, x, f[x])
    BY <1>0
  <2>3. CASE ~Skips(s, now, x)
    <3>1. f[x] = x
      BY <1>2, <2>2, <2>3
    <3> QED
      BY <1>0, <2>2, <2>3, <3>1 DEF CaughtUp
  <2>4. CASE Skips(s, now, x)
    <3> DEFINE y == CronTick(s, x)
    <3>1. y \in x + 1 .. now /\ y \in s.ticks /\ ~After(s, y)
      <4>1. x \in Nat
        BY <1>0, <2>2
      <4> QED
        BY <2>4, <4>1, SkipsForward DEF Skips
    <3> HIDE DEF y
    <3>2. f[x] = f[y]
      BY <1>2, <2>2, <2>4 DEF y
    <3>3. Never - y \in 0 .. Never - 1 /\ Never - (Never - y) = y /\ ~(k <= Never - y)
      BY <1>0, <2>2, <3>1
    <3>4. CaughtUp(s, now, y, f[y])
      <4>1. Never - y \notin wrong
        BY <2>1, <3>3
      <4> QED
        BY <3>3, <4>1
    <3>5. CaughtUp(s, now, x, f[x])
      BY <1>0, <2>2, <3>1, <3>2, <3>4 DEF CaughtUp
    <3> QED
      BY <2>2, <3>5
  <2> QED
    BY <2>3, <2>4
<1>4. Never - t \in 0 .. Never - 1 /\ Never - (Never - t) = t
  BY <1>0
<1>5. CaughtUp(s, now, t, f[t])
  BY <1>3, <1>4
<1> QED
  BY <1>1, <1>5

-----------------------------------------------------------------------------
(* The next scheduled time *)

LEMMA EffectiveLastType ==
  ASSUME NEW s \in Schedule, NEW last \in Nat, NEW created \in Nat \ {0}
  PROVE  EffectiveLast(s, last, created) \in Nat \ {0} /\ s.start \in Nat /\ s.end \in Nat
BY DEF EffectiveLast, Schedule, Nil

LEMMA IntervalType == ASSUME NEW s \in Schedule PROVE IntervalOf(s) \in Nat \ {0}
BY DEF IntervalOf, Schedule

(* A trigger is not before the start time that a schedule may have.         *)
Started(s, last) == last = Nil \/ s.kind = "oneoff" \/ s.start <= last

LEMMA PeriodicNextIsLater ==
  ASSUME NEW s \in Schedule, NEW last \in Nat, NEW created \in Nat \ {0}, Started(s, last),
         s.kind = "periodic"
  PROVE  LET next == PeriodicNext(s, last, created) IN
           /\ next \in Nat \ {0}
           /\ next # Never => next > last /\ s.start <= next /\ ~After(s, next)
<1> DEFINE from == EffectiveLast(s, last, created)
<1>1. /\ from \in Nat \ {0} /\ s.start \in Nat /\ s.end \in Nat
      /\ IntervalOf(s) \in Nat \ {0} /\ Never \in Nat \ {0}
  BY EffectiveLastType, IntervalType, NeverAssumption
<1>2. s.start <= from /\ last <= from
  BY <1>1 DEF EffectiveLast, Started, Nil
<1> QED
  BY <1>1, <1>2 DEF PeriodicNext, After, Nil

LEMMA CronNextIsLater ==
  ASSUME NEW s \in Schedule, NEW last \in Nat, NEW created \in Nat \ {0}
  PROVE  LET next == CronNext(s, last, created) IN
           /\ next \in 1 .. Never
           /\ next # Never => next > last /\ s.start <= next /\ ~After(s, next) /\ next \in s.ticks
<1> DEFINE eff == EffectiveLast(s, last, created)
           from == Max({eff, s.start})
<1>1. eff \in Nat \ {0} /\ s.start \in Nat /\ last <= eff
  BY EffectiveLastType DEF EffectiveLast, Nil
<1>2. from \in Nat /\ eff <= from /\ s.start <= from
  <2>1. from = IF eff >= s.start THEN eff ELSE s.start
    BY <1>1, MaxOfTwo
  <2> QED
    BY <1>1, <2>1
<1> HIDE DEF from, eff
<1>3. /\ CronTick(s, from) \in 1 .. Never
      /\ CronTick(s, from) # Never => CronTick(s, from) \in s.ticks /\ CronTick(s, from) > from
  BY <1>2, CronTickIsNext
<1>4. CronNext(s, last, created) = IF After(s, CronTick(s, from)) THEN Never ELSE CronTick(s, from)
  BY DEF CronNext, from, eff
<1> QED
  BY <1>1, <1>2, <1>3, <1>4, NeverAssumption

(* Whatever the schedule, with or without catch-up, a trigger that has come *)
(* is later than the last one (getNextScheduledEpoch).                      *)
THEOREM NextIsLater ==
  ASSUME NEW s \in Schedule, NEW noCatchup \in BOOLEAN, NEW last \in Nat,
         NEW created \in Nat \ {0}, NEW now \in Nat, now < Never, Started(s, last)
  PROVE  LET next == NextScheduledEpoch(s, noCatchup, last, created, now) IN
           /\ next \in Nat \ {0}
           /\ next <= now => next > last /\ Started(s, next)
<1> DEFINE next == NextScheduledEpoch(s, noCatchup, last, created, now)
<1>0. Never \in Nat \ {0} /\ s.start \in Nat /\ s.end \in Nat /\ IntervalOf(s) \in Nat \ {0}
  BY NeverAssumption, IntervalType DEF Schedule
<1>1. CASE s.kind = "periodic"
  <2> DEFINE p == PeriodicNext(s, last, created)
  <2>1. /\ p \in Nat \ {0}
        /\ p # Never => p > last /\ s.start <= p /\ ~After(s, p)
    BY <1>1, PeriodicNextIsLater
  <2> HIDE DEF p
  <2>2. CASE ~noCatchup
    <3>1. next = p
      BY <1>1, <2>2 DEF NextScheduledEpoch, p
    <3> QED
      BY <1>0, <2>1, <3>1 DEF Started
  <2>3. CASE noCatchup
    <3>1. next = IF p # Never /\ now >= p + IntervalOf(s)
                   THEN IF After(s, now) THEN s.end ELSE now ELSE p
      BY <1>1, <2>3 DEF NextScheduledEpoch, PeriodicNextNoCatchup, p
    <3> QED
      BY <1>0, <2>1, <3>1 DEF Started, After, Nil
  <2> QED
    BY <2>2, <2>3
<1>2. CASE s.kind = "cron"
  <2> DEFINE p == CronNext(s, last, created)
  <2>1. p \in 1 .. Never /\ (p # Never => p > last /\ s.start <= p)
    BY CronNextIsLater
  <2> HIDE DEF p
  <2>2. CASE ~noCatchup
    <3>1. next = p
      BY <1>2, <2>2 DEF NextScheduledEpoch, p
    <3> QED
      BY <1>0, <2>1, <3>1 DEF Started
  <2>3. CASE noCatchup
    <3>1. next = IF p = Never THEN Never ELSE CronCatchUp(s, p, now)
      BY <1>2, <2>3 DEF NextScheduledEpoch, CronNextNoCatchup, p
    <3>2. CronCatchUp(s, p, now) \in p .. Never
      BY <2>1, CatchUpEnds DEF CaughtUp
    <3> QED
      BY <1>0, <2>1, <3>1, <3>2 DEF Started
  <2> QED
    BY <2>2, <2>3
<1>3. CASE s.kind = "oneoff"
  <2>1. next = OneOffNext(last, created)
    BY <1>3 DEF NextScheduledEpoch
  <2> QED
    BY <1>0, <1>3, <2>1 DEF OneOffNext, Started, Nil
<1> QED
  BY <1>1, <1>2, <1>3 DEF Schedule
-----------------------------------------------------------------------------
(* Multiples of the interval *)

LEMMA Division ==
  ASSUME NEW n \in Nat \ {0}, NEW a \in Nat
  PROVE  a = n * (a \div n) + (a % n) /\ a \div n \in Int /\ a % n \in 0 .. n - 1
OBVIOUS

LEMMA AtLeastOnce ==
  ASSUME NEW n \in Nat \ {0}, NEW d \in Int
  PROVE  (d >= 1 => n * d >= n) /\ (d <= -1 => n * d <= -n)
OBVIOUS

LEMMA Multiple ==
  ASSUME NEW n \in Nat \ {0}, NEW a \in Nat, NEW k \in Int, a = n * k
  PROVE  a % n = 0
<1> DEFINE q == a \div n
           r == a % n
<1>1. a = n * q + r /\ q \in Int /\ r \in 0 .. n - 1
  BY Division
<1> HIDE DEF q, r
<1>2. n * (k - q) = n * k - n * q /\ n * k \in Int /\ n * q \in Int
  BY <1>1
<1>3. n * (k - q) = r
  BY <1>1, <1>2
<1>4. k - q \in Int /\ ~(k - q >= 1) /\ ~(k - q <= -1)
  BY <1>1, <1>3, AtLeastOnce
<1>5. n * (k - q) = 0
  <2>1. k = q
    BY <1>1, <1>4
  <2> QED
    BY <1>1, <2>1
<1> QED
  BY <1>3, <1>5 DEF r

(* The next multiple of n after a is a + n.                                 *)
LEMMA MultipleFollows ==
  ASSUME NEW n \in Nat \ {0}, NEW a \in Nat, a % n = 0
  PROVE  /\ (a + n) % n = 0
         /\ \A b \in Nat : b % n = 0 /\ b > a => b >= a + n
<1> DEFINE p == a \div n
<1>1. a = n * p /\ p \in Int
  BY Division
<1> HIDE DEF p
<1>2. (a + n) % n = 0
  <2>1. a + n = n * (p + 1)
    BY <1>1
  <2> QED
    BY <1>1, <2>1, Multiple
<1>3. ASSUME NEW b \in Nat, b % n = 0, b > a PROVE b >= a + n
  <2> DEFINE q == b \div n
  <2>1. b = n * q /\ q \in Int
    BY <1>3, Division
  <2> HIDE DEF q
  <2>2. n * (q - p) = b - a
    BY <1>1, <2>1
  <2>3. q - p \in Int /\ ~(q - p <= -1) /\ q - p # 0
    BY <1>1, <1>3, <2>1, <2>2, AtLeastOnce
  <2>4. n * (q - p) >= n
    BY <2>3, AtLeastOnce
  <2> QED
    BY <2>2, <2>4
<1> QED
  BY <1>2, <1>3

-----------------------------------------------------------------------------
(* Due times *)

(* t is the i-th due time, Nil for the 0-th.                                *)
UpTo(due, t) == {x \in due : x <= t}
IsDueTime(s, created, horizon, t, i) ==
  LET due == DueTimes(s, created, horizon)
  IN \/ i = 0 /\ t = Nil
     \/ i \in Nat \ {0} /\ t \in due /\ Cardinality(UpTo(due, t)) = i

LEMMA DueTimesType ==
  ASSUME NEW s \in Schedule, NEW created \in Nat \ {0}, NEW horizon \in Nat
  PROVE  /\ DueTimes(s, created, horizon) \subseteq Nat \ {0}
         /\ IsFiniteSet(DueTimes(s, created, horizon))
<1> DEFINE due == DueTimes(s, created, horizon)
<1>1. due \subseteq 1 .. horizon \/ due = {created}
  BY DEF DueTimes
<1>2. IsFiniteSet(1 .. horizon)
  BY FS_Interval
<1>3. IsFiniteSet({created})
  BY FS_Singleton
<1> QED
  BY <1>1, <1>2, <1>3, FS_Subset

LEMMA UpToFinite ==
  ASSUME NEW due, IsFiniteSet(due), NEW t
  PROVE  /\ IsFiniteSet(UpTo(due, t)) /\ Cardinality(UpTo(due, t)) \in Nat
         /\ Cardinality(UpTo(due, t)) <= Cardinality(due)
BY FS_Subset, FS_CardinalityType DEF UpTo

(* Of two times the later one has more due times up to it.                  *)
LEMMA RankDetermines ==
  ASSUME NEW due, due \subseteq Nat, IsFiniteSet(due), NEW t \in due, NEW u \in due,
         Cardinality(UpTo(due, t)) = Cardinality(UpTo(due, u))
  PROVE  t = u
<1>1. ASSUME NEW a \in due, NEW b \in due, a < b,
             Cardinality(UpTo(due, a)) = Cardinality(UpTo(due, b))
      PROVE  FALSE
  <2>1. UpTo(due, a) \in SUBSET UpTo(due, b) /\ b \in UpTo(due, b) /\ b \notin UpTo(due, a)
    <3>1. a \in Nat /\ b \in Nat /\ b <= b /\ ~(b <= a)
      BY <1>1
    <3>2. ASSUME NEW x \in due, x <= a PROVE x <= b
      <4>1. x \in Nat
        OBVIOUS
      <4> QED
        BY <1>1, <3>1, <3>2, <4>1
    <3> QED
      BY <3>1, <3>2 DEF UpTo
  <2>2. IsFiniteSet(UpTo(due, b))
    BY UpToFinite
  <2>3. UpTo(due, b) = UpTo(due, a)
    BY <1>1, <2>1, <2>2, FS_Subset
  <2> QED
    BY <2>1, <2>3
<1> QED
  BY <1>1

LEMMA DueTimeIsUnique ==
  ASSUME NEW s \in Schedule, NEW created \in Nat \ {0}, NEW horizon \in Nat, NEW t, NEW i,
         IsDueTime(s, created, horizon, t, i)
  PROVE  t = DueTime(s, created, horizon, i)
<1> DEFINE due == DueTimes(s, created, horizon)
<1>1. CASE i = 0
  BY <1>1 DEF IsDueTime, DueTime
<1>2. CASE i # 0
  <2>1. i \in Nat \ {0} /\ t \in due /\ Cardinality(UpTo(due, t)) = i
    BY <1>2 DEF IsDueTime
  <2>2. due \subseteq Nat /\ IsFiniteSet(due)
    BY DueTimesType
  <2>3. i <= Cardinality(due) /\ Cardinality(due) \in Nat
    BY <2>1, <2>2, UpToFinite, FS_CardinalityType
  <2>4. \A u \in due : Cardinality(UpTo(due, u)) = i => u = t
    BY <2>1, <2>2, RankDetermines
  <2>5. DueTime(s, created, horizon, i) = CHOOSE u \in due : Cardinality(UpTo(due, u)) = i
    <3>1. i # 0 /\ ~(i > Cardinality(due))
      BY <2>1, <2>3
    <3> QED
      BY <3>1, Zenon DEF DueTime, UpTo
  <2> HIDE DEF due
  <2> QED
    BY <2>1, <2>4, <2>5
<1> QED
  BY <1>1, <1>2

(* The due time that follows the i-th one is the (i+1)-th.                  *)
LEMMA DueTimeFollows ==
  ASSUME NEW s \in Schedule, NEW created \in Nat \ {0}, NEW horizon \in Nat,
         NEW t \in Nat, NEW i, IsDueTime(s, created, horizon, t, i),
         NEW u \in DueTimes(s, created, horizon), u > t,
         \A x \in DueTimes(s, created, horizon) : x > t => x >= u
  PROVE  IsDueTime(s, created, horizon, u, i + 1)
<1> DEFINE due == DueTimes(s, created, horizon)
<1>1. due \subseteq Nat \ {0} /\ IsFiniteSet(due)
  BY DueTimesType
<1>2. i \in Nat /\ Cardinality(UpTo(due, t)) = i
  <2>1. CASE i = 0 /\ t = Nil
    <3>1. UpTo(due, t) = {}
      BY <1>1, <2>1 DEF UpTo, Nil
    <3> QED
      BY <2>1, <3>1, FS_EmptySet
  <2>2. CASE i \in Nat \ {0}
    BY <2>2 DEF IsDueTime
  <2> QED
    BY <2>1, <2>2 DEF IsDueTime
<1>3. UpTo(due, u) = UpTo(due, t) \cup {u} /\ u \notin UpTo(due, t)
  <2> HIDE DEF due
  <2>1. u \in due /\ u > t /\ \A x \in due : x > t => x >= u
    BY DEF due
  <2>2. t \in Nat /\ u \in Nat /\ ~(u <= t) /\ u <= u
    BY <1>1, <2>1
  <2>3. ASSUME NEW x \in due PROVE x <= u <=> x <= t \/ x = u
    <3>1. x \in Nat
      BY <1>1
    <3> QED
      BY <2>1, <2>2, <3>1
  <2> QED
    BY <2>1, <2>2, <2>3 DEF UpTo
<1>4. Cardinality(UpTo(due, u)) = i + 1
  <2>1. IsFiniteSet(UpTo(due, t))
    BY <1>1, UpToFinite
  <2> HIDE DEF due
  <2> QED
    BY <1>2, <1>3, <2>1, FS_AddElement
<1> QED
  BY <1>2, <1>4 DEF IsDueTime

(* With catch-up no due time lies between the last one and the scheduled    *)
(* time, and a scheduled time that has come is a due time.                  *)
LEMMA NextDue ==
  ASSUME NEW s \in Schedule, NEW created \in Nat \ {0}, NEW horizon \in Nat,
         NEW now \in 0 .. horizon, horizon < Never, NEW last \in Nat,
         last # Nil => last \in DueTimes(s, created, horizon)
  PROVE  LET next == NextScheduledEpoch(s, FALSE, last, created, now)
             due == DueTimes(s, created, horizon)
         IN /\ \A x \in due : x > last => x >= next
            /\ next <= now => next \in due /\ next > last
<1> DEFINE next == NextScheduledEpoch(s, FALSE, last, created, now)
           due == DueTimes(s, created, horizon)
           base == IF s.start # Nil THEN s.start ELSE created
<1>0. /\ Never \in Nat \ {0} /\ s.start \in Nat /\ s.end \in Nat /\ IntervalOf(s) \in Nat \ {0}
      /\ base \in Nat \ {0} /\ s.start <= base
      /\ now \in Nat /\ now < Never /\ now <= horizon
  <2>1. s.start \in Nat /\ s.end \in Nat
    BY DEF Schedule
  <2> QED
    BY <2>1, NeverAssumption, IntervalType DEF Nil
<1>1. last # Nil => last \in due
  OBVIOUS
<1>2. /\ \A x \in due : x > last => x >= next
      /\ next <= now => next \in due /\ next > last
  <2>1. CASE s.kind = "periodic"
    <3> DEFINE from == IF last # Nil THEN last ELSE base
               result == from + IntervalOf(s)
    <3>1. due = {t \in 1 .. horizon : ~After(s, t) /\ t > base /\ (t - base) % IntervalOf(s) = 0}
      BY <2>1 DEF DueTimes
    <3>2. from \in Nat /\ from - base \in Nat /\ (from - base) % IntervalOf(s) = 0
      BY <1>0, <1>1, <3>1
    <3>3. /\ next = IF s.start > from THEN s.start
                    ELSE IF After(s, result) THEN Never ELSE result
      BY <2>1 DEF NextScheduledEpoch, PeriodicNext, EffectiveLast
    <3> HIDE DEF next, due, base, from
    <3>4. ~(s.start > from) /\ from >= base /\ from >= last
      BY <1>0, <1>1, <3>1, <3>2 DEF Nil, from
    <3>5. /\ next = IF After(s, result) THEN Never ELSE result
          /\ result \in Nat /\ result - base = (from - base) + IntervalOf(s)
      BY <1>0, <3>2, <3>3, <3>4
    <3> HIDE DEF result
    <3>7. /\ (result - base) % IntervalOf(s) = 0
          /\ \A b \in Nat : b % IntervalOf(s) = 0 /\ b > from - base => b >= result - base
      BY <1>0, <3>2, <3>5, MultipleFollows
    <3>8. ASSUME NEW x \in due, x > last PROVE x >= next
      <4>1. x \in Nat /\ x > base /\ (x - base) % IntervalOf(s) = 0 /\ ~After(s, x)
        BY <3>1
      <4>2. x - base \in Nat /\ x - base > from - base
        BY <1>0, <3>2, <3>8, <4>1 DEF from
      <4>3. x >= result
        BY <1>0, <3>5, <3>7, <4>1, <4>2
      <4>4. ~After(s, result)
        BY <1>0, <3>5, <4>1, <4>3 DEF After
      <4> QED
        BY <3>5, <4>3, <4>4
    <3>9. ASSUME next <= now PROVE next \in due /\ next > last
      <4>1. next = result /\ ~After(s, result)
        BY <1>0, <3>5, <3>9
      <4>2. result > from
        BY <1>0, <3>2 DEF result
      <4>3. result \in 1 .. horizon /\ result > base /\ result > last
        BY <1>0, <3>2, <3>4, <3>5, <3>9, <4>1, <4>2
      <4> QED
        BY <3>1, <3>7, <4>1, <4>3
    <3> QED
      BY <3>8, <3>9
  <2>2. CASE s.kind = "cron"
    <3> DEFINE eff == IF last # Nil THEN last ELSE base
    <3>1. due = {t \in 1 .. horizon : ~After(s, t) /\ t > base /\ t \in s.ticks}
      BY <2>2 DEF DueTimes
    <3>2. eff \in Nat /\ eff >= base /\ eff >= s.start /\ eff >= last
      BY <1>0, <1>1, <3>1 DEF Nil
    <3>3. Max({eff, s.start}) = eff
      BY <1>0, <3>2, MaxOfTwo
    <3>4. next = IF After(s, CronTick(s, eff)) THEN Never ELSE CronTick(s, eff)
      BY <2>2, <3>3 DEF NextScheduledEpoch, CronNext, EffectiveLast
    <3> HIDE DEF next, due, base, eff
    <3>5. /\ CronTick(s, eff) \in 1 .. Never
          /\ CronTick(s, eff) # Never => CronTick(s, eff) \in s.ticks /\ CronTick(s, eff) > eff
          /\ \A x \in s.ticks : x > eff => CronTick(s, eff) <= x
      BY <3>2, CronTickIsNext
    <3>6. ASSUME next <= now PROVE next \in due /\ next > last
      <4>1. next = CronTick(s, eff) /\ ~After(s, next) /\ next # Never
        BY <1>0, <3>4, <3>6
      <4> QED
        BY <1>0, <3>1, <3>2, <3>5, <3>6, <4>1
    <3>7. ASSUME NEW x \in due, x > last PROVE x >= next
      <4>1. x \in Nat /\ x > eff /\ x \in s.ticks /\ ~After(s, x)
        BY <1>0, <3>1, <3>7 DEF eff
      <4>2. CronTick(s, eff) <= x
        BY <3>5, <4>1
      <4>3. ~After(s, CronTick(s, eff))
        BY <1>0, <3>5, <4>1, <4>2 DEF After
      <4> QED
        BY <1>0, <3>4, <3>5, <4>1, <4>2, <4>3
    <3> QED
      BY <3>6, <3>7
  <2>3. CASE s.kind = "oneoff"
    <3>1. due = {created} /\ next = IF last # Nil THEN Never ELSE created
      BY <2>3 DEF DueTimes, NextScheduledEpoch, OneOffNext
    <3> HIDE DEF next, due, base
    <3> QED
      BY <1>0, <1>1, <3>1 DEF Nil
  <2> QED
    BY <2>1, <2>2, <2>3 DEF Schedule
<1> QED
  BY <1>2

(* With catch-up the scheduled time that has come is the due time after the *)
(* last one: none is skipped and none comes twice.                          *)
THEOREM NextIsDue ==
  ASSUME NEW s \in Schedule, NEW created \in Nat \ {0}, NEW horizon \in Nat,
         NEW now \in 0 .. horizon, horizon < Never, NEW last \in Nat, NEW i,
         IsDueTime(s, created, horizon, last, i),
         NextScheduledEpoch(s, FALSE, last, created, now) <= now
  PROVE  IsDueTime(s, created, horizon, NextScheduledEpoch(s, FALSE, last, created, now), i + 1)
<1> DEFINE next == NextScheduledEpoch(s, FALSE, last, created, now)
           due == DueTimes(s, created, horizon)
<1>1. last # Nil => last \in due
  BY DEF IsDueTime
<1>2. next \in due /\ next > last /\ \A x \in due : x > last => x >= next
  BY <1>1, NextDue
<1> QED
  BY <1>2, DueTimeFollows

(* With catch-up, when the scheduled time has not come, every due time up   *)
(* to now is counted: the last one is the last of them.                     *)
LEMMA NoneIsMissing ==
  ASSUME NEW s \in Schedule, NEW created \in Nat \ {0}, NEW horizon \in Nat,
         NEW now \in 0 .. horizon, horizon < Never, NEW last \in 0 .. now, NEW i,
         IsDueTime(s, created, horizon, last, i),
         NextScheduledEpoch(s, FALSE, last, created, now) \in Nat,
         NextScheduledEpoch(s, FALSE, last, created, now) > now
  PROVE  Cardinality({t \in DueTimes(s, created, horizon) : t <= now}) = i
<1> DEFINE next == NextScheduledEpoch(s, FALSE, last, created, now)
           due == DueTimes(s, created, horizon)
<1>d. due \subseteq Nat \ {0}
  BY DueTimesType
<1>n. next \in Nat /\ next > now
  BY Zenon
<1> HIDE DEF next, due
<1>0. next \in Nat /\ next > now /\ due \subseteq Nat \ {0} /\ now \in Nat /\ last \in Nat /\ last <= now
  BY <1>d, <1>n
<1>1. \A x \in due : x > last => x >= next
  <2>1. last # Nil => last \in due
    BY DEF IsDueTime, due
  <2> QED
    BY <1>0, <2>1, NextDue DEF next, due
<1>i. i \in Nat /\ (i = 0 => last = Nil) /\ (i # 0 => Cardinality(UpTo(due, last)) = i)
  BY DEF IsDueTime, due
<1>2. {t \in due : t <= now} = UpTo(due, last)
  <2>1. ASSUME NEW t \in due PROVE t <= now <=> t <= last
    <3>1. t \in Nat
      BY <1>0
    <3> QED
      BY <1>0, <1>1, <3>1
  <2> QED
    BY <2>1 DEF UpTo
<1>3. CASE i = 0
  <2>1. \A t \in due : t \in Nat /\ ~(t <= 0)
    BY <1>0
  <2>2. UpTo(due, last) = {}
    BY <1>i, <1>3, <2>1 DEF UpTo, Nil
  <2> QED
    BY <1>2, <1>3, <2>2, FS_EmptySet DEF due
<1>4. CASE i # 0
  BY <1>2, <1>4, <1>i DEF due
<1> QED
  BY <1>3, <1>4

-----------------------------------------------------------------------------
(* Without catch-up *)

LEMMA NextIsInWindow ==
  ASSUME NEW s \in Schedule, s.kind = "oneoff" => s.end = Nil,
         NEW created \in Nat \ {0}, NEW now \in Nat, now < Never, NEW last \in Nat, Started(s, last),
         NextScheduledEpoch(s, TRUE, last, created, now) <= now
  PROVE  ~After(s, NextScheduledEpoch(s, TRUE, last, created, now))
<1> DEFINE next == NextScheduledEpoch(s, TRUE, last, created, now)
<1>0. Never \in Nat \ {0} /\ s.start \in Nat /\ s.end \in Nat /\ IntervalOf(s) \in Nat \ {0} /\ next <= now
  BY NeverAssumption, IntervalType DEF Schedule
<1>1. CASE s.kind = "periodic"
  <2> DEFINE p == PeriodicNext(s, last, created)
  <2>1. p \in Nat \ {0} /\ (p # Never => ~After(s, p))
    BY <1>1, PeriodicNextIsLater
  <2> HIDE DEF p
  <2>2. next = IF p # Never /\ now >= p + IntervalOf(s)
                 THEN IF After(s, now) THEN s.end ELSE now ELSE p
    BY <1>1 DEF NextScheduledEpoch, PeriodicNextNoCatchup, p
  <2> HIDE DEF next
  <2>3. ~After(s, next)
    BY <1>0, <2>1, <2>2 DEF After, Nil
  <2> QED
    BY <2>3 DEF next
<1>2. CASE s.kind = "cron"
  <2> DEFINE p == CronNext(s, last, created)
  <2>1. p \in 1 .. Never /\ (p # Never => ~After(s, p))
    BY CronNextIsLater
  <2> HIDE DEF p
  <2>2. next = IF p = Never THEN Never ELSE CronCatchUp(s, p, now)
    BY <1>2 DEF NextScheduledEpoch, CronNextNoCatchup, p
  <2>3. CaughtUp(s, now, p, CronCatchUp(s, p, now))
    BY <2>1, CatchUpEnds
  <2> HIDE DEF next
  <2>4. ~After(s, next)
    BY <1>0, <2>1, <2>2, <2>3 DEF CaughtUp
  <2> QED
    BY <2>4 DEF next
<1>3. CASE s.kind = "oneoff"
  BY <1>3 DEF After
<1> QED
  BY <1>1, <1>2, <1>3 DEF Schedule

(* The loop over the missed times of a cron schedule stops at the last one. *)
LEMMA CronIsCurrent ==
  ASSUME NEW s \in Schedule, s.kind = "cron",
         NEW created \in Nat \ {0}, NEW horizon \in Nat, NEW now \in Nat, now < Never,
         NEW last \in Nat, Started(s, last),
         NextScheduledEpoch(s, TRUE, last, created, now) > now,
         NEW t \in DueTimes(s, created, horizon), t <= now
  PROVE  t <= last
<1> DEFINE next == NextScheduledEpoch(s, TRUE, last, created, now)
           p == CronNext(s, last, created)
           eff == EffectiveLast(s, last, created)
<1>0. Never \in Nat \ {0} /\ s.start \in Nat /\ s.end \in Nat /\ eff \in Nat \ {0}
  BY NeverAssumption, EffectiveLastType
<1>1. t \in Nat /\ ~After(s, t) /\ t \in s.ticks /\ (last = Nil => t > eff)
  BY DEF DueTimes, EffectiveLast, Nil
<1>2. s.start <= eff /\ (last # Nil => eff = last)
  BY <1>0 DEF Started, EffectiveLast, Nil
<1>3. Max({eff, s.start}) = eff
  BY <1>0, <1>2, MaxOfTwo
<1>4. p = IF After(s, CronTick(s, eff)) THEN Never ELSE CronTick(s, eff)
  BY <1>3 DEF CronNext
<1>5. next = IF p = Never THEN Never ELSE CronCatchUp(s, p, now)
  BY DEF NextScheduledEpoch, CronNextNoCatchup
<1>6. next > now
  OBVIOUS
<1>7. SUFFICES ASSUME ~(t <= last) PROVE FALSE
  OBVIOUS
<1> HIDE DEF next, p, eff
<1>8. t > eff
  BY <1>0, <1>1, <1>2, <1>7
<1>9. CronTick(s, eff) \in 1 .. Never /\ CronTick(s, eff) <= t
  BY <1>0, <1>1, <1>8, CronTickIsNext
<1>10. p = CronTick(s, eff) /\ p <= now /\ p \in 1 .. Never /\ p # Never
  BY <1>0, <1>1, <1>4, <1>9 DEF After
<1>11. CaughtUp(s, now, p, next)
  BY <1>5, <1>10, CatchUpEnds
<1> QED
  BY <1>0, <1>6, <1>10, <1>11 DEF CaughtUp

LEMMA PeriodicIsCurrent ==
  ASSUME NEW s \in Schedule, s.kind = "periodic",
         NEW created \in Nat \ {0}, NEW now \in Nat, now < Never,
         NEW last \in Nat, Started(s, last),
         NextScheduledEpoch(s, TRUE, last, created, now) > now
  PROVE  LET from == EffectiveLast(s, last, created)
         IN now - from < IntervalOf(s) \/ After(s, from + IntervalOf(s))
<1> DEFINE next == NextScheduledEpoch(s, TRUE, last, created, now)
           p == PeriodicNext(s, last, created)
           from == EffectiveLast(s, last, created)
<1>0. /\ Never \in Nat \ {0} /\ s.start \in Nat /\ s.end \in Nat /\ from \in Nat \ {0}
      /\ IntervalOf(s) \in Nat \ {0} /\ next > now
  BY NeverAssumption, EffectiveLastType, IntervalType
<1>1. s.start <= from
  BY <1>0 DEF Started, EffectiveLast, Nil
<1>2. p = IF After(s, from + IntervalOf(s)) THEN Never ELSE from + IntervalOf(s)
  BY <1>0, <1>1 DEF PeriodicNext
<1>3. next = IF p # Never /\ now >= p + IntervalOf(s)
               THEN IF After(s, now) THEN s.end ELSE now ELSE p
  BY DEF NextScheduledEpoch, PeriodicNextNoCatchup
<1> HIDE DEF next, p, from
<1>4. now - from < IntervalOf(s) \/ After(s, from + IntervalOf(s))
  BY <1>0, <1>2, <1>3 DEF After
<1> QED
  BY <1>4 DEF from
-----------------------------------------------------------------------------
(* The controller that may be late: what it has triggered so far.           *)
FiredDue ==
  /\ IsDueTime(plan.sched, CreatedAt, Horizon, LastFired, Len(fired))
  /\ \A i \in DOMAIN fired : IsDueTime(plan.sched, CreatedAt, Horizon, fired[i], i)

FiredInWindow ==
  /\ \A i \in DOMAIN fired : ~After(plan.sched, fired[i])
  /\ \A i \in 2 .. Len(fired) : fired[i - 1] < fired[i]

TimerInv ==
  /\ plan \in Plans /\ clock \in CreatedAt .. Horizon /\ fired \in Seq(Nat \ {0})
  /\ \A i \in DOMAIN fired : fired[i] <= clock
  /\ Started(plan.sched, LastFired)
  /\ ~plan.noCatchup => FiredDue
  /\ plan.noCatchup => FiredInWindow

LEMMA TimerTypes ==
  ASSUME TimerInv
  PROVE  /\ plan.sched \in Schedule /\ plan.noCatchup \in BOOLEAN
         /\ plan.sched.kind = "oneoff" => plan.sched.end = Nil
         /\ CreatedAt \in Nat \ {0} /\ Horizon \in Nat /\ Horizon < Never
         /\ clock \in 0 .. Horizon /\ clock \in Nat /\ clock < Never
         /\ LastFired \in 0 .. clock
         /\ NextEpoch \in Nat \ {0}
         /\ NextEpoch <= clock => NextEpoch > LastFired /\ Started(plan.sched, NextEpoch)
<1>1. /\ plan.sched \in Schedule /\ plan.noCatchup \in BOOLEAN
      /\ plan.sched.kind = "oneoff" => plan.sched.end = Nil
      /\ CreatedAt \in Nat \ {0} /\ Horizon \in Nat /\ Horizon < Never
  BY TimerAssumption DEF TimerInv
<1>2. clock \in 0 .. Horizon /\ clock \in Nat /\ clock < Never
  BY <1>1, NeverAssumption DEF TimerInv
<1>3. LastFired \in 0 .. clock
  <2>1. CASE fired = <<>>
    BY <1>2, <2>1 DEF LastFired, Nil
  <2>2. CASE fired # <<>>
    <3>1. Len(fired) \in DOMAIN fired /\ fired[Len(fired)] \in Nat
      BY <2>2 DEF TimerInv
    <3> QED
      BY <1>2, <2>2, <3>1 DEF LastFired, TimerInv
  <2> QED
    BY <2>1, <2>2
<1>4. LastFired \in Nat /\ Started(plan.sched, LastFired)
  BY <1>2, <1>3 DEF TimerInv
<1>5. /\ NextEpoch \in Nat \ {0}
      /\ NextEpoch <= clock => NextEpoch > LastFired /\ Started(plan.sched, NextEpoch)
  BY <1>1, <1>2, <1>4, NextIsLater DEF NextEpoch
<1> QED
  BY <1>1, <1>2, <1>3, <1>5

LEMMA TimerStart == TimerInit => TimerInv
<1> SUFFICES ASSUME TimerInit PROVE TimerInv
  OBVIOUS
<1>1. fired = <<>> /\ LastFired = Nil /\ Len(fired) = 0 /\ DOMAIN fired = {} /\ fired \in Seq(Nat \ {0})
  BY DEF TimerInit, LastFired
<1>2. Started(plan.sched, LastFired)
  BY <1>1 DEF Started
<1>3. FiredDue /\ FiredInWindow
  BY <1>1 DEF FiredDue, FiredInWindow, IsDueTime
<1>4. plan \in Plans /\ clock \in CreatedAt .. Horizon
  BY TimerAssumption DEF TimerInit
<1> QED
  BY <1>1, <1>2, <1>3, <1>4 DEF TimerInv

LEMMA TriggerKeeps == ASSUME TimerInv, Trigger PROVE TimerInv'
<1> DEFINE e == NextEpoch
           n == Len(fired)
<1>1. /\ plan.sched \in Schedule /\ plan.noCatchup \in BOOLEAN
      /\ plan.sched.kind = "oneoff" => plan.sched.end = Nil
      /\ CreatedAt \in Nat \ {0} /\ Horizon \in Nat /\ Horizon < Never
      /\ clock \in 0 .. Horizon /\ clock \in Nat /\ clock < Never
      /\ LastFired \in 0 .. clock
      /\ e \in Nat \ {0} /\ e <= clock
      /\ e > LastFired /\ Started(plan.sched, e)
  BY TimerTypes DEF Trigger
<1>2. fired' = Append(fired, e) /\ plan' = plan /\ clock' = clock
  BY DEF Trigger
<1>d. ~plan.noCatchup => IsDueTime(plan.sched, CreatedAt, Horizon, e, n + 1)
  <2> SUFFICES ASSUME ~plan.noCatchup PROVE IsDueTime(plan.sched, CreatedAt, Horizon, e, n + 1)
    OBVIOUS
  <2>1. e = NextScheduledEpoch(plan.sched, FALSE, LastFired, CreatedAt, clock)
    BY <1>1 DEF NextEpoch
  <2>2. IsDueTime(plan.sched, CreatedAt, Horizon, LastFired, n)
    BY DEF TimerInv, FiredDue
  <2>3. LastFired \in Nat
    BY <1>1
  <2> QED
    BY <1>1, <2>1, <2>2, <2>3, NextIsDue
<1>w. plan.noCatchup => ~After(plan.sched, e)
  <2> SUFFICES ASSUME plan.noCatchup PROVE ~After(plan.sched, e)
    OBVIOUS
  <2>1. e = NextScheduledEpoch(plan.sched, TRUE, LastFired, CreatedAt, clock)
    BY <1>1 DEF NextEpoch
  <2>2. LastFired \in Nat /\ Started(plan.sched, LastFired)
    BY <1>1 DEF TimerInv
  <2> QED
    BY <1>1, <2>1, <2>2, NextIsInWindow
<1> HIDE DEF e
<1>3. /\ fired \in Seq(Nat \ {0}) /\ n \in Nat
      /\ DOMAIN fired = 1 .. n /\ DOMAIN fired' = 1 .. n + 1 /\ Len(fired') = n + 1
      /\ fired' \in Seq(Nat \ {0}) /\ fired'[n + 1] = e /\ \A i \in 1 .. n : fired'[i] = fired[i]
  BY <1>1, <1>2 DEF TimerInv
<1>4. LastFired' = e
  BY <1>3 DEF LastFired
<1>5. n # 0 => LastFired = fired[n]
  BY <1>3 DEF LastFired
<1> HIDE DEF n
<1>6. ASSUME NEW i \in DOMAIN fired' PROVE fired'[i] <= clock'
  BY <1>1, <1>2, <1>3 DEF TimerInv
<1>7. ~plan.noCatchup => FiredDue'
  <2> SUFFICES ASSUME ~plan.noCatchup PROVE FiredDue'
    OBVIOUS
  <2>1. \A i \in 1 .. n : IsDueTime(plan.sched, CreatedAt, Horizon, fired[i], i)
    BY <1>3 DEF TimerInv, FiredDue
  <2>2. ASSUME NEW i \in 1 .. n + 1
        PROVE  IsDueTime(plan.sched, CreatedAt, Horizon, fired'[i], i)
    BY <1>d, <1>3, <2>1
  <2>3. IsDueTime(plan.sched, CreatedAt, Horizon, LastFired', Len(fired'))
    BY <1>d, <1>3, <1>4
  <2> QED
    BY <1>2, <1>3, <2>2, <2>3 DEF FiredDue, IsDueTime
<1>8. plan.noCatchup => FiredInWindow'
  <2> SUFFICES ASSUME plan.noCatchup PROVE FiredInWindow'
    OBVIOUS
  <2>1. FiredInWindow
    BY DEF TimerInv
  <2>2. ASSUME NEW i \in 1 .. n + 1 PROVE ~After(plan.sched, fired'[i])
    <3>1. CASE i = n + 1
      BY <1>w, <1>3, <3>1
    <3>2. CASE i # n + 1
      <4>1. i \in DOMAIN fired /\ fired'[i] = fired[i]
        BY <1>3, <3>2
      <4> QED
        BY <2>1, <4>1 DEF FiredInWindow
    <3> QED
      BY <3>1, <3>2
  <2>3. ASSUME NEW i \in 2 .. n + 1 PROVE fired'[i - 1] < fired'[i]
    <3>1. CASE i = n + 1
      <4>1. n \in 1 .. n /\ n # 0 /\ i - 1 = n
        BY <1>3, <3>1
      <4> QED
        BY <1>1, <1>3, <1>5, <3>1, <4>1
    <3>2. CASE i # n + 1
      <4>1. i \in 2 .. n /\ i \in 1 .. n /\ i - 1 \in 1 .. n
        BY <1>3, <3>2
      <4>2. fired[i - 1] < fired[i]
        BY <1>3, <2>1, <4>1 DEF FiredInWindow, n
      <4> QED
        BY <1>3, <4>1, <4>2
    <3> QED
      BY <3>1, <3>2
  <2> QED
    BY <1>2, <1>3, <2>2, <2>3 DEF FiredInWindow, After
<1> QED
  BY <1>1, <1>2, <1>3, <1>4, <1>6, <1>7, <1>8 DEF TimerInv, Started

LEMMA TimePassesKeeps == ASSUME TimerInv, TimePasses PROVE TimerInv'
<1>1. clock \in Nat /\ Horizon \in Nat /\ CreatedAt \in Nat
  BY TimerTypes
<1>2. plan' = plan /\ fired' = fired /\ clock' = clock + 1 /\ clock < Horizon
  BY DEF TimePasses
<1>3. clock' \in CreatedAt .. Horizon
  BY <1>1, <1>2 DEF TimerInv
<1>4. ASSUME NEW i \in DOMAIN fired PROVE fired[i] <= clock'
  <2>1. fired[i] \in Nat /\ fired[i] <= clock
    BY DEF TimerInv
  <2> QED
    BY <1>1, <1>2, <2>1
<1>5. LastFired' = LastFired /\ (FiredDue => FiredDue') /\ (FiredInWindow => FiredInWindow')
  BY <1>2 DEF LastFired, FiredDue, FiredInWindow, IsDueTime, After
<1> QED
  BY <1>2, <1>3, <1>4, <1>5 DEF TimerInv, Started

(* What was triggered is, with catch-up, the first due times one by one,    *)
(* and without it an increasing sequence within the window.                 *)
THEOREM TimerInvariance == TimerSpec => []TimerInv
<1>1. ASSUME TimerInv, UNCHANGED timerVars PROVE TimerInv'
  BY <1>1 DEF timerVars, TimerInv, LastFired, FiredDue, FiredInWindow, IsDueTime, After, Started
<1>2. TimerInv /\ [TimerNext]_timerVars => TimerInv'
  BY <1>1, TriggerKeeps, TimePassesKeeps DEF TimerNext
<1> QED
  BY TimerStart, <1>2, PTL DEF TimerSpec

(* With catch-up, for every schedule and every delay of the controller,     *)
(* workflows run at the due times and at no other, and a controller that    *)
(* has nothing to trigger has missed none.                                  *)
THEOREM EveryDueTimeIsTriggered == TimerSpec => []CatchupMissesNothing
<1>1. ASSUME TimerInv PROVE CatchupMissesNothing
  <2> SUFFICES ASSUME ~plan.noCatchup PROVE
        /\ \A i \in DOMAIN fired : fired[i] = DueTime(plan.sched, CreatedAt, Horizon, i)
        /\ NextEpoch > clock => Len(fired) = Cardinality({t \in Due : t <= clock})
    BY DEF CatchupMissesNothing
  <2>1. /\ plan.sched \in Schedule /\ plan.noCatchup = FALSE
        /\ CreatedAt \in Nat \ {0} /\ Horizon \in Nat /\ Horizon < Never
        /\ clock \in 0 .. Horizon /\ LastFired \in 0 .. clock /\ NextEpoch \in Nat
    BY <1>1, TimerTypes
  <2>2. FiredDue
    BY <1>1 DEF TimerInv
  <2>3. ASSUME NEW i \in DOMAIN fired PROVE fired[i] = DueTime(plan.sched, CreatedAt, Horizon, i)
    BY <2>1, <2>2, DueTimeIsUnique DEF FiredDue
  <2>4. ASSUME NextEpoch > clock PROVE Len(fired) = Cardinality({t \in Due : t <= clock})
    <3>1. NextEpoch = NextScheduledEpoch(plan.sched, FALSE, LastFired, CreatedAt, clock)
      BY <2>1 DEF NextEpoch
    <3>2. IsDueTime(plan.sched, CreatedAt, Horizon, LastFired, Len(fired))
      BY <2>2 DEF FiredDue
    <3> QED
      BY <2>1, <2>4, <3>1, <3>2, NoneIsMissing DEF Due
  <2> QED
    BY <2>3, <2>4
<1> QED
  BY <1>1, TimerInvariance, PTL

(* Without catch-up, for every schedule and every delay of the controller,  *)
(* triggers are in the window of the schedule and in order, and a           *)
(* controller that has nothing to trigger is not behind.                    *)
THEOREM LateControllerIsCurrent == TimerSpec => []NoCatchupIsCurrent
<1>1. ASSUME TimerInv PROVE NoCatchupIsCurrent
  <2> SUFFICES ASSUME plan.noCatchup PROVE NoCatchupIsCurrent
    BY DEF NoCatchupIsCurrent
  <2>1. /\ plan.sched \in Schedule /\ plan.noCatchup = TRUE
        /\ CreatedAt \in Nat \ {0} /\ Horizon \in Nat
        /\ clock \in Nat /\ clock < Never /\ LastFired \in Nat
    BY <1>1, TimerTypes
  <2>2. NextEpoch = NextScheduledEpoch(plan.sched, TRUE, LastFired, CreatedAt, clock)
    BY <2>1 DEF NextEpoch
  <2>3. Started(plan.sched, LastFired)
    BY <1>1 DEF TimerInv
  <2>4. /\ \A i \in DOMAIN fired : ~After(plan.sched, fired[i]) /\ fired[i] <= clock
        /\ \A i \in 2 .. Len(fired) : fired[i - 1] < fired[i]
    BY <1>1 DEF TimerInv, FiredInWindow
  <2>5. ASSUME plan.sched.kind = "cron", NextEpoch > clock, NEW t \in Due, t <= clock
        PROVE  t <= LastFired
    BY <2>1, <2>2, <2>3, <2>5, CronIsCurrent DEF Due
  <2>6. ASSUME plan.sched.kind = "periodic", NextEpoch > clock
        PROVE  LET from == EffectiveLast(plan.sched, LastFired, CreatedAt)
               IN clock - from < IntervalOf(plan.sched) \/ After(plan.sched, from + IntervalOf(plan.sched))
    BY <2>1, <2>2, <2>3, <2>6, PeriodicIsCurrent
  <2> QED
    BY <2>4, <2>5, <2>6 DEF NoCatchupIsCurrent
<1> QED
  BY <1>1, TimerInvariance, PTL
=============================================================================
