----------------------- MODULE ScheduledWorkflowProofs -----------------------
(***************************************************************************)
(* The ScheduledWorkflow controller for any number of replicas, every      *)
(* recurring run, any number of failures, restarts, mode changes and       *)
(* deletions, and whatever the informers' lag.                             *)
(*                                                                         *)
(* The resource lives on in copies: in the watches, in the caches and in   *)
(* the snapshots the syncs work on.  The invariant says of every copy what *)
(* it says of the resource, and that a copy with its version equals it.    *)
(***************************************************************************)
EXTENDS ScheduledWorkflow, SchedulesProofs

Wf == [id : Nat, trigger : Nat, label : Nat, epoch : Nat, done : BOOLEAN]

Swf == [ver : Nat, enabled : BOOLEAN,
        cond : {"none", "Enabled", "Disabled", "Succeeded", "Running"} \X BOOLEAN,
        index : Nat, last : Nat, active : SUBSET Wf, completed : SUBSET Wf]

Sync == [pc : {"idle", "list", "submit", "check", "create", "insert", "status"}, snap : Swf,
         time : Nat, active : SUBSET Wf, completed : SUBSET Wf, next : Nat, submitted : BOOLEAN]

TypeInv ==
  /\ spec \in Specs /\ swf \in Swf /\ wfs \in SUBSET Wf /\ rows \in SUBSET Nat
  /\ swfWatch \in [Controllers -> Seq(Swf)] /\ wfWatch \in [Controllers -> Seq(SUBSET Wf)]
  /\ swfCache \in [Controllers -> Swf] /\ wfCache \in [Controllers -> SUBSET Wf]
  /\ queued \in [Controllers -> BOOLEAN] /\ sync \in [Controllers -> Sync]
  /\ now \in 1 .. MaxNow /\ events \in Nat
  /\ made \in SUBSET Wf /\ IsFiniteSet(made)

(* A trigger for which a workflow was created.                              *)
Triggered(i, M) == \E m \in M : m.trigger = i
Counted(s, M) == \A i \in 1 .. s.index : Triggered(i, M)

(* A time under an index is as the schedule has it.                         *)
OnSchedule(sp, time, index) ==
  /\ Started(sp.sched, time)
  /\ ~sp.noCatchup => IsDueTime(sp.sched, Created, MaxNow, time, index)

(* s is the resource cur or an earlier version of it.                       *)
Copy(s, cur, M, sp) ==
  /\ s.ver <= cur.ver /\ (s.ver = cur.ver => s = cur)
  /\ Counted(s, M) /\ OnSchedule(sp, s.last, s.index)

Versions ==
  /\ Copy(NewSwf, swf, made, spec) /\ Copy(swf, swf, made, spec)
  /\ \A c \in Controllers :
       /\ Copy(swfCache[c], swf, made, spec)
       /\ \A i \in 1 .. Len(swfWatch[c]) : Copy(swfWatch[c][i], swf, made, spec)

(* What a sync has found out: that its trigger has come, and that its       *)
(* workflow exists.                                                         *)
HasCome(y, sp) ==
  y.next <= y.time /\ y.next > y.snap.last /\ OnSchedule(sp, y.next, y.snap.index + 1)

SyncOK(y, cur, M, sp, n) ==
  /\ Copy(y.snap, cur, M, sp) /\ y.time <= n
  /\ y.submitted => y.pc = "status"
  /\ y.pc \in {"submit", "check", "create", "insert"} \/ y.submitted => HasCome(y, sp)
  /\ y.pc = "insert" \/ y.submitted => Triggered(y.snap.index + 1, M)

Syncs == \A c \in Controllers : SyncOK(sync[c], swf, made, spec, now)

(* Workflows in the cluster, in the watches and in the caches were created. *)
Known(W, M) == \A w \in W : Triggered(w.trigger, M)

Workflows ==
  /\ Known(wfs, made) /\ \A r \in rows : Triggered(r, made)
  /\ \A c \in Controllers :
       Known(wfCache[c], made) /\ \A i \in 1 .. Len(wfWatch[c]) : Known(wfWatch[c][i], made)

Made == \A m \in made : m.epoch <= now /\ OnSchedule(spec, m.epoch, m.trigger)

IInv == TypeInv /\ Versions /\ Syncs /\ Workflows /\ Made
-----------------------------------------------------------------------------
(* Sequences *)

LEMMA AppendOne ==
  ASSUME NEW S, NEW q \in Seq(S), NEW e \in S
  PROVE  /\ Append(q, e) \in Seq(S)
         /\ \A i \in 1 .. Len(Append(q, e)) :
              Append(q, e)[i] = e \/ \E j \in 1 .. Len(q) : Append(q, e)[i] = q[j]
<1>1. Append(q, e) \in Seq(S) /\ Len(Append(q, e)) = Len(q) + 1 /\ Len(q) \in Nat
  OBVIOUS
<1>2. \A i \in 1 .. Len(q) + 1 : Append(q, e)[i] = IF i = Len(q) + 1 THEN e ELSE q[i]
  OBVIOUS
<1> QED
  BY <1>1, <1>2

LEMMA TakeOne ==
  ASSUME NEW S, NEW q \in Seq(S), q # <<>>
  PROVE  /\ Head(q) \in S /\ Tail(q) \in Seq(S)
         /\ \E j \in 1 .. Len(q) : Head(q) = q[j]
         /\ \A i \in 1 .. Len(Tail(q)) : \E j \in 1 .. Len(q) : Tail(q)[i] = q[j]
<1>1. Len(q) \in Nat \ {0} /\ Len(Tail(q)) = Len(q) - 1 /\ Tail(q) \in Seq(S)
  OBVIOUS
<1>2. Head(q) = q[1] /\ q[1] \in S
  BY <1>1
<1>3. \A i \in 1 .. Len(Tail(q)) : Tail(q)[i] = q[i + 1] /\ i + 1 \in 1 .. Len(q)
  BY <1>1
<1> QED
  BY <1>1, <1>2, <1>3

-----------------------------------------------------------------------------
(* What is kept while workflows are created and time passes *)

LEMMA SpecType ==
  TypeInv => /\ spec.sched \in Schedule /\ spec.noCatchup \in BOOLEAN /\ spec.pinned \in BOOLEAN
             /\ now \in Nat /\ now < Never /\ now <= MaxNow /\ MaxNow \in Nat /\ MaxNow < Never
             /\ Created \in Nat \ {0}
BY ScheduledWorkflowAssumption, NeverAssumption DEF TypeInv, RecurringRun, Created

LEMMA TriggeredKept ==
  ASSUME NEW M, NEW N, M \subseteq N
  PROVE  /\ \A i : Triggered(i, M) => Triggered(i, N)
         /\ \A W : Known(W, M) => Known(W, N)
         /\ \A s : Counted(s, M) => Counted(s, N)
BY DEF Triggered, Known, Counted

LEMMA CopyKept ==
  ASSUME NEW M, NEW N, M \subseteq N, NEW cur, NEW sp
  PROVE  \A s : Copy(s, cur, M, sp) => Copy(s, cur, N, sp)
BY TriggeredKept DEF Copy

LEMMA SyncKept ==
  ASSUME NEW M, NEW N, M \subseteq N, NEW cur, NEW sp, NEW n \in Nat, NEW m \in Nat, n <= m
  PROVE  \A y \in Sync : SyncOK(y, cur, M, sp, n) => SyncOK(y, cur, N, sp, m)
<1> SUFFICES ASSUME NEW y \in Sync, SyncOK(y, cur, M, sp, n) PROVE SyncOK(y, cur, N, sp, m)
  OBVIOUS
<1>1. y.time \in Nat
  BY DEF Sync
<1>2. y.time <= m
  BY <1>1 DEF SyncOK
<1>3. Copy(y.snap, cur, N, sp)
  BY CopyKept DEF SyncOK
<1> QED
  BY <1>2, <1>3, TriggeredKept DEF SyncOK

(* One sync changes.                                                        *)
LEMMA OneSync ==
  ASSUME NEW c \in Controllers, NEW y \in Sync, sync \in [Controllers -> Sync],
         sync' = [sync EXCEPT ![c] = y],
         SyncOK(y, swf', made', spec', now'),
         \A d \in Controllers : SyncOK(sync[d], swf', made', spec', now')
  PROVE  sync' \in [Controllers -> Sync] /\ Syncs'
BY DEF Syncs

LEMMA IdleIsOK ==
  ASSUME IInv
  PROVE  IdleSync \in Sync /\ NewSwf \in Swf /\ SyncOK(IdleSync, swf, made, spec, now)
<1>1. NewSwf \in Swf
  BY DEF NewSwf, Swf, Nil
<1>2. IdleSync \in Sync
  BY <1>1 DEF IdleSync, Sync
<1>3. IdleSync.snap = NewSwf /\ IdleSync.time = 0 /\ IdleSync.pc = "idle" /\ IdleSync.submitted = FALSE
  BY DEF IdleSync
<1>4. 0 <= now
  BY SpecType DEF IInv
<1> QED
  BY <1>1, <1>2, <1>3, <1>4 DEF SyncOK, IInv, Versions

LEMMA InitIInv == Init => IInv
<1> SUFFICES ASSUME Init PROVE IInv
  OBVIOUS
<1>1. NewSwf \in Swf /\ NewSwf.index = 0 /\ NewSwf.last = Nil
  BY DEF NewSwf, Swf, Nil
<1>2. IdleSync \in Sync /\ IdleSync.snap = NewSwf /\ IdleSync.time = 0 /\ IdleSync.pc = "idle"
      /\ IdleSync.submitted = FALSE
  BY <1>1 DEF IdleSync, Sync
<1>3. now \in 1 .. MaxNow /\ 0 <= now
  BY ScheduledWorkflowAssumption DEF Init, Created
<1>4. TypeInv
  <2>1. <<>> \in Seq(Swf) /\ <<>> \in Seq(SUBSET Wf) /\ {} \in SUBSET Wf /\ {} \in SUBSET Nat
    OBVIOUS
  <2>2. IsFiniteSet(made)
    BY FS_EmptySet DEF Init
  <2> QED
    BY <1>1, <1>2, <1>3, <2>1, <2>2 DEF TypeInv, Init
<1>5. Copy(NewSwf, NewSwf, made, spec)
  <2>1. NewSwf.ver <= NewSwf.ver /\ 1 .. NewSwf.index = {}
    BY <1>1 DEF Swf
  <2> QED
    BY <1>1, <2>1 DEF Copy, Counted, OnSchedule, Started, IsDueTime
<1>6. Versions
  <2>1. \A c \in Controllers : swfWatch[c] = <<>> /\ swfCache[c] = NewSwf
    BY DEF Init
  <2>2. 1 .. Len(<<>>) = {}
    OBVIOUS
  <2> QED
    BY <1>5, <2>1, <2>2 DEF Versions, Init
<1>7. Syncs
  <2>1. SyncOK(IdleSync, swf, made, spec, now)
    BY <1>2, <1>3, <1>5 DEF SyncOK, Init
  <2> QED
    BY <2>1 DEF Syncs, Init
<1>8. Workflows /\ Made
  <2>1. \A c \in Controllers : wfWatch[c] = <<>> /\ wfCache[c] = {}
    BY DEF Init
  <2>2. 1 .. Len(<<>>) = {}
    OBVIOUS
  <2> QED
    BY <2>1, <2>2 DEF Workflows, Made, Known, Init
<1> QED
  BY <1>4, <1>6, <1>7, <1>8 DEF IInv

-----------------------------------------------------------------------------
(* The steps that write neither the resource nor a workflow *)

LEMMA TickIInv == ASSUME IInv, Tick PROVE IInv'
<1> USE DEF IInv
<1>1. /\ now' = now + 1 /\ now < MaxNow
      /\ UNCHANGED <<spec, swf, wfs, rows, swfWatch, wfWatch, swfCache, wfCache, queued, sync, made, events>>
  BY DEF Tick, caches
<1>2. now' \in 1 .. MaxNow /\ now \in Nat /\ now' \in Nat /\ now <= now'
  BY <1>1, SpecType, ScheduledWorkflowAssumption DEF TypeInv
<1>3. TypeInv'
  BY <1>1, <1>2 DEF TypeInv
<1>4. Versions' /\ Workflows'
  BY <1>1 DEF Versions, Workflows
<1>5. Syncs'
  <2>1. \A y \in Sync : SyncOK(y, swf, made, spec, now) => SyncOK(y, swf, made, spec, now')
    BY <1>2, SyncKept
  <2> QED
    BY <1>1, <2>1 DEF Syncs, TypeInv
<1>6. Made'
  <2> SUFFICES ASSUME NEW m \in made PROVE m.epoch <= now' /\ OnSchedule(spec, m.epoch, m.trigger)
    BY <1>1 DEF Made
  <2>1. m.epoch \in Nat /\ m.epoch <= now /\ OnSchedule(spec, m.epoch, m.trigger)
    BY DEF Made, TypeInv, Wf
  <2> QED
    BY <1>2, <2>1
<1> QED
  BY <1>3, <1>4, <1>5, <1>6

LEMMA DeliverSwfIInv == ASSUME IInv, NEW c \in Controllers, DeliverSwf(c) PROVE IInv'
<1> USE DEF IInv
<1> DEFINE q == swfWatch[c]
<1>1. /\ q # <<>> /\ swfCache' = [swfCache EXCEPT ![c] = Head(q)]
      /\ swfWatch' = [swfWatch EXCEPT ![c] = Tail(q)] /\ queued' = [queued EXCEPT ![c] = TRUE]
      /\ UNCHANGED <<spec, swf, wfs, rows, wfWatch, wfCache, sync, now, made, events>>
  BY DEF DeliverSwf
<1>2. q \in Seq(Swf)
  BY DEF TypeInv
<1>3. /\ Head(q) \in Swf /\ Tail(q) \in Seq(Swf)
      /\ \E j \in 1 .. Len(q) : Head(q) = q[j]
      /\ \A i \in 1 .. Len(Tail(q)) : \E j \in 1 .. Len(q) : Tail(q)[i] = q[j]
  BY <1>1, <1>2, TakeOne
<1>4. \A j \in 1 .. Len(q) : Copy(q[j], swf, made, spec)
  BY DEF Versions
<1> HIDE DEF q
<1>5. TypeInv'
  BY <1>1, <1>3 DEF TypeInv
<1>6. Versions'
  <2>1. ASSUME NEW d \in Controllers
        PROVE  /\ Copy(swfCache'[d], swf, made, spec)
               /\ \A i \in 1 .. Len(swfWatch'[d]) : Copy(swfWatch'[d][i], swf, made, spec)
    <3>1. CASE d = c
      <4>1. swfCache'[d] = Head(q) /\ swfWatch'[d] = Tail(q)
        BY <1>1, <3>1 DEF TypeInv
      <4> QED
        BY <1>3, <1>4, <4>1
    <3>2. CASE d # c
      BY <1>1, <3>2 DEF TypeInv, Versions
    <3> QED
      BY <3>1, <3>2
  <2> QED
    BY <1>1, <2>1 DEF Versions
<1> QED
  BY <1>1, <1>5, <1>6 DEF Syncs, Workflows, Made

LEMMA DeliverWorkflowIInv == ASSUME IInv, NEW c \in Controllers, DeliverWorkflow(c) PROVE IInv'
<1> USE DEF IInv
<1> DEFINE q == wfWatch[c]
<1>1. /\ q # <<>> /\ wfCache' = [wfCache EXCEPT ![c] = Head(q)]
      /\ wfWatch' = [wfWatch EXCEPT ![c] = Tail(q)] /\ queued' = [queued EXCEPT ![c] = TRUE]
      /\ UNCHANGED <<spec, swf, wfs, rows, swfWatch, swfCache, sync, now, made, events>>
  BY DEF DeliverWorkflow
<1>2. q \in Seq(SUBSET Wf)
  BY DEF TypeInv
<1>3. /\ Head(q) \in SUBSET Wf /\ Tail(q) \in Seq(SUBSET Wf)
      /\ \E j \in 1 .. Len(q) : Head(q) = q[j]
      /\ \A i \in 1 .. Len(Tail(q)) : \E j \in 1 .. Len(q) : Tail(q)[i] = q[j]
  BY <1>1, <1>2, TakeOne
<1>4. \A j \in 1 .. Len(q) : Known(q[j], made)
  BY DEF Workflows
<1> HIDE DEF q
<1>5. TypeInv'
  BY <1>1, <1>3 DEF TypeInv
<1>6. Workflows'
  <2>1. ASSUME NEW d \in Controllers
        PROVE  /\ Known(wfCache'[d], made)
               /\ \A i \in 1 .. Len(wfWatch'[d]) : Known(wfWatch'[d][i], made)
    <3>1. CASE d = c
      <4>1. wfCache'[d] = Head(q) /\ wfWatch'[d] = Tail(q)
        BY <1>1, <3>1 DEF TypeInv
      <4> QED
        BY <1>3, <1>4, <4>1
    <3>2. CASE d # c
      BY <1>1, <3>2 DEF TypeInv, Workflows
    <3> QED
      BY <3>1, <3>2
  <2> QED
    BY <1>1, <2>1 DEF Workflows
<1> QED
  BY <1>1, <1>5, <1>6 DEF Versions, Syncs, Made

LEMMA ResyncIInv == ASSUME IInv, NEW c \in Controllers, Resync(c) PROVE IInv'
<1> USE DEF IInv
<1>1. /\ queued' = [queued EXCEPT ![c] = TRUE]
      /\ UNCHANGED <<spec, swf, wfs, rows, swfWatch, wfWatch, swfCache, wfCache, sync, now, made, events>>
  BY DEF Resync, caches
<1>2. TypeInv'
  BY <1>1 DEF TypeInv
<1> QED
  BY <1>1, <1>2 DEF Versions, Syncs, Workflows, Made

LEMMA RestartIInv == ASSUME IInv, NEW c \in Controllers, Restart(c) PROVE IInv'
<1> USE DEF IInv
<1>1. /\ swfCache' = [swfCache EXCEPT ![c] = swf] /\ wfCache' = [wfCache EXCEPT ![c] = wfs]
      /\ swfWatch' = [swfWatch EXCEPT ![c] = <<>>] /\ wfWatch' = [wfWatch EXCEPT ![c] = <<>>]
      /\ queued' = [queued EXCEPT ![c] = TRUE] /\ sync' = [sync EXCEPT ![c] = IdleSync]
      /\ events' = events + 1
      /\ UNCHANGED <<spec, swf, wfs, rows, now, made>>
  BY DEF Restart, Event
<1>2. sync' \in [Controllers -> Sync] /\ Syncs'
  BY <1>1, IdleIsOK, OneSync DEF TypeInv, Syncs
<1>3. <<>> \in Seq(Swf) /\ <<>> \in Seq(SUBSET Wf) /\ 1 .. Len(<<>>) = {}
  OBVIOUS
<1>4. TypeInv'
  BY <1>1, <1>2, <1>3 DEF TypeInv
<1>5. Versions'
  BY <1>1, <1>3 DEF TypeInv, Versions
<1>6. Workflows'
  BY <1>1, <1>3 DEF TypeInv, Workflows
<1> QED
  BY <1>1, <1>2, <1>4, <1>5, <1>6 DEF Made

(* A sync ends.                                                             *)
LEMMA DoneSyncs ==
  ASSUME IInv, NEW c \in Controllers, NEW again \in BOOLEAN, Done(c, again),
         UNCHANGED <<swf, made, spec, now>>
  PROVE  sync' \in [Controllers -> Sync] /\ Syncs' /\ queued' \in [Controllers -> BOOLEAN]
<1>1. sync' = [sync EXCEPT ![c] = IdleSync] /\ queued' = [queued EXCEPT ![c] = @ \/ again]
  BY DEF Done
<1>2. sync' \in [Controllers -> Sync] /\ Syncs'
  BY <1>1, IdleIsOK, OneSync DEF IInv, TypeInv, Syncs
<1>3. queued' \in [Controllers -> BOOLEAN]
  BY <1>1 DEF IInv, TypeInv
<1> QED
  BY <1>2, <1>3

LEMMA SyncFailsIInv == ASSUME IInv, NEW c \in Controllers, SyncFails(c) PROVE IInv'
<1> USE DEF IInv
<1>1. /\ Done(c, TRUE) /\ events' = events + 1
      /\ UNCHANGED <<spec, swf, wfs, rows, swfWatch, wfWatch, swfCache, wfCache, now, made>>
  BY DEF SyncFails, Event, caches
<1>2. sync' \in [Controllers -> Sync] /\ Syncs' /\ queued' \in [Controllers -> BOOLEAN]
  BY <1>1, DoneSyncs
<1>3. TypeInv'
  BY <1>1, <1>2 DEF TypeInv
<1> QED
  BY <1>1, <1>2, <1>3 DEF Versions, Workflows, Made
-----------------------------------------------------------------------------
(* The sync: what it reads and decides *)

LEMMA StartSyncIInv == ASSUME IInv, NEW c \in Controllers, StartSync(c) PROVE IInv'
<1> USE DEF IInv
<1> DEFINE y == [pc |-> "list", snap |-> swfCache[c], time |-> now,
                 active |-> {w \in wfCache[c] : ~w.done},
                 completed |-> {}, next |-> 0, submitted |-> FALSE]
<1>1. /\ queued' = [queued EXCEPT ![c] = FALSE] /\ sync' = [sync EXCEPT ![c] = y]
      /\ UNCHANGED <<spec, swf, wfs, rows, swfWatch, wfWatch, swfCache, wfCache, now, made, events>>
  BY DEF StartSync, caches
<1>2. y \in Sync
  <2>1. swfCache[c] \in Swf /\ {w \in wfCache[c] : ~w.done} \in SUBSET Wf
    BY DEF TypeInv
  <2>2. now \in Nat
    BY SpecType
  <2> QED
    BY <2>1, <2>2 DEF Sync
<1>3. SyncOK(y, swf, made, spec, now)
  <2>1. now <= now
    BY SpecType
  <2> QED
    BY <2>1 DEF SyncOK, Versions
<1> HIDE DEF y
<1>4. sync' \in [Controllers -> Sync] /\ Syncs'
  BY <1>1, <1>2, <1>3, OneSync DEF TypeInv, Syncs
<1>5. TypeInv'
  BY <1>1, <1>4 DEF TypeInv
<1> QED
  BY <1>1, <1>4, <1>5 DEF Versions, Workflows, Made

(* The decision that a workflow is due rests on the schedule alone.         *)
LEMMA ListCompletedIInv == ASSUME IInv, NEW c \in Controllers, ListCompleted(c) PROVE IInv'
<1> USE DEF IInv
<1> DEFINE x == sync[c]
           next == NextScheduledEpoch(spec.sched, spec.noCatchup, x.snap.last, Created, x.time)
           done == {w \in wfCache[c] : w.done /\ w.label > MinIndex(x.snap)}
           pc2 == CASE ~ShouldRunNow(x, next) -> "status"
                    [] ShouldRunNow(x, next) /\ spec.pinned -> "submit"
                    [] OTHER -> "check"
           y == [x EXCEPT !.completed = done, !.next = next, !.pc = pc2]
<1>1. /\ x.pc = "list"
      /\ UNCHANGED <<spec, swf, wfs, rows, swfWatch, wfWatch, swfCache, wfCache, queued, now, made, events>>
  BY DEF ListCompleted, At, caches
<1>2. x \in Sync /\ x.snap \in Swf /\ x.snap.last \in Nat /\ x.snap.index \in Nat /\ x.time \in Nat
  BY DEF TypeInv, Sync, Swf
<1>3. sync' = [sync EXCEPT ![c] = y]
  BY DEF ListCompleted, TypeInv
<1>4. SyncOK(x, swf, made, spec, now)
  BY DEF Syncs
<1>5. /\ next \in Nat
      /\ next <= x.time => next > x.snap.last /\ OnSchedule(spec, next, x.snap.index + 1)
  <2>1. /\ spec.sched \in Schedule /\ spec.noCatchup \in BOOLEAN /\ Created \in Nat \ {0}
        /\ x.time < Never /\ x.time \in 0 .. MaxNow /\ MaxNow \in Nat /\ MaxNow < Never
    BY <1>2, <1>4, SpecType, NeverAssumption DEF SyncOK
  <2>2. OnSchedule(spec, x.snap.last, x.snap.index)
    BY <1>4 DEF SyncOK, Copy
  <2>3. next \in Nat /\ (next <= x.time => next > x.snap.last /\ Started(spec.sched, next))
    BY <1>2, <2>1, <2>2, NextIsLater DEF OnSchedule
  <2>4. ~spec.noCatchup /\ next <= x.time =>
          IsDueTime(spec.sched, Created, MaxNow, next, x.snap.index + 1)
    <3> SUFFICES ASSUME ~spec.noCatchup, next <= x.time
                 PROVE  IsDueTime(spec.sched, Created, MaxNow, next, x.snap.index + 1)
      OBVIOUS
    <3>1. spec.noCatchup = FALSE
      BY <2>1
    <3>2. next = NextScheduledEpoch(spec.sched, FALSE, x.snap.last, Created, x.time)
      BY <3>1
    <3> QED
      BY <1>2, <2>1, <2>2, <3>2, NextIsDue DEF OnSchedule
  <2> QED
    BY <2>3, <2>4 DEF OnSchedule
<1>6. pc2 \in {"status", "submit", "check"} /\ (pc2 # "status" => next <= x.time)
  BY DEF ShouldRunNow
<1>7. done \in SUBSET Wf
  BY DEF TypeInv
<1> HIDE DEF next, done, pc2
<1>8. y \in Sync /\ y.snap = x.snap /\ y.time = x.time /\ y.next = next /\ y.pc = pc2
      /\ y.submitted = x.submitted
  BY <1>2, <1>5, <1>6, <1>7 DEF Sync
<1>9. SyncOK(y, swf, made, spec, now)
  <2>1. ~x.submitted
    BY <1>1, <1>4 DEF SyncOK
  <2> QED
    BY <1>4, <1>5, <1>6, <1>8, <2>1 DEF SyncOK, HasCome
<1> HIDE DEF y
<1>10. sync' \in [Controllers -> Sync] /\ Syncs'
  BY <1>1, <1>3, <1>8, <1>9, OneSync DEF TypeInv, Syncs
<1>11. TypeInv'
  BY <1>1, <1>10 DEF TypeInv
<1> QED
  BY <1>1, <1>10, <1>11 DEF Versions, Workflows, Made

(* A sync whose trigger has come and whose workflow exists goes on to the   *)
(* status update.                                                           *)
LEMMA SubmittedSyncs ==
  ASSUME IInv, NEW c \in Controllers, Submitted(c), UNCHANGED <<swf, spec, now>>,
         made \subseteq made', sync[c].pc \in {"submit", "check", "insert"},
         Triggered(NextIndex(sync[c].snap), made')
  PROVE  sync' \in [Controllers -> Sync] /\ Syncs'
<1> DEFINE x == sync[c]
           y == [x EXCEPT !.pc = "status", !.submitted = TRUE]
<1>1. x \in Sync /\ now \in Nat
  BY SpecType DEF IInv, TypeInv
<1>2. sync' = [sync EXCEPT ![c] = y]
  BY DEF Submitted, IInv, TypeInv
<1>3. y \in Sync /\ y.pc = "status" /\ y.submitted /\ y.snap = x.snap /\ y.time = x.time /\ y.next = x.next
  BY <1>1 DEF Sync
<1>4. \A d \in Controllers : SyncOK(sync[d], swf, made', spec, now)
  <2>1. \A z \in Sync : SyncOK(z, swf, made, spec, now) => SyncOK(z, swf, made', spec, now)
    BY <1>1, SyncKept
  <2> QED
    BY <2>1 DEF Syncs, IInv, TypeInv
<1>5. SyncOK(y, swf, made', spec, now)
  <2>1. SyncOK(x, swf, made', spec, now) /\ HasCome(x, spec)
    BY <1>4 DEF SyncOK
  <2> QED
    BY <1>3, <2>1 DEF SyncOK, HasCome, NextIndex
<1> HIDE DEF y
<1> QED
  BY <1>2, <1>3, <1>4, <1>5, OneSync DEF IInv, TypeInv

LEMMA CheckRunIInv == ASSUME IInv, NEW c \in Controllers, CheckRun(c) PROVE IInv'
<1> USE DEF IInv
<1>1. /\ sync[c].pc = "check"
      /\ UNCHANGED <<spec, swf, wfs, rows, swfWatch, wfWatch, swfCache, wfCache, queued, now, made, events>>
  BY DEF CheckRun, At, caches
<1>2. sync' \in [Controllers -> Sync] /\ Syncs'
  <2>1. CASE NextIndex(sync[c].snap) \in rows
    <3>1. Submitted(c) /\ Triggered(NextIndex(sync[c].snap), made')
      BY <1>1, <2>1 DEF CheckRun, Workflows
    <3> QED
      BY <1>1, <3>1, SubmittedSyncs
  <2>2. CASE NextIndex(sync[c].snap) \notin rows
    <3> DEFINE x == sync[c]
               y == [x EXCEPT !.pc = "create"]
    <3>1. x \in Sync /\ SyncOK(x, swf, made, spec, now)
      BY DEF TypeInv, Syncs
    <3>2. sync' = [sync EXCEPT ![c] = y]
      BY <2>2 DEF CheckRun, TypeInv
    <3>3. y \in Sync /\ y.pc = "create" /\ y.submitted = x.submitted /\ y.snap = x.snap
          /\ y.time = x.time /\ y.next = x.next
      BY <3>1 DEF Sync
    <3>4. SyncOK(y, swf, made, spec, now)
      BY <1>1, <3>1, <3>3 DEF SyncOK, HasCome
    <3> HIDE DEF y
    <3> QED
      BY <1>1, <3>2, <3>3, <3>4, OneSync DEF TypeInv, Syncs
  <2> QED
    BY <2>1, <2>2
<1>3. TypeInv'
  BY <1>1, <1>2 DEF TypeInv
<1> QED
  BY <1>1, <1>2, <1>3 DEF Versions, Workflows, Made

LEMMA InsertRunIInv == ASSUME IInv, NEW c \in Controllers, InsertRun(c) PROVE IInv'
<1> USE DEF IInv
<1>1. /\ sync[c].pc = "insert" /\ Submitted(c) /\ rows' = rows \cup {NextIndex(sync[c].snap)}
      /\ UNCHANGED <<spec, swf, wfs, swfWatch, wfWatch, swfCache, wfCache, queued, now, made, events>>
  BY DEF InsertRun, At, caches
<1>2. Triggered(NextIndex(sync[c].snap), made) /\ NextIndex(sync[c].snap) \in Nat
  BY <1>1 DEF Syncs, SyncOK, NextIndex, TypeInv, Sync, Swf
<1>3. sync' \in [Controllers -> Sync] /\ Syncs'
  BY <1>1, <1>2, SubmittedSyncs
<1>4. TypeInv'
  BY <1>1, <1>2, <1>3 DEF TypeInv
<1>5. Workflows'
  BY <1>1, <1>2 DEF Workflows
<1> QED
  BY <1>1, <1>3, <1>4, <1>5 DEF Versions, Made

-----------------------------------------------------------------------------
(* The steps that write the workflows *)

(* A set of workflows that were created is written.                         *)
LEMMA PutWorkflowsKeeps ==
  ASSUME IInv, NEW W \in SUBSET Wf, PutWorkflows(W), made \subseteq made', Known(W, made'),
         UNCHANGED wfCache, \A r \in rows' : Triggered(r, made')
  PROVE  /\ wfs' \in SUBSET Wf /\ wfWatch' \in [Controllers -> Seq(SUBSET Wf)]
         /\ Workflows'
<1>1. wfs' = W /\ wfWatch' = [c \in Controllers |-> Append(wfWatch[c], W)]
  BY DEF PutWorkflows
<1>2. ASSUME NEW c \in Controllers
      PROVE  /\ wfWatch'[c] \in Seq(SUBSET Wf)
             /\ \A i \in 1 .. Len(wfWatch'[c]) : Known(wfWatch'[c][i], made')
             /\ Known(wfCache'[c], made')
  <2>1. wfWatch[c] \in Seq(SUBSET Wf) /\ wfWatch'[c] = Append(wfWatch[c], W)
    BY <1>1 DEF IInv, TypeInv
  <2>2. /\ Append(wfWatch[c], W) \in Seq(SUBSET Wf)
        /\ \A i \in 1 .. Len(Append(wfWatch[c], W)) :
             \/ Append(wfWatch[c], W)[i] = W
             \/ \E j \in 1 .. Len(wfWatch[c]) : Append(wfWatch[c], W)[i] = wfWatch[c][j]
    BY <2>1, AppendOne
  <2>3. \A j \in 1 .. Len(wfWatch[c]) : Known(wfWatch[c][j], made')
    BY TriggeredKept DEF IInv, Workflows
  <2>4. Known(wfCache[c], made')
    BY TriggeredKept DEF IInv, Workflows
  <2> QED
    BY <2>1, <2>2, <2>3, <2>4
<1>3. wfWatch' \in [Controllers -> Seq(SUBSET Wf)]
  BY <1>1, <1>2
<1> QED
  BY <1>1, <1>2, <1>3 DEF Workflows

LEMMA ClusterIInv == ASSUME IInv, Finish \/ DeleteRun \/ CollectWorkflow PROVE IInv'
<1> USE DEF IInv
<1>1. /\ rows' \subseteq rows /\ events' \in Nat
      /\ UNCHANGED <<spec, swf, swfWatch, swfCache, wfCache, queued, sync, now, made>>
  <2>1. CASE Finish
    BY <2>1 DEF Finish, TypeInv
  <2>2. CASE DeleteRun
    BY <2>2 DEF DeleteRun, Event, TypeInv
  <2>3. CASE CollectWorkflow
    BY <2>3 DEF CollectWorkflow, Event, TypeInv
  <2> QED
    BY <2>1, <2>2, <2>3
<1>2. PICK W \in SUBSET Wf : PutWorkflows(W) /\ Known(W, made)
  <2>1. CASE Finish
    <3>1. PICK w \in wfs : PutWorkflows((wfs \ {w}) \cup {[w EXCEPT !.done = TRUE]})
      BY <2>1 DEF Finish
    <3>2. w \in Wf /\ [w EXCEPT !.done = TRUE] \in Wf /\ [w EXCEPT !.done = TRUE].trigger = w.trigger
      BY DEF TypeInv, Wf
    <3>3. Known((wfs \ {w}) \cup {[w EXCEPT !.done = TRUE]}, made)
      BY <3>2 DEF Known, Workflows
    <3> QED
      BY <3>1, <3>2, <3>3 DEF TypeInv
  <2>2. CASE DeleteRun \/ CollectWorkflow
    <3>1. PICK w \in wfs : PutWorkflows(wfs \ {w})
      BY <2>2 DEF DeleteRun, CollectWorkflow
    <3> QED
      BY <3>1 DEF TypeInv, Known, Workflows
  <2> QED
    BY <2>1, <2>2
<1>3. wfs' \in SUBSET Wf /\ wfWatch' \in [Controllers -> Seq(SUBSET Wf)] /\ Workflows'
  <2>1. \A r \in rows' : Triggered(r, made')
    BY <1>1 DEF Workflows
  <2> QED
    BY <1>1, <1>2, <2>1, PutWorkflowsKeeps
<1>4. TypeInv'
  BY <1>1, <1>3 DEF TypeInv
<1> QED
  BY <1>1, <1>3, <1>4 DEF Versions, Syncs, Made

(* A workflow is started for a trigger that has come.                       *)
LEMMA StartWorkflowKeeps ==
  ASSUME IInv, NEW y \in Sync, HasCome(y, spec), y.time <= now, NEW label \in Nat,
         StartWorkflow(NextIndex(y.snap), label, y.next), UNCHANGED <<spec, swf, rows, wfCache, swfCache, swfWatch, now>>
  PROVE  /\ wfs' \in SUBSET Wf /\ wfWatch' \in [Controllers -> Seq(SUBSET Wf)] /\ Workflows'
         /\ made' \in SUBSET Wf /\ IsFiniteSet(made') /\ made \subseteq made' /\ Made'
         /\ Triggered(NextIndex(y.snap), made') /\ Versions'
<1> USE DEF IInv
<1> DEFINE w == [id |-> Cardinality(made) + 1, trigger |-> NextIndex(y.snap), label |-> label,
                 epoch |-> y.next, done |-> FALSE]
<1>1. made' = made \cup {w} /\ PutWorkflows(wfs \cup {w})
  BY DEF StartWorkflow
<1>2. w \in Wf /\ w.trigger = NextIndex(y.snap) /\ w.epoch = y.next
  <2>1. Cardinality(made) \in Nat
    BY FS_CardinalityType DEF TypeInv
  <2>2. y.snap.index \in Nat /\ y.next \in Nat
    BY DEF Sync, Swf
  <2> QED
    BY <2>1, <2>2 DEF Wf, NextIndex
<1> HIDE DEF w
<1>3. made' \in SUBSET Wf /\ IsFiniteSet(made') /\ made \subseteq made'
  BY <1>1, <1>2, FS_AddElement DEF TypeInv
<1>4. Triggered(NextIndex(y.snap), made')
  BY <1>1, <1>2 DEF Triggered
<1>5. Known(wfs \cup {w}, made') /\ (\A r \in rows' : Triggered(r, made')) /\ wfs \cup {w} \in SUBSET Wf
  <2>1. Known(wfs, made') /\ \A r \in rows : Triggered(r, made')
    BY <1>3, TriggeredKept DEF Workflows
  <2> QED
    BY <1>2, <1>4, <2>1 DEF Known, TypeInv
<1>6. wfs' \in SUBSET Wf /\ wfWatch' \in [Controllers -> Seq(SUBSET Wf)] /\ Workflows'
  BY <1>1, <1>3, <1>5, PutWorkflowsKeeps
<1>7. Made'
  <2>1. w.epoch <= now /\ OnSchedule(spec, w.epoch, w.trigger)
    <3>1. y.next \in Nat /\ y.time \in Nat /\ now \in Nat
      BY SpecType DEF Sync
    <3> QED
      BY <1>2, <3>1 DEF HasCome, NextIndex
  <2> QED
    BY <1>1, <2>1 DEF Made
<1>8. Versions'
  <2>1. \A s : Copy(s, swf, made, spec) => Copy(s, swf, made', spec)
    BY <1>3, CopyKept
  <2> QED
    BY <2>1 DEF Versions
<1> QED
  BY <1>3, <1>4, <1>6, <1>7, <1>8

LEMMA SubmitPinnedIInv == ASSUME IInv, NEW c \in Controllers, SubmitPinned(c) PROVE IInv'
<1> USE DEF IInv
<1> DEFINE i == NextIndex(sync[c].snap)
           cached == \E w \in wfCache[c] : w.trigger = i
           taken == \E w \in wfs : w.trigger = i
<1>1. /\ sync[c].pc = "submit" /\ sync[c] \in Sync
      /\ UNCHANGED <<spec, swf, rows, swfWatch, swfCache, wfCache, now, events>>
  BY DEF SubmitPinned, At, TypeInv
<1>2. HasCome(sync[c], spec) /\ sync[c].time <= now
  BY <1>1 DEF Syncs, SyncOK
<1>3. CASE cached
  <2>1. Submitted(c) /\ UNCHANGED <<wfs, wfWatch, made, queued>>
    BY <1>3 DEF SubmitPinned
  <2>2. Triggered(i, made)
    BY <1>3 DEF Workflows, Known
  <2>3. sync' \in [Controllers -> Sync] /\ Syncs'
    BY <1>1, <2>1, <2>2, SubmittedSyncs
  <2>4. TypeInv'
    BY <1>1, <2>1, <2>3 DEF TypeInv
  <2> QED
    BY <1>1, <2>1, <2>3, <2>4 DEF Versions, Workflows, Made
<1>4. CASE ~cached /\ taken
  <2>1. Done(c, TRUE) /\ UNCHANGED <<wfs, wfWatch, made>>
    BY <1>4 DEF SubmitPinned
  <2>2. sync' \in [Controllers -> Sync] /\ Syncs' /\ queued' \in [Controllers -> BOOLEAN]
    BY <1>1, <2>1, DoneSyncs
  <2>3. TypeInv'
    BY <1>1, <2>1, <2>2 DEF TypeInv
  <2> QED
    BY <1>1, <2>1, <2>2, <2>3 DEF Versions, Workflows, Made
<1>5. CASE ~cached /\ ~taken
  <2>1. StartWorkflow(i, i, sync[c].next) /\ Submitted(c) /\ UNCHANGED queued
    BY <1>5 DEF SubmitPinned
  <2>2. i \in Nat
    BY <1>1 DEF NextIndex, Sync, Swf
  <2>3. /\ wfs' \in SUBSET Wf /\ wfWatch' \in [Controllers -> Seq(SUBSET Wf)] /\ Workflows'
        /\ made' \in SUBSET Wf /\ IsFiniteSet(made') /\ made \subseteq made' /\ Made'
        /\ Triggered(i, made') /\ Versions'
    BY <1>1, <1>2, <2>1, <2>2, StartWorkflowKeeps
  <2>4. sync' \in [Controllers -> Sync] /\ Syncs'
    BY <1>1, <2>1, <2>3, SubmittedSyncs
  <2>5. TypeInv'
    BY <1>1, <2>1, <2>3, <2>4 DEF TypeInv
  <2> QED
    BY <2>3, <2>4, <2>5
<1> QED
  BY <1>3, <1>4, <1>5

LEMMA CreateWorkflowIInv == ASSUME IInv, NEW c \in Controllers, CreateWorkflow(c) PROVE IInv'
<1> USE DEF IInv
<1> DEFINE x == sync[c]
           y == [x EXCEPT !.pc = "insert"]
<1>1. /\ x.pc = "create" /\ x \in Sync /\ StartWorkflow(NextIndex(x.snap), NextIndex(swf), x.next)
      /\ UNCHANGED <<spec, swf, rows, swfWatch, swfCache, wfCache, queued, now, events>>
  BY DEF CreateWorkflow, At, TypeInv
<1>2. HasCome(x, spec) /\ x.time <= now
  BY <1>1 DEF Syncs, SyncOK
<1>3. NextIndex(swf) \in Nat
  BY DEF NextIndex, TypeInv, Swf
<1>4. /\ wfs' \in SUBSET Wf /\ wfWatch' \in [Controllers -> Seq(SUBSET Wf)] /\ Workflows'
      /\ made' \in SUBSET Wf /\ IsFiniteSet(made') /\ made \subseteq made' /\ Made'
      /\ Triggered(NextIndex(x.snap), made') /\ Versions'
  BY <1>1, <1>2, <1>3, StartWorkflowKeeps
<1>5. sync' = [sync EXCEPT ![c] = y]
  BY DEF CreateWorkflow, TypeInv
<1>6. y \in Sync /\ y.pc = "insert" /\ y.submitted = x.submitted /\ y.snap = x.snap
      /\ y.time = x.time /\ y.next = x.next
  BY <1>1 DEF Sync
<1>7. \A d \in Controllers : SyncOK(sync[d], swf, made', spec, now)
  <2>1. now \in Nat /\ now <= now
    BY SpecType
  <2>2. \A z \in Sync : SyncOK(z, swf, made, spec, now) => SyncOK(z, swf, made', spec, now)
    BY <1>4, <2>1, SyncKept
  <2> QED
    BY <2>2 DEF Syncs, TypeInv
<1>8. SyncOK(y, swf, made', spec, now)
  <2>1. SyncOK(x, swf, made', spec, now)
    BY <1>7
  <2> QED
    BY <1>1, <1>2, <1>4, <1>6, <2>1 DEF SyncOK, HasCome, NextIndex
<1> HIDE DEF y
<1>9. sync' \in [Controllers -> Sync] /\ Syncs'
  BY <1>1, <1>5, <1>6, <1>7, <1>8, OneSync DEF TypeInv
<1>10. TypeInv'
  BY <1>1, <1>4, <1>9 DEF TypeInv
<1> QED
  BY <1>4, <1>9, <1>10
-----------------------------------------------------------------------------
(* The steps that write the resource *)

(* A new version that counts and times its triggers rightly leaves every    *)
(* copy a copy.                                                             *)
LEMMA PutSwfKeeps ==
  ASSUME IInv, NEW s \in Swf, PutSwf(s), Counted(s, made), OnSchedule(spec, s.last, s.index),
         UNCHANGED <<spec, made, swfCache>>
  PROVE  /\ swf' \in Swf /\ swfWatch' \in [Controllers -> Seq(Swf)] /\ Versions'
         /\ swf'.index = s.index /\ swf'.last = s.last
         /\ \A z \in Swf : Copy(z, swf, made, spec) => Copy(z, swf', made, spec)
<1> USE DEF IInv
<1>1. swf' = [s EXCEPT !.ver = swf.ver + 1] /\ swfWatch' = [c \in Controllers |-> Append(swfWatch[c], swf')]
  BY DEF PutSwf
<1>2. swf.ver \in Nat /\ swf.ver + 1 \in Nat
  BY DEF TypeInv, Swf
<1>3. swf' \in Swf /\ swf'.index = s.index /\ swf'.last = s.last /\ swf'.ver = swf.ver + 1
  BY <1>1, <1>2 DEF Swf
<1>4. Copy(swf', swf', made, spec)
  BY <1>2, <1>3 DEF Copy, Counted
<1>5. ASSUME NEW z \in Swf, Copy(z, swf, made, spec) PROVE Copy(z, swf', made, spec)
  <2>1. z.ver \in Nat /\ z.ver <= swf.ver
    BY <1>5 DEF Swf, Copy
  <2>2. z.ver <= swf'.ver /\ z.ver # swf'.ver
    BY <1>2, <1>3, <2>1
  <2> QED
    BY <1>5, <2>2 DEF Copy
<1>6. ASSUME NEW c \in Controllers
      PROVE  /\ swfWatch'[c] \in Seq(Swf)
             /\ \A i \in 1 .. Len(swfWatch'[c]) : Copy(swfWatch'[c][i], swf', made, spec)
             /\ Copy(swfCache[c], swf', made, spec)
  <2>1. swfWatch[c] \in Seq(Swf) /\ swfWatch'[c] = Append(swfWatch[c], swf') /\ swfCache[c] \in Swf
    BY <1>1 DEF TypeInv
  <2>2. /\ Append(swfWatch[c], swf') \in Seq(Swf)
        /\ \A i \in 1 .. Len(Append(swfWatch[c], swf')) :
             \/ Append(swfWatch[c], swf')[i] = swf'
             \/ \E j \in 1 .. Len(swfWatch[c]) : Append(swfWatch[c], swf')[i] = swfWatch[c][j]
    BY <1>3, <2>1, AppendOne
  <2>3. \A j \in 1 .. Len(swfWatch[c]) : Copy(swfWatch[c][j], swf', made, spec)
    <3>1. \A j \in 1 .. Len(swfWatch[c]) : swfWatch[c][j] \in Swf
      BY <2>1
    <3> QED
      BY <1>5, <3>1 DEF Versions
  <2>4. Copy(swfCache[c], swf', made, spec)
    BY <1>5, <2>1 DEF Versions
  <2> QED
    BY <1>4, <2>1, <2>2, <2>3, <2>4
<1>7. swfWatch' \in [Controllers -> Seq(Swf)]
  BY <1>1, <1>6
<1>8. Copy(NewSwf, swf', made, spec)
  BY <1>5, IdleIsOK DEF Versions
<1>9. Versions'
  BY <1>4, <1>6, <1>8 DEF Versions
<1> QED
  BY <1>3, <1>5, <1>7, <1>9

LEMMA ChangeModeIInv ==
  ASSUME IInv, ChangeMode
  PROVE  IInv' /\ swf'.index = swf.index /\ swf'.last = swf.last
<1> USE DEF IInv
<1> DEFINE s == [swf EXCEPT !.enabled = ~swf.enabled]
<1>1. /\ PutSwf(s) /\ events' = events + 1
      /\ UNCHANGED <<spec, wfs, rows, wfWatch, swfCache, wfCache, queued, sync, now, made>>
  BY DEF ChangeMode, Event
<1>2. s \in Swf /\ s.index = swf.index /\ s.last = swf.last
  BY DEF TypeInv, Swf
<1>3. Counted(s, made) /\ OnSchedule(spec, s.last, s.index)
  BY <1>2 DEF Versions, Copy, Counted
<1> HIDE DEF s
<1>4. /\ swf' \in Swf /\ swfWatch' \in [Controllers -> Seq(Swf)] /\ Versions'
      /\ swf'.index = s.index /\ swf'.last = s.last
      /\ \A z \in Swf : Copy(z, swf, made, spec) => Copy(z, swf', made, spec)
  BY <1>1, <1>2, <1>3, PutSwfKeeps
<1>5. TypeInv'
  BY <1>1, <1>4 DEF TypeInv
<1>6. Syncs'
  <2>1. \A c \in Controllers : sync[c].snap \in Swf
    BY DEF TypeInv, Sync
  <2> QED
    BY <1>1, <1>4, <2>1 DEF Syncs, SyncOK
<1> QED
  BY <1>1, <1>2, <1>4, <1>5, <1>6 DEF Workflows, Made

(* The record moves by one trigger at a time, to a later time.              *)
Forward(s, t) ==
  IF t.index = s.index THEN t.last = s.last ELSE t.index = s.index + 1 /\ t.last > s.last

(* What updateStatus would write.                                           *)
LEMMA Updated ==
  ASSUME IInv, NEW c \in Controllers, sync[c].pc = "status"
  PROVE  LET new == UpdatedSwf(sync[c])
         IN /\ new \in Swf /\ Counted(new, made) /\ OnSchedule(spec, new.last, new.index)
            /\ Forward(sync[c].snap, new)
<1> USE DEF IInv
<1> DEFINE y == sync[c]
           cond == ConditionOf(y.snap, y.active)
           index == IF y.submitted THEN y.snap.index + 1 ELSE y.snap.index
           last == IF y.submitted THEN y.next ELSE y.snap.last
           new == UpdatedSwf(y)
<1>1. y \in Sync /\ y.snap \in Swf /\ y.snap.index \in Nat /\ y.snap.last \in Nat /\ y.next \in Nat
      /\ y.active \in SUBSET Wf /\ y.completed \in SUBSET Wf /\ y.snap.enabled \in BOOLEAN
  BY DEF TypeInv, Sync, Swf
<1>2. SyncOK(y, swf, made, spec, now)
  BY DEF Syncs
<1>3. cond \in {"none", "Enabled", "Disabled", "Succeeded", "Running"} \X BOOLEAN
  BY <1>1 DEF ConditionOf
<1>4. new = [y.snap EXCEPT !.cond = cond, !.active = y.active, !.completed = y.completed,
                           !.index = index, !.last = last]
  BY <1>1 DEF UpdatedSwf, NextIndex, Swf
<1>5. index \in Nat /\ last \in Nat
  BY <1>1
<1>6. OnSchedule(spec, last, index)
  BY <1>2 DEF SyncOK, HasCome, Copy
<1>7. \A i \in 1 .. index : Triggered(i, made)
  <2>1. \A i \in 1 .. y.snap.index : Triggered(i, made)
    BY <1>2 DEF SyncOK, Copy, Counted
  <2>2. y.submitted => Triggered(y.snap.index + 1, made)
    BY <1>2 DEF SyncOK
  <2> QED
    BY <1>1, <2>1, <2>2
<1>8. IF index = y.snap.index THEN last = y.snap.last ELSE index = y.snap.index + 1 /\ last > y.snap.last
  BY <1>1, <1>2 DEF SyncOK, HasCome
<1> HIDE DEF y, cond, index, last, new
<1>9. new \in Swf /\ new.index = index /\ new.last = last
  BY <1>1, <1>3, <1>4, <1>5 DEF Swf
<1>10. Counted(new, made) /\ OnSchedule(spec, new.last, new.index) /\ Forward(y.snap, new)
  BY <1>6, <1>7, <1>8, <1>9 DEF Counted, Forward
<1> QED
  BY <1>9, <1>10 DEF new, y

LEMMA UpdateStatusIInv ==
  ASSUME IInv, NEW c \in Controllers, UpdateStatus(c)
  PROVE  IInv' /\ Forward(swf, swf')
<1> USE DEF IInv
<1> DEFINE y == sync[c]
           new == UpdatedSwf(y)
<1>1. y.pc = "status" /\ UNCHANGED <<spec, wfs, rows, wfWatch, swfCache, wfCache, now, made, events>>
  BY DEF UpdateStatus, At
<1>2. y.submitted \in BOOLEAN /\ y.snap \in Swf
  BY DEF TypeInv, Sync
<1>3. CASE PutSwf(new) /\ Done(c, y.submitted) /\ swf.ver = y.snap.ver
  <2>1. new \in Swf /\ Counted(new, made) /\ OnSchedule(spec, new.last, new.index) /\ Forward(y.snap, new)
    BY <1>1, Updated
  <2>2. y.snap = swf
    BY <1>3 DEF Syncs, SyncOK, Copy
  <2> HIDE DEF new
  <2>3. /\ swf' \in Swf /\ swfWatch' \in [Controllers -> Seq(Swf)] /\ Versions'
        /\ swf'.index = new.index /\ swf'.last = new.last
        /\ \A z \in Swf : Copy(z, swf, made, spec) => Copy(z, swf', made, spec)
    BY <1>1, <1>3, <2>1, PutSwfKeeps
  <2>4. \A z \in Sync : SyncOK(z, swf, made, spec, now) => SyncOK(z, swf', made, spec, now)
    <3>1. \A z \in Sync : z.snap \in Swf
      BY DEF Sync
    <3> QED
      BY <2>3, <3>1 DEF SyncOK
  <2>5. sync' \in [Controllers -> Sync] /\ Syncs'
    <3>1. sync' = [sync EXCEPT ![c] = IdleSync]
      BY <1>3 DEF Done
    <3> QED
      BY <1>1, <2>4, <3>1, IdleIsOK, OneSync DEF TypeInv, Syncs
  <2>6. queued' \in [Controllers -> BOOLEAN]
    BY <1>2, <1>3 DEF Done, TypeInv
  <2>7. TypeInv'
    BY <1>1, <2>3, <2>5, <2>6 DEF TypeInv
  <2>8. Forward(swf, swf')
    BY <2>1, <2>2, <2>3 DEF Forward
  <2> QED
    BY <1>1, <2>3, <2>5, <2>7, <2>8 DEF Workflows, Made
<1>4. CASE (\E again \in BOOLEAN : Done(c, again)) /\ UNCHANGED <<swf, swfWatch>>
  <2>1. sync' \in [Controllers -> Sync] /\ Syncs' /\ queued' \in [Controllers -> BOOLEAN]
    BY <1>1, <1>4, DoneSyncs
  <2>2. TypeInv'
    BY <1>1, <1>4, <2>1 DEF TypeInv
  <2> QED
    BY <1>1, <1>4, <2>1, <2>2 DEF Versions, Workflows, Made, Forward
<1>5. \/ PutSwf(new) /\ Done(c, y.submitted) /\ swf.ver = y.snap.ver
      \/ Done(c, TRUE) /\ UNCHANGED <<swf, swfWatch>>
      \/ Done(c, y.submitted) /\ UNCHANGED <<swf, swfWatch>>
  <2> DEFINE updated == \/ new.cond # y.snap.cond
                        \/ new.active # y.snap.active
                        \/ new.completed # y.snap.completed
  <2>1. CASE updated /\ swf.ver = y.snap.ver
    BY <2>1 DEF UpdateStatus
  <2>2. CASE updated /\ swf.ver # y.snap.ver
    BY <2>2 DEF UpdateStatus
  <2>3. CASE ~updated
    BY <2>3 DEF UpdateStatus
  <2> QED
    BY <2>1, <2>2, <2>3
<1> QED
  BY <1>2, <1>3, <1>4, <1>5

-----------------------------------------------------------------------------
(* What holds of every behaviour *)

LEMMA StepIInv == ASSUME IInv, [Next]_vars PROVE IInv' /\ Forward(swf, swf')
<1>1. CASE UNCHANGED vars
  BY <1>1 DEF vars, IInv, TypeInv, Versions, Syncs, Workflows, Made, Forward
<1>2. CASE Tick
  BY <1>2, TickIInv DEF Tick, Forward
<1>3. CASE Finish \/ DeleteRun \/ CollectWorkflow
  BY <1>3, ClusterIInv DEF Finish, DeleteRun, CollectWorkflow, Forward
<1>4. CASE ChangeMode
  BY <1>4, ChangeModeIInv DEF Forward
<1>5. ASSUME NEW c \in Controllers,
             \/ DeliverSwf(c) \/ DeliverWorkflow(c) \/ Resync(c) \/ Restart(c)
             \/ StartSync(c) \/ SyncStep(c) \/ SyncFails(c)
      PROVE  IInv' /\ Forward(swf, swf')
  <2>1. CASE DeliverSwf(c) \/ DeliverWorkflow(c) \/ Resync(c) \/ Restart(c) \/ StartSync(c) \/ SyncFails(c)
    <3>1. IInv'
      BY <2>1, DeliverSwfIInv, DeliverWorkflowIInv, ResyncIInv, RestartIInv, StartSyncIInv, SyncFailsIInv
    <3>2. swf' = swf
      BY <2>1 DEF DeliverSwf, DeliverWorkflow, Resync, Restart, StartSync, SyncFails
    <3> QED
      BY <3>1, <3>2 DEF Forward
  <2>2. CASE UpdateStatus(c)
    BY <2>2, UpdateStatusIInv
  <2>3. CASE ListCompleted(c) \/ SubmitPinned(c) \/ CheckRun(c) \/ CreateWorkflow(c) \/ InsertRun(c)
    <3>1. IInv'
      BY <2>3, ListCompletedIInv, SubmitPinnedIInv, CheckRunIInv, CreateWorkflowIInv, InsertRunIInv
    <3>2. swf' = swf
      BY <2>3 DEF ListCompleted, SubmitPinned, CheckRun, CreateWorkflow, InsertRun
    <3> QED
      BY <3>1, <3>2 DEF Forward
  <2> QED
    BY <1>5, <2>1, <2>2, <2>3 DEF SyncStep
<1> QED
  BY <1>1, <1>2, <1>3, <1>4, <1>5 DEF Next

(* The invariant: every copy of the resource, wherever it lags, counts only *)
(* triggers whose workflow was created and times them as the schedule does. *)
THEOREM Invariance == Spec => []IInv
<1>1. IInv /\ [Next]_vars => IInv'
  BY StepIInv
<1> QED
  BY <1>1, InitIInv, PTL DEF Spec

(* No trigger is lost: LastIndex counts only triggers whose workflow was    *)
(* created, whatever syncs, replicas, caches and failures do in between.    *)
THEOREM NoTriggerIsLost == Spec => []RecordedWasCreated
<1>1. IInv => RecordedWasCreated
  BY DEF IInv, Versions, Copy, Counted, Triggered, RecordedWasCreated
<1> QED
  BY <1>1, Invariance, PTL

(* With catch-up, the i-th workflow is for the i-th due time and not early, *)
(* and LastIndex and LastTriggeredTime agree.                               *)
THEOREM WorkflowsFollowTheSchedule == Spec => []TriggersFollowSchedule
<1>1. IInv => TriggersFollowSchedule
  <2> SUFFICES ASSUME IInv, ~spec.noCatchup
               PROVE  /\ \A m \in made : /\ m.epoch = DueTime(spec.sched, Created, MaxNow, m.trigger)
                                         /\ m.epoch <= now
                      /\ swf.last = DueTime(spec.sched, Created, MaxNow, swf.index)
    BY DEF TriggersFollowSchedule
  <2>1. spec.sched \in Schedule /\ Created \in Nat \ {0} /\ MaxNow \in Nat /\ MaxNow < Never
    BY SpecType DEF IInv
  <2>2. swf.last = DueTime(spec.sched, Created, MaxNow, swf.index)
    <3>1. swf.last \in Nat /\ swf.index \in Nat /\ IsDueTime(spec.sched, Created, MaxNow, swf.last, swf.index)
      BY DEF IInv, TypeInv, Swf, Versions, Copy, OnSchedule
    <3> QED
      BY <2>1, <3>1, DueTimeIsUnique
  <2>3. ASSUME NEW m \in made
        PROVE  m.epoch = DueTime(spec.sched, Created, MaxNow, m.trigger) /\ m.epoch <= now
    <3>1. m.epoch \in Nat /\ m.trigger \in Nat /\ m.epoch <= now
          /\ IsDueTime(spec.sched, Created, MaxNow, m.epoch, m.trigger)
      BY DEF IInv, TypeInv, Wf, Made, OnSchedule
    <3> QED
      BY <2>1, <3>1, DueTimeIsUnique
  <2> QED
    BY <2>2, <2>3
<1> QED
  BY <1>1, Invariance, PTL

(* The record of triggers only moves forward, by one index and to a later   *)
(* time, with or without catch-up, for every schedule.                      *)
THEOREM TheRecordMovesForward == Spec => RecordMovesForward
<1>1. IInv /\ [Next]_vars =>
        [IF swf'.index = swf.index
           THEN swf'.last = swf.last
           ELSE swf'.index = swf.index + 1 /\ swf'.last > swf.last]_vars
  BY StepIInv DEF Forward
<1> QED
  BY <1>1, Invariance, PTL DEF Spec, RecordMovesForward
=============================================================================
