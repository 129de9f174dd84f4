-------------------------- MODULE ScheduledWorkflow --------------------------
(***************************************************************************)
(* The ScheduledWorkflow controller and one recurring run.  Each replica   *)
(* of the controller works from informer caches that lag the Kubernetes    *)
(* API; it starts the workflow of the next trigger and then records the    *)
(* trigger in the status of the ScheduledWorkflow, in two separate writes. *)
(*                                                                         *)
(* A pinned recurring run (v1) carries its workflow specification and the  *)
(* controller creates the workflow under a name made of the trigger's      *)
(* index.  Otherwise the controller calls the API server's CreateRun,      *)
(* which looks for the run in run_details, creates the workflow under a    *)
(* generated name and inserts the run.                                     *)
(***************************************************************************)
EXTENDS Schedules, Sequences

CONSTANTS
    Controllers,     \* replicas of the controller
    Specs,           \* the recurring runs to consider, a set of RecurringRun
    MaxConcurrency,  \* spec.maxConcurrency, Nil if absent
    MaxHistory,      \* spec.maxHistory
    MaxVersion,      \* bound: the resource is not written beyond this version
    MaxNow,          \* bound: the clock stops here
    MaxEvents        \* bound: failures, restarts, mode changes, deletions of runs,
                     \* and collections of finished workflows

(* A recurring run: its schedule, spec.noCatchup, and whether the resource  *)
(* carries the specification of its workflow.                               *)
RecurringRun == [sched : Schedule, noCatchup : BOOLEAN, pinned : BOOLEAN]

ASSUME ScheduledWorkflowAssumption ==
    /\ Controllers # {}
    /\ Specs \subseteq RecurringRun
    /\ MaxConcurrency \in Nat /\ MaxHistory \in Nat
    /\ MaxVersion \in Nat /\ MaxNow \in Nat \ {0} /\ MaxNow < Never
    /\ MaxEvents \in Nat

VARIABLES
    spec,      \* the part of the ScheduledWorkflow that never changes
    swf,       \* the ScheduledWorkflow, as the Kubernetes API holds it
    wfs,       \* the workflows of the recurring run in the cluster
    rows,      \* the triggers that have a row in run_details
    swfWatch,  \* per replica: versions of swf its informer has not received
    wfWatch,   \* per replica: values of wfs its informer has not received
    swfCache, wfCache,  \* per replica: the informers' caches
    queued,    \* per replica: TRUE iff the key is in the workqueue
    sync,      \* per replica: the execution of syncHandler
    now,       \* the time
    made,      \* history: every workflow ever created, as it was created
    events     \* how often something out of the ordinary happened

caches == <<swfWatch, wfWatch, swfCache, wfCache>>
vars == <<spec, swf, wfs, rows, swfWatch, wfWatch, swfCache, wfCache, queued, sync,
          now, made, events>>
-----------------------------------------------------------------------------
Created == 1   \* the creation time of the ScheduledWorkflow

(* A workflow is a record: id; trigger, the index in its name or its run's  *)
(* display name; label, the index in its labels; epoch, the scheduled time  *)
(* it is for; done.                                                         *)

(* cond: the condition and the "enabled" label of the last status update.   *)
(* index and last: Status.Trigger, with 0 and Nil when they are absent.     *)
NewSwf == [ver |-> 1, enabled |-> TRUE, cond |-> <<"none", FALSE>>,
           index |-> 0, last |-> Nil, active |-> {}, completed |-> {}]

IdleSync == [pc |-> "idle", snap |-> NewSwf, time |-> 0, active |-> {},
             completed |-> {}, next |-> 0, submitted |-> FALSE]

Clamp(n, lo, hi) == Max({lo, Min({n, hi})})
maxConcurrency == IF MaxConcurrency = Nil THEN 1 ELSE Clamp(MaxConcurrency, 1, 10)
maxHistory == Clamp(MaxHistory, 0, 100)

NextIndex(s) == s.index + 1
MinIndex(s) == Max({s.index - maxHistory, 0})

(* getStatusAndMessage and the label "enabled".                             *)
ConditionOf(s, active) ==
    LET type == IF spec.sched.kind # "oneoff"
                  THEN IF s.enabled THEN "Enabled" ELSE "Disabled"
                  ELSE IF s.last # Nil /\ active = {} THEN "Succeeded" ELSE "Running"
    IN <<type, s.enabled>>

Init ==
    /\ spec \in Specs
    /\ swf = NewSwf
    /\ wfs = {} /\ rows = {} /\ made = {}
    /\ swfWatch = [c \in Controllers |-> <<>>]
    /\ wfWatch = [c \in Controllers |-> <<>>]
    /\ swfCache = [c \in Controllers |-> NewSwf]
    /\ wfCache = [c \in Controllers |-> {}]
    /\ queued = [c \in Controllers |-> TRUE]
    /\ sync = [c \in Controllers |-> IdleSync]
    /\ now = Created
    /\ events = 0

(* Writes to the Kubernetes API, announced to every replica.                *)
PutSwf(s) == /\ swf.ver < MaxVersion
             /\ swf' = [s EXCEPT !.ver = swf.ver + 1]
             /\ swfWatch' = [c \in Controllers |-> Append(swfWatch[c], swf')]

PutWorkflows(W) == /\ wfs' = W
                   /\ wfWatch' = [c \in Controllers |-> Append(wfWatch[c], W)]

StartWorkflow(trigger, label, epoch) ==
    LET w == [id |-> Cardinality(made) + 1, trigger |-> trigger, label |-> label,
              epoch |-> epoch, done |-> FALSE]
    IN made' = made \cup {w} /\ PutWorkflows(wfs \cup {w})
-----------------------------------------------------------------------------
(* The environment: time, the Argo controller, the users.                   *)
Event == events < MaxEvents /\ events' = events + 1

Tick ==
    /\ now < MaxNow
    /\ now' = now + 1
    /\ UNCHANGED <<spec, swf, wfs, rows, caches, queued, sync, made, events>>

Finish ==
    /\ \E w \in wfs : ~w.done /\ PutWorkflows((wfs \ {w}) \cup {[w EXCEPT !.done = TRUE]})
    /\ UNCHANGED <<spec, swf, rows, swfWatch, swfCache, wfCache, queued, sync, now,
                   made, events>>

(* ChangeJobMode patches spec.enabled.                                      *)
ChangeMode ==
    /\ Event
    /\ PutSwf([swf EXCEPT !.enabled = ~swf.enabled])
    /\ UNCHANGED <<spec, wfs, rows, wfWatch, swfCache, wfCache, queued, sync, now, made>>

(* DeleteRun removes the workflow and the row of a run that has one         *)
(* (RunLifecycle has the two writes apart; the row of a pinned run is made  *)
(* by the persistence agent's report).                                      *)
DeleteRun ==
    /\ Event
    /\ \E w \in wfs : /\ spec.pinned \/ w.trigger \in rows
                      /\ PutWorkflows(wfs \ {w})
                      /\ rows' = rows \ {w.trigger}
    /\ UNCHANGED <<spec, swf, swfWatch, swfCache, wfCache, queued, sync, now, made>>

(* The API server deletes a finished workflow whose TTL has passed.         *)
CollectWorkflow ==
    /\ Event
    /\ \E w \in wfs : w.done /\ PutWorkflows(wfs \ {w})
    /\ UNCHANGED <<spec, swf, rows, swfWatch, swfCache, wfCache, queued, sync, now, made>>
-----------------------------------------------------------------------------
(* The informers receive the versions in order; their handlers enqueue the  *)
(* ScheduledWorkflow, for a workflow its owner.                             *)
DeliverSwf(c) ==
    /\ swfWatch[c] # <<>>
    /\ swfCache' = [swfCache EXCEPT ![c] = Head(swfWatch[c])]
    /\ swfWatch' = [swfWatch EXCEPT ![c] = Tail(@)]
    /\ queued' = [queued EXCEPT ![c] = TRUE]
    /\ UNCHANGED <<spec, swf, wfs, rows, wfWatch, wfCache, sync, now, made, events>>

DeliverWorkflow(c) ==
    /\ wfWatch[c] # <<>>
    /\ wfCache' = [wfCache EXCEPT ![c] = Head(wfWatch[c])]
    /\ wfWatch' = [wfWatch EXCEPT ![c] = Tail(@)]
    /\ queued' = [queued EXCEPT ![c] = TRUE]
    /\ UNCHANGED <<spec, swf, wfs, rows, swfWatch, swfCache, sync, now, made, events>>

(* The periodic resync of the ScheduledWorkflow informer.                   *)
Resync(c) ==
    /\ ~queued[c]
    /\ queued' = [queued EXCEPT ![c] = TRUE]
    /\ UNCHANGED <<spec, swf, wfs, rows, caches, sync, now, made, events>>

(* A replica restarts: its caches are listed anew, its work is lost.        *)
Restart(c) ==
    /\ Event
    /\ swfCache' = [swfCache EXCEPT ![c] = swf]
    /\ wfCache' = [wfCache EXCEPT ![c] = wfs]
    /\ swfWatch' = [swfWatch EXCEPT ![c] = <<>>]
    /\ wfWatch' = [wfWatch EXCEPT ![c] = <<>>]
    /\ queued' = [queued EXCEPT ![c] = TRUE]
    /\ sync' = [sync EXCEPT ![c] = IdleSync]
    /\ UNCHANGED <<spec, swf, wfs, rows, now, made>>
-----------------------------------------------------------------------------
(***************************************************************************)
(* syncHandler.  A key is never processed twice at a time by one replica.  *)
(***************************************************************************)
At(c, pc) == sync[c].pc = pc

(* The sync ends; a transient failure, or a submission, queues the key.     *)
Done(c, again) ==
    /\ sync' = [sync EXCEPT ![c] = IdleSync]
    /\ queued' = [queued EXCEPT ![c] = @ \/ again]

(* The resource, the time and the active workflows are read ...             *)
StartSync(c) ==
    /\ queued[c] /\ At(c, "idle")
    /\ queued' = [queued EXCEPT ![c] = FALSE]
    /\ sync' = [sync EXCEPT ![c] =
                  [pc |-> "list", snap |-> swfCache[c], time |-> now,
                   active |-> {w \in wfCache[c] : ~w.done},
                   completed |-> {}, next |-> 0, submitted |-> FALSE]]
    /\ UNCHANGED <<spec, swf, wfs, rows, caches, now, made, events>>

(* GetNextScheduledEpoch: enabled, below the concurrency limit, and due.    *)
ShouldRunNow(y, next) ==
    /\ y.snap.enabled
    /\ Cardinality(y.active) < maxConcurrency
    /\ next <= y.time

(* ... then the completed ones, and whether a workflow is due is decided.   *)
ListCompleted(c) ==
    /\ At(c, "list")
    /\ LET y == sync[c]
           next == NextScheduledEpoch(spec.sched, spec.noCatchup, y.snap.last, Created, y.time)
       IN sync' = [sync EXCEPT
             ![c].completed = {w \in wfCache[c] : w.done /\ w.label > MinIndex(y.snap)},
             ![c].next = next,
             ![c].pc = CASE ~ShouldRunNow(y, next) -> "status"
                         [] ShouldRunNow(y, next) /\ spec.pinned -> "submit"
                         [] OTHER -> "check"]
    /\ UNCHANGED <<spec, swf, wfs, rows, caches, queued, now, made, events>>

Submitted(c) == sync' = [sync EXCEPT ![c].pc = "status", ![c].submitted = TRUE]

(* The workflow of this name is in the cache: a previous sync created it.   *)
(* If it is in the cluster only, its creation fails and the sync is retried.*)
SubmitPinned(c) ==
    /\ At(c, "submit")
    /\ LET i == NextIndex(sync[c].snap)
       IN CASE \E w \in wfCache[c] : w.trigger = i ->
                 Submitted(c) /\ UNCHANGED <<wfs, wfWatch, made, queued>>
            [] (\A w \in wfCache[c] : w.trigger # i) /\ (\E w \in wfs : w.trigger = i) ->
                 Done(c, TRUE) /\ UNCHANGED <<wfs, wfWatch, made>>
            [] OTHER ->
                 /\ StartWorkflow(i, i, sync[c].next)
                 /\ Submitted(c)
                 /\ UNCHANGED queued
    /\ UNCHANGED <<spec, swf, rows, swfWatch, swfCache, wfCache, now, events>>

(* Mutant of CheckRun: the run that is there does not count as submitted.   *)
CheckRunIgnoresExisting(c) ==
    /\ At(c, "check")
    /\ sync' = [sync EXCEPT ![c].pc =
                  IF NextIndex(sync[c].snap) \in rows THEN "status" ELSE "create"]
    /\ UNCHANGED <<spec, swf, wfs, rows, caches, queued, now, made, events>>

(* CreateRun of the API server: a run of this recurring run and display     *)
(* name is returned as it is ...                                            *)
CheckRun(c) ==
    /\ At(c, "check")
    /\ IF NextIndex(sync[c].snap) \in rows
          THEN Submitted(c)
          ELSE sync' = [sync EXCEPT ![c].pc = "create"]
    /\ UNCHANGED <<spec, swf, wfs, rows, caches, queued, now, made, events>>

(* ... else a workflow is created, under a generated name, labelled with    *)
(* the index that follows the one the ScheduledWorkflow has now ...         *)
CreateWorkflow(c) ==
    /\ At(c, "create")
    /\ StartWorkflow(NextIndex(sync[c].snap), NextIndex(swf), sync[c].next)
    /\ sync' = [sync EXCEPT ![c].pc = "insert"]
    /\ UNCHANGED <<spec, swf, rows, swfWatch, swfCache, wfCache, queued, now, events>>

(* ... and the run is inserted; a duplicate key returns the row there is.   *)
InsertRun(c) ==
    /\ At(c, "insert")
    /\ rows' = rows \cup {NextIndex(sync[c].snap)}
    /\ Submitted(c)
    /\ UNCHANGED <<spec, swf, wfs, caches, queued, now, made, events>>

(* Mutant of UpdatedSwf: the trigger is recorded whether or not its         *)
(* workflow was submitted.                                                  *)
UpdatedSwfAnyway(y) ==
    [y.snap EXCEPT !.cond = ConditionOf(y.snap, y.active),
                   !.active = y.active, !.completed = y.completed,
                   !.index = IF y.next <= y.time THEN NextIndex(y.snap) ELSE @,
                   !.last = IF y.next <= y.time THEN y.next ELSE @]

(* ScheduledWorkflow.UpdateStatus.                                          *)
UpdatedSwf(y) ==
    [y.snap EXCEPT !.cond = ConditionOf(y.snap, y.active),
                   !.active = y.active, !.completed = y.completed,
                   !.index = IF y.submitted THEN NextIndex(y.snap) ELSE @,
                   !.last = IF y.submitted THEN y.next ELSE @]

(* updateStatus: nothing is written if conditions, labels and history are   *)
(* as they were.  The write tests resourceVersion.                          *)
UpdateStatus(c) ==
    /\ At(c, "status")
    /\ LET y == sync[c]
           new == UpdatedSwf(y)
           updated == \/ new.cond # y.snap.cond
                      \/ new.active # y.snap.active
                      \/ new.completed # y.snap.completed
       IN CASE updated /\ swf.ver = y.snap.ver -> PutSwf(new) /\ Done(c, y.submitted)
            [] updated /\ swf.ver # y.snap.ver ->
                 Done(c, TRUE) /\ UNCHANGED <<spec, swf, swfWatch>>
            [] OTHER -> Done(c, y.submitted) /\ UNCHANGED <<spec, swf, swfWatch>>
    /\ UNCHANGED <<spec, wfs, rows, wfWatch, swfCache, wfCache, now, made, events>>

(* A call of the sync fails: the API server or Kubernetes is unavailable.   *)
SyncFails(c) ==
    /\ ~At(c, "idle")
    /\ Event
    /\ Done(c, TRUE)
    /\ UNCHANGED <<spec, swf, wfs, rows, caches, now, made>>
-----------------------------------------------------------------------------
SyncStep(c) ==
    \/ ListCompleted(c) \/ SubmitPinned(c) \/ CheckRun(c) \/ CreateWorkflow(c)
    \/ InsertRun(c) \/ UpdateStatus(c)

Next ==
    \/ Tick \/ Finish \/ ChangeMode \/ DeleteRun \/ CollectWorkflow
    \/ \E c \in Controllers :
          \/ DeliverSwf(c) \/ DeliverWorkflow(c) \/ Resync(c) \/ Restart(c)
          \/ StartSync(c) \/ SyncStep(c) \/ SyncFails(c)

Spec == Init /\ [][Next]_vars

(* Time passes, workflows finish, informers deliver and resync, and each    *)
(* replica's workers run; the users owe nothing.                            *)
Fairness ==
    /\ WF_vars(Tick) /\ WF_vars(Finish)
    /\ \A c \in Controllers :
          /\ WF_vars(DeliverSwf(c)) /\ WF_vars(DeliverWorkflow(c)) /\ WF_vars(Resync(c))
          /\ WF_vars(StartSync(c)) /\ WF_vars(SyncStep(c))

FairSpec == Spec /\ Fairness
-----------------------------------------------------------------------------
(* No trigger is lost: LastIndex only counts triggers whose workflow was    *)
(* created, whatever fails between the creation and the status update.      *)
RecordedWasCreated ==
    \A i \in 1 .. swf.index : \E m \in made : m.trigger = i

(* With catch-up, the i-th workflow is for the i-th due time, is not early, *)
(* and LastIndex and LastTriggeredTime agree: lagging caches, conflicts and *)
(* retries neither skip a scheduled time nor run one under two indices.     *)
TriggersFollowSchedule ==
    ~spec.noCatchup =>
       /\ \A m \in made : /\ m.epoch = DueTime(spec.sched, Created, MaxNow, m.trigger)
                          /\ m.epoch <= now
       /\ swf.last = DueTime(spec.sched, Created, MaxNow, swf.index)

(* The record of triggers only moves forward, one index at a time and each  *)
(* time to a later scheduled time, with or without catch-up: neither a sync *)
(* on a stale resource nor a restart takes it back or uses a time twice.    *)
RecordMovesForward ==
    [][IF swf'.index = swf.index
         THEN swf'.last = swf.last
         ELSE swf'.index = swf.index + 1 /\ swf'.last > swf.last]_vars

(* With catch-up, every due time gets its workflow in the end, as long as   *)
(* the schedule is enabled and workflows finish.                            *)
EveryTriggerIsServed ==
    \A t \in 1 .. MaxNow :
       now >= t /\ t \in DueTimes(spec.sched, Created, MaxNow)
          ~> (\E m \in made : m.epoch = t) \/ ~swf.enabled

(* "Guard against duplicate runs from concurrent recurring-run controller   *)
(* replicas." (CreateRun): a trigger starts one workflow.                   *)
OneWorkflowPerTrigger == \A m, n \in made : m.trigger = n.trigger => m = n
=============================================================================
