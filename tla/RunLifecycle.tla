---------------------------- MODULE RunLifecycle ----------------------------
(***************************************************************************)
(* One pipeline run, from CreateRun to the garbage collection of its Argo  *)
(* Workflow.  The run lives twice: as a custom resource in the cluster (wf)*)
(* and as a row of run_details in the API server's database (row).  No     *)
(* transaction spans the two.  The persistence agent carries the cluster's *)
(* state to the database through ReportWorkflowResource, while API         *)
(* requests (CreateRun, RetryRun, TerminateRun, DeleteRun) write to both.  *)
(* Every Kubernetes call and every database transaction is a step of its   *)
(* own, so all handlers interleave between their calls.                    *)
(*                                                                         *)
(* Runs do not share state, hence one run is modelled.  A workflow's phases*)
(* Failed and Error are one phase: the code treats them alike.             *)
(***************************************************************************)
EXTENDS Naturals, FiniteSets

CONSTANTS
    Reporters,     \* concurrent executions of ReportWorkflowResource
    Retriers,      \* RetryRun requests the users send
    Terminators,   \* TerminateRun requests
    Deleters,      \* DeleteRun requests
    Recurring,     \* TRUE: the workflow carries a ScheduledWorkflow's UUID
    HasPlugins,    \* TRUE: OnBeforeRunCreation left plugin output on the run
    StartCreated,  \* TRUE: start after a successful CreateRun
    MaxFaults,     \* bound: reports that fail on the server
    MaxTimeouts,   \* bound: reports the agent abandons, or agent restarts
    MaxTouches     \* bound: changes to the CR that leave its phase alone

NoReporter == "none"

Requests == Retriers \cup Terminators \cup Deleters

ASSUME ConstantsAssumption ==
    /\ Recurring \in BOOLEAN /\ HasPlugins \in BOOLEAN /\ StartCreated \in BOOLEAN
    /\ MaxFaults \in Nat /\ MaxTimeouts \in Nat /\ MaxTouches \in Nat
    /\ NoReporter \notin Reporters
    /\ Retriers \cap Terminators = {} /\ Retriers \cap Deleters = {}
    /\ Terminators \cap Deleters = {}

VARIABLES
    wf,        \* the Workflow CR of the run, as the Kubernetes API holds it
    watch,     \* versions of wf the agent's informer has not received yet
    cache,     \* the agent's informer cache
    queued,    \* TRUE iff the workflow's key is in the agent's workqueue
    agent,     \* the report the agent waits for, or NoReporter
    rep,       \* the executions of ReportWorkflowResource
    row,       \* the row of run_details
    recorded,  \* history: every final <<state, finishedAt>> the row ever held
    create,    \* progress of CreateRun
    req,       \* progress of the users' requests
    job,       \* TRUE iff the recurring run's row exists in the jobs table
    clock,     \* FinishedAt of the latest workflow that finished, in seconds
    ttl,       \* workflows that finished up to here are past the agent's TTL
    faults, timeouts, touches

cluster == <<wf, watch, clock, touches>>
agentVars == <<cache, queued, agent, timeouts>>
db == <<row, recorded, job>>
vars == <<wf, watch, cache, queued, agent, rep, row, recorded, create, req,
          job, clock, ttl, faults, timeouts, touches>>
-----------------------------------------------------------------------------
Phases == {"Gone", "Pending", "Running", "Succeeded", "Failed"}
FinalPhases == {"Succeeded", "Failed"}
FinalStates == {"SUCCEEDED", "FAILED"}
States == {"NONE", "PENDING", "RUNNING", "CANCELING"} \cup FinalStates
PluginOutputs == {"none", "open", "ended"}

(***************************************************************************)
(* The CR: ver is its resourceVersion, deadline says that                  *)
(* activeDeadlineSeconds is 0, label that it carries PersistedFinalState.  *)
(* A deleted CR is a version too (the watch reports it) with phase "Gone"; *)
(* it keeps the uid so that the next object of this name gets a fresh one. *)
(***************************************************************************)
Workflow == [uid : Nat, ver : Nat, phase : Phases, fin : Nat,
             deadline : BOOLEAN, label : BOOLEAN]

Run == [state : States, fin : Nat, man : Workflow, plug : PluginOutputs]

Exists(w) == w.phase # "Gone"
IsInFinalState(w) == w.phase \in FinalPhases
IsTerminating(w) == w.deadline /\ ~IsInFinalState(w)

Gone(w) == [uid |-> w.uid, ver |-> w.ver, phase |-> "Gone", fin |-> 0,
            deadline |-> FALSE, label |-> FALSE]

NoWorkflow == [uid |-> 0, ver |-> 0, phase |-> "Gone", fin |-> 0,
               deadline |-> FALSE, label |-> FALSE]

NewWorkflow(w) == [uid |-> w.uid + 1, ver |-> w.ver, phase |-> "Pending", fin |-> 0,
                   deadline |-> FALSE, label |-> FALSE]

NoRun == [state |-> "NONE", fin |-> 0, man |-> NoWorkflow, plug |-> "none"]

RowExists == row.state # "NONE"

(* RuntimeState of a reported workflow: RuntimeState(Condition()).ToV2(),   *)
(* or CANCELING when it is being terminated.                                *)
StateOf(w) == IF IsTerminating(w) THEN "CANCELING"
              ELSE CASE w.phase = "Succeeded" -> "SUCCEEDED"
                     [] w.phase = "Failed"    -> "FAILED"
                     [] w.phase = "Running"   -> "RUNNING"
                     [] OTHER                 -> "PENDING"

(* GenerateRetryExecution: completion marks, the label and a zero deadline  *)
(* are removed from the stored manifest, the phase goes back to Running.    *)
RetryExecution(w) == [w EXCEPT !.phase = "Running", !.fin = 0,
                               !.deadline = FALSE, !.label = FALSE]

(* A write to the Kubernetes API: a new version, announced on the watch.    *)
Store(w) == /\ wf' = [w EXCEPT !.ver = wf.ver + 1]
            /\ watch' = watch \cup {wf'}

(* A write to run_details.                                                  *)
SaveRow(r) == /\ row' = r
              /\ recorded' = recorded \cup
                    (IF r.state \in FinalStates THEN {<<r.state, r.fin>>} ELSE {})
-----------------------------------------------------------------------------
IdleReport == [pc |-> "idle", snap |-> NoWorkflow, plug |-> "none"]
FreshRequest == [pc |-> "ready", spec |-> NoWorkflow, plug |-> "none"]
DoneRequest == [pc |-> "done", spec |-> NoWorkflow, plug |-> "none"]

InitialPlugins == IF HasPlugins THEN "open" ELSE "none"

CreatedRun == [state |-> "PENDING", fin |-> 0, man |-> NoWorkflow,
               plug |-> InitialPlugins]

Init ==
    /\ wf = IF StartCreated THEN [NewWorkflow(NoWorkflow) EXCEPT !.ver = 1]
                            ELSE NoWorkflow
    /\ row = IF StartCreated THEN CreatedRun ELSE NoRun
    /\ recorded = {}
    /\ create = IF StartCreated THEN "done" ELSE "ready"
    /\ watch = {wf} \ {NoWorkflow}
    /\ cache = NoWorkflow
    /\ queued = FALSE
    /\ agent = NoReporter
    /\ rep = [h \in Reporters |-> IdleReport]
    /\ req = [q \in Requests |-> FreshRequest]
    /\ job = Recurring
    /\ clock = 0 /\ ttl = 0 /\ faults = 0 /\ timeouts = 0 /\ touches = 0
-----------------------------------------------------------------------------
(***************************************************************************)
(* CreateRun: the CR is created before the row.  The workflow of a         *)
(* recurring run may also come straight from the ScheduledWorkflow         *)
(* controller (v1 specifications), which inserts no row.                   *)
(***************************************************************************)
CreateWorkflow ==
    /\ create = "ready"
    /\ Store(NewWorkflow(wf))
    /\ create' \in {"insert"} \cup (IF Recurring THEN {"done"} ELSE {})
    /\ UNCHANGED <<rep, req, db, agentVars, clock, touches, ttl, faults>>

(* RunStore.CreateRun; a duplicate key returns the row that is there.       *)
InsertRun ==
    /\ create = "insert"
    /\ create' = "done"
    /\ IF RowExists THEN UNCHANGED <<row, recorded>> ELSE SaveRow(CreatedRun)
    /\ UNCHANGED <<rep, req, job, agentVars, cluster, ttl, faults>>

(* The server dies, or the insert fails: the CR stays without a row.        *)
CreateRunFails ==
    /\ create = "insert"
    /\ create' = "failed"
    /\ UNCHANGED <<rep, req, db, agentVars, cluster, ttl, faults>>
-----------------------------------------------------------------------------
(* The Argo controller (external): it starts the workflow, finishes it, and *)
(* writes other changes to the same object.                                 *)
ArgoStart ==
    /\ wf.phase = "Pending"
    /\ Store([wf EXCEPT !.phase = "Running"])
    /\ UNCHANGED <<rep, req, db, agentVars, create, clock, touches, ttl, faults>>

ArgoFinish ==
    /\ wf.phase \in {"Pending", "Running"}
    /\ \E phase \in (IF wf.deadline THEN {"Failed"} ELSE FinalPhases),
          t \in {clock, clock + 1} \ {0} :
           /\ clock' = t
           /\ Store([wf EXCEPT !.phase = phase, !.fin = t])
    /\ UNCHANGED <<rep, req, db, agentVars, create, touches, ttl, faults>>

ArgoTouch ==
    /\ Exists(wf)
    /\ touches < MaxTouches
    /\ touches' = touches + 1
    /\ Store(wf)
    /\ UNCHANGED <<rep, req, db, agentVars, create, clock, ttl, faults>>

(* Time passes until the oldest unexpired finish is beyond the TTL (seven   *)
(* days by default).  Requests last minutes, so none spans this.            *)
TtlPasses ==
    /\ ttl < clock
    /\ ttl' = ttl + 1
    /\ create # "insert"
    /\ \A h \in Reporters : rep[h].pc = "idle"
    /\ \A q \in Requests : req[q].pc \in {"ready", "done"}
    /\ UNCHANGED <<rep, req, db, agentVars, cluster, create, faults>>

(* The recurring run is deleted from the jobs table.                        *)
DeleteJob ==
    /\ job
    /\ job' = FALSE
    /\ UNCHANGED <<rep, req, row, recorded, agentVars, cluster, create, ttl, faults>>
-----------------------------------------------------------------------------
(* The persistence agent's informer receives the versions in order; its     *)
(* add, update and delete handlers all enqueue the key.                     *)
Deliver ==
    /\ \E w \in watch :
          /\ \A x \in watch : w.ver <= x.ver
          /\ cache' = w
          /\ watch' = watch \ {w}
    /\ queued' = TRUE
    /\ UNCHANGED <<wf, rep, req, db, agent, timeouts, create, clock, touches, ttl, faults>>

(* The periodic resync calls the update handler for every cached object.    *)
Resync ==
    /\ Exists(cache) /\ ~queued
    /\ queued' = TRUE
    /\ UNCHANGED <<cache, agent, timeouts, rep, req, db, cluster, create, ttl, faults>>

(* Mutant of SkipSave: finished workflows are skipped, persisted or not.    *)
SkipSaveFinished(w) == ~Exists(w) \/ IsInFinalState(w)

(* WorkflowSaver.Save returns without a report: no such workflow, or its    *)
(* final state is persisted and the TTL has not passed.                     *)
SkipSave(w) == ~Exists(w) \/ (w.label /\ w.fin > ttl)

AgentSkips ==
    /\ queued /\ agent = NoReporter
    /\ SkipSave(cache)
    /\ queued' = FALSE
    /\ UNCHANGED <<cache, agent, timeouts, rep, req, db, cluster, create, ttl, faults>>

(* The key is never processed twice at a time: the agent waits for the      *)
(* report it sent.                                                          *)
AgentReports(h) ==
    /\ queued /\ agent = NoReporter
    /\ ~SkipSave(cache)
    /\ rep[h].pc = "idle"
    /\ rep' = [rep EXCEPT ![h] = [pc |-> "uid", snap |-> cache, plug |-> "none"]]
    /\ agent' = h
    /\ queued' = FALSE
    /\ UNCHANGED <<cache, timeouts, req, db, cluster, create, ttl, faults>>

(* After a minute the agent gives up; the server goes on with the report.   *)
AgentTimeout ==
    /\ agent # NoReporter
    /\ timeouts < MaxTimeouts
    /\ timeouts' = timeouts + 1
    /\ agent' = NoReporter
    /\ queued' = TRUE
    /\ UNCHANGED <<cache, rep, req, db, cluster, create, ttl, faults>>

(* The agent restarts: its queue is lost, its informer lists the cluster.   *)
AgentRestart ==
    /\ timeouts < MaxTimeouts
    /\ timeouts' = timeouts + 1
    /\ agent' = NoReporter
    /\ cache' = wf
    /\ watch' = {}
    /\ queued' = Exists(wf)
    /\ UNCHANGED <<wf, clock, touches, rep, req, db, create, ttl, faults>>
-----------------------------------------------------------------------------
(***************************************************************************)
(* ReportWorkflowResource.  rep[h].snap is the reported workflow, rep[h].pc*)
(* the next call.  A report ends with the error class the agent acts on:   *)
(* InvalidArgument and NotFound are permanent, every other error transient.*)
(***************************************************************************)
At(h, pc) == rep[h].pc = pc
Go(h, pc) == /\ rep' = [rep EXCEPT ![h].pc = pc]
             /\ UNCHANGED <<cache, queued, agent, timeouts>>

End(h, result) ==
    /\ rep' = [rep EXCEPT ![h] = IdleReport]
    /\ agent' = IF agent = h THEN NoReporter ELSE agent
    /\ queued' = (queued \/ (agent = h /\ result = "transient"))
    /\ UNCHANGED <<cache, timeouts>>

(* Mutant of AfterRow: only runs with plugins get the terminal steps.       *)
AfterRowPluginsOnly(snap, plug) ==
    IF IsInFinalState(snap) /\ plug # "none" THEN "plugin" ELSE "tasks"

(* The rest of a terminal report: plugins, verification, label; then tasks. *)
AfterRow(snap, plug) == IF IsInFinalState(snap)
                          THEN IF plug = "none" THEN "verify" ELSE "plugin"
                          ELSE "tasks"

AfterGc(snap) == IF IsInFinalState(snap) THEN "version" ELSE "getRun"

(* Mutant of AfterUid: finished workflows are collected, labelled or not.   *)
AfterUidFinished(snap) == IF IsInFinalState(snap) THEN "gc" ELSE AfterGc(snap)

(* The workflow is collected when the reported version carries the label.   *)
AfterUid(snap) == IF snap.label THEN "gc" ELSE AfterGc(snap)

(* validateReportedWorkflowUID: a CR of the same name with another uid is   *)
(* refused; a CR that is gone is accepted.                                  *)
ValidateUID(h) ==
    /\ At(h, "uid")
    /\ IF Exists(wf) /\ wf.uid # rep[h].snap.uid
          THEN End(h, "permanent")
          ELSE Go(h, AfterUid(rep[h].snap))
    /\ UNCHANGED <<req, db, cluster, create, ttl, faults>>

(* The reported version carries the label: delete the CR, by name.          *)
GcPersisted(h) ==
    /\ At(h, "gc")
    /\ IF Exists(wf)
          THEN /\ Store(Gone(wf))
               /\ Go(h, AfterGc(rep[h].snap))
          ELSE End(h, "permanent") /\ UNCHANGED <<wf, watch>>
    /\ UNCHANGED <<req, db, clock, touches, create, ttl, faults>>

(* workflowStillMatchesReportedVersion, for terminal reports only.          *)
CheckVersion(h) ==
    /\ At(h, "version")
    /\ IF Exists(wf) /\ wf.ver # rep[h].snap.ver
          THEN End(h, "transient")
          ELSE Go(h, "getRun")
    /\ UNCHANGED <<req, db, cluster, create, ttl, faults>>

(* GetRun; the plugin output that is read here is written back by UpdateRun.*)
ReadRun(h) ==
    /\ At(h, "getRun")
    /\ LET next == CASE RowExists -> "update"
                     [] ~RowExists /\ Recurring -> "create"
                     [] OTHER -> "obsolete"
       IN rep' = [rep EXCEPT ![h].pc = next, ![h].plug = row.plug]
    /\ UNCHANGED <<req, db, agentVars, cluster, create, ttl, faults>>

(* GetRun fails: the report of a recurring run goes on as without a row.    *)
ReadRunFails(h) ==
    /\ At(h, "getRun") /\ Recurring
    /\ faults < MaxFaults
    /\ faults' = faults + 1
    /\ Go(h, "create")
    /\ UNCHANGED <<req, db, cluster, create, ttl>>

(* Mutant of UpdateRun: a missing row is inserted.                          *)
UpdateRunUpserts(h) ==
    /\ At(h, "update")
    /\ LET snap == rep[h].snap
       IN /\ SaveRow([state |-> StateOf(snap), fin |-> snap.fin,
                      man |-> snap, plug |-> rep[h].plug])
          /\ Go(h, AfterRow(snap, rep[h].plug))
    /\ UNCHANGED <<req, job, cluster, create, ttl, faults>>

UpdateRun(h) ==
    /\ At(h, "update")
    /\ LET snap == rep[h].snap
           plug == IF rep[h].plug = "none" THEN row.plug ELSE rep[h].plug
       IN IF RowExists
            THEN /\ SaveRow([state |-> StateOf(snap), fin |-> snap.fin,
                             man |-> snap, plug |-> plug])
                 /\ Go(h, AfterRow(snap, rep[h].plug))
            ELSE End(h, "permanent") /\ UNCHANGED <<row, recorded>>
    /\ UNCHANGED <<req, job, cluster, create, ttl, faults>>

(* Mutant of GcObsolete: the report is refused, the CR stays.               *)
GcObsoleteKeeps(h) ==
    /\ At(h, "obsolete")
    /\ End(h, "permanent")
    /\ UNCHANGED <<req, db, cluster, create, ttl, faults>>

(* A one-off run has no row: the CR is deleted so that it does not leak.    *)
GcObsolete(h) ==
    /\ At(h, "obsolete")
    /\ IF Exists(wf) THEN Store(Gone(wf)) ELSE UNCHANGED <<wf, watch>>
    /\ End(h, "permanent")
    /\ UNCHANGED <<req, db, clock, touches, create, ttl, faults>>

(* A recurring run has no row: the report creates it from its job; a row    *)
(* that turns out to be there is kept.                                      *)
CreateFromReport(h) ==
    /\ At(h, "create")
    /\ LET snap == rep[h].snap
       IN CASE ~job -> End(h, "permanent") /\ UNCHANGED <<row, recorded>>
            [] job /\ RowExists ->
                 Go(h, AfterRow(snap, row.plug)) /\ UNCHANGED <<row, recorded>>
            [] OTHER ->
                 /\ SaveRow([state |-> StateOf(snap), fin |-> snap.fin,
                             man |-> snap, plug |-> "none"])
                 /\ Go(h, AfterRow(snap, "none"))
    /\ UNCHANGED <<req, job, cluster, create, ttl, faults>>

(* pluginDispatcher.OnRunEnd succeeds and stores the plugin output; it asks *)
(* for another report when there is no row to store it in.                  *)
PluginRunEnd(h) ==
    /\ At(h, "plugin")
    /\ IF RowExists
          THEN /\ row' = [row EXCEPT !.plug = "ended"]
               /\ Go(h, "verify")
          ELSE End(h, "transient") /\ UNCHANGED row
    /\ UNCHANGED <<req, recorded, job, cluster, create, ttl, faults>>

(* Mutant of VerifyRun: the row is read but not compared.                   *)
VerifyRunExists(h) ==
    /\ At(h, "verify")
    /\ IF RowExists THEN Go(h, "label") ELSE End(h, "permanent")
    /\ UNCHANGED <<req, db, cluster, create, ttl, faults>>

(* runStillMatchesReportedFinalState                                        *)
VerifyRun(h) ==
    /\ At(h, "verify")
    /\ LET snap == rep[h].snap
       IN CASE ~RowExists -> End(h, "permanent")
            [] row.state = StateOf(snap) /\ row.fin = snap.fin -> Go(h, "label")
            [] OTHER -> End(h, "transient")
    /\ UNCHANGED <<req, db, cluster, create, ttl, faults>>

(* Mutant of LabelWorkflow: the patch does not test resourceVersion.        *)
LabelWorkflowUntested(h) ==
    /\ At(h, "label")
    /\ IF Exists(wf)
          THEN Store([wf EXCEPT !.label = TRUE]) /\ Go(h, "tasks")
          ELSE End(h, "permanent") /\ UNCHANGED <<wf, watch>>
    /\ UNCHANGED <<req, db, clock, touches, create, ttl, faults>>

(* addWorkflowLabelIfWorkflowUnchanged: a patch that tests resourceVersion. *)
LabelWorkflow(h) ==
    /\ At(h, "label")
    /\ CASE ~Exists(wf) -> End(h, "permanent") /\ UNCHANGED <<wf, watch>>
         [] Exists(wf) /\ wf.ver # rep[h].snap.ver ->
              End(h, "transient") /\ UNCHANGED <<wf, watch>>
         [] OTHER -> Store([wf EXCEPT !.label = TRUE]) /\ Go(h, "tasks")
    /\ UNCHANGED <<req, db, clock, touches, create, ttl, faults>>

(* The tasks and metrics of the report are stored; the report succeeds.     *)
ReportTasks(h) ==
    /\ At(h, "tasks")
    /\ End(h, "ok")
    /\ UNCHANGED <<req, db, cluster, create, ttl, faults>>

(* Any call of a report may fail with a retryable error: the API server     *)
(* restarts, the database or Kubernetes is unavailable, a plugin asks for a *)
(* retry, the agent's token has expired, a metric cannot be stored.         *)
ReportFails(h) ==
    /\ ~At(h, "idle")
    /\ faults < MaxFaults
    /\ faults' = faults + 1
    /\ End(h, "transient")
    /\ UNCHANGED <<req, db, cluster, create, ttl>>
-----------------------------------------------------------------------------
(***************************************************************************)
(* The users' requests.  Each is served once; it ends in "done", with an   *)
(* error or without.                                                       *)
(***************************************************************************)
ReqGo(q, pc) == req' = [req EXCEPT ![q].pc = pc]
ReqDone(q) == req' = [req EXCEPT ![q] = DoneRequest]

(* RetryRun reads the row and builds the new specification from the stored  *)
(* manifest, which must be that of a failed workflow.                       *)
RetryRead(q) ==
    /\ req[q].pc = "ready"
    /\ IF row.man.phase = "Failed"
          THEN req' = [req EXCEPT ![q] = [pc |-> "get",
                         spec |-> RetryExecution(row.man), plug |-> row.plug]]
          ELSE ReqDone(q)
    /\ UNCHANGED <<rep, db, agentVars, cluster, create, ttl, faults>>

(* The new specification takes the version the CR has now.                  *)
RetryGet(q) ==
    /\ req[q].pc = "get"
    /\ IF Exists(wf)
          THEN req' = [req EXCEPT ![q].pc = "update", ![q].spec.ver = wf.ver]
          ELSE ReqGo(q, "create")
    /\ UNCHANGED <<rep, db, agentVars, cluster, create, ttl, faults>>

AfterRetry(q) == IF req[q].plug = "none" THEN "row" ELSE "plugin"

(* A failed update (conflicting version or uid, CR gone) falls through to   *)
(* Create.                                                                  *)
RetryUpdate(q) ==
    /\ req[q].pc = "update"
    /\ LET spec == req[q].spec
       IN IF Exists(wf) /\ wf.ver = spec.ver /\ wf.uid = spec.uid
            THEN Store(spec) /\ ReqGo(q, AfterRetry(q))
            ELSE ReqGo(q, "create") /\ UNCHANGED <<wf, watch>>
    /\ UNCHANGED <<rep, db, agentVars, clock, touches, create, ttl, faults>>

RetryCreate(q) ==
    /\ req[q].pc = "create"
    /\ IF Exists(wf)
          THEN ReqDone(q) /\ UNCHANGED <<wf, watch>>
          ELSE /\ Store([req[q].spec EXCEPT !.uid = wf.uid + 1])
               /\ req' = [req EXCEPT ![q].pc = AfterRetry(q), ![q].spec = wf']
    /\ UNCHANGED <<rep, db, agentVars, clock, touches, create, ttl, faults>>

(* OnRunRetry reopens the plugins' runs; its errors are ignored.            *)
RetryNotify(q) ==
    /\ req[q].pc = "plugin"
    /\ row' = IF RowExists THEN [row EXCEPT !.plug = "open"] ELSE row
    /\ ReqGo(q, "row")
    /\ UNCHANGED <<rep, recorded, job, agentVars, cluster, create, ttl, faults>>

RetryRow(q) ==
    /\ req[q].pc = "row"
    /\ ReqDone(q)
    /\ IF RowExists
          THEN SaveRow([row EXCEPT !.state = "RUNNING", !.fin = 0,
                                   !.man = req[q].spec])
          ELSE UNCHANGED <<row, recorded>>
    /\ UNCHANGED <<rep, job, agentVars, cluster, create, ttl, faults>>

(* Mutant of TerminateRow: the UPDATE is not conditional on the state.      *)
TerminateRowAnyState(q) ==
    /\ req[q].pc = "ready"
    /\ IF RowExists
          THEN SaveRow([row EXCEPT !.state = "CANCELING"]) /\ ReqGo(q, "patch")
          ELSE UNCHANGED <<row, recorded>> /\ ReqDone(q)
    /\ UNCHANGED <<rep, job, agentVars, cluster, create, ttl, faults>>

(* TerminateRun: the conditional UPDATE of RunStore.TerminateRun ...        *)
TerminateRow(q) ==
    /\ req[q].pc = "ready"
    /\ IF row.state \in {"PENDING", "RUNNING"}
          THEN SaveRow([row EXCEPT !.state = "CANCELING"]) /\ ReqGo(q, "patch")
          ELSE UNCHANGED <<row, recorded>> /\ ReqDone(q)
    /\ UNCHANGED <<rep, job, agentVars, cluster, create, ttl, faults>>

(* ... then TerminateWorkflow, a patch without a version test.              *)
TerminatePatch(q) ==
    /\ req[q].pc = "patch"
    /\ ReqDone(q)
    /\ IF Exists(wf) THEN Store([wf EXCEPT !.deadline = TRUE])
                     ELSE UNCHANGED <<wf, watch>>
    /\ UNCHANGED <<rep, db, agentVars, clock, touches, create, ttl, faults>>

(* DeleteRun: the CR first, then the row. The deletion of the CR may fail   *)
(* with the CR still there: the error is logged and the row goes all the    *)
(* same.                                                                    *)
DeleteWorkflow(q) ==
    /\ req[q].pc = "ready"
    /\ IF RowExists
          THEN /\ ReqGo(q, "row")
               /\ (Exists(wf) /\ Store(Gone(wf))) \/ UNCHANGED <<wf, watch>>
          ELSE ReqDone(q) /\ UNCHANGED <<wf, watch>>
    /\ UNCHANGED <<rep, db, agentVars, clock, touches, create, ttl, faults>>

DeleteRow(q) ==
    /\ req[q].pc = "row"
    /\ ReqDone(q)
    /\ row' = NoRun
    /\ UNCHANGED <<rep, recorded, job, agentVars, cluster, create, ttl, faults>>

(* A request stops between two of its calls.                                *)
RequestFails(q) ==
    /\ req[q].pc \notin {"ready", "done"}
    /\ ReqDone(q)
    /\ UNCHANGED <<rep, db, agentVars, cluster, create, ttl, faults>>
-----------------------------------------------------------------------------
ReportStep(h) ==
    \/ ValidateUID(h) \/ GcPersisted(h) \/ CheckVersion(h) \/ ReadRun(h)
    \/ UpdateRun(h) \/ GcObsolete(h) \/ CreateFromReport(h) \/ PluginRunEnd(h)
    \/ VerifyRun(h) \/ LabelWorkflow(h) \/ ReportTasks(h)

RetryStep(q) ==
    \/ RetryRead(q) \/ RetryGet(q) \/ RetryUpdate(q) \/ RetryCreate(q)
    \/ RetryNotify(q) \/ RetryRow(q)

Next ==
    \/ CreateWorkflow \/ InsertRun \/ CreateRunFails
    \/ ArgoStart \/ ArgoFinish \/ ArgoTouch \/ TtlPasses \/ DeleteJob
    \/ Deliver \/ Resync \/ AgentSkips \/ AgentTimeout \/ AgentRestart
    \/ \E h \in Reporters :
          AgentReports(h) \/ ReportStep(h) \/ ReportFails(h) \/ ReadRunFails(h)
    \/ \E q \in Retriers : RetryStep(q)
    \/ \E q \in Terminators : TerminateRow(q) \/ TerminatePatch(q)
    \/ \E q \in Deleters : DeleteWorkflow(q) \/ DeleteRow(q)
    \/ \E q \in Requests : RequestFails(q)

Spec == Init /\ [][Next]_vars

(***************************************************************************)
(* Fairness: the informer delivers and resyncs, the agent's worker loop    *)
(* runs, the API server executes the reports it accepted, time passes.     *)
(* The requests that have begun go on.  Users owe nothing.                 *)
(***************************************************************************)
Fairness ==
    /\ WF_vars(InsertRun \/ CreateRunFails)
    /\ WF_vars(Deliver) /\ WF_vars(Resync) /\ WF_vars(AgentSkips)
    /\ WF_vars(\E h \in Reporters : AgentReports(h))
    /\ \A h \in Reporters : WF_vars(ReportStep(h))
    /\ \A q \in Retriers : WF_vars(RetryStep(q) /\ req[q].pc # "ready")
    /\ \A q \in Terminators : WF_vars(TerminatePatch(q))
    /\ \A q \in Deleters : WF_vars(DeleteRow(q))

ArgoFairness == WF_vars(ArgoFinish) /\ WF_vars(TtlPasses)

FairSpec == Spec /\ Fairness /\ ArgoFairness
-----------------------------------------------------------------------------
ReportPcs == {"idle", "uid", "gc", "version", "getRun", "update", "obsolete",
              "create", "plugin", "verify", "label", "tasks"}
RequestPcs == {"ready", "get", "update", "create", "plugin", "row", "patch", "done"}

(* Every variable keeps its type.                                           *)
TypeOK ==
    /\ wf \in Workflow /\ cache \in Workflow /\ watch \subseteq Workflow
    /\ row \in Run /\ recorded \subseteq (States \X Nat)
    /\ queued \in BOOLEAN /\ job \in BOOLEAN
    /\ agent \in Reporters \cup {NoReporter}
    /\ create \in {"ready", "insert", "done", "failed"}
    /\ rep \in [Reporters -> [pc : ReportPcs, snap : Workflow, plug : PluginOutputs]]
    /\ req \in [Requests -> [pc : RequestPcs, spec : Workflow, plug : PluginOutputs]]
    /\ clock \in Nat /\ ttl \in Nat /\ faults \in Nat /\ timeouts \in Nat /\ touches \in Nat

(* The label PersistedFinalState is only ever on a workflow in a final      *)
(* phase: a terminal report that is overtaken by RetryRun does not label    *)
(* the workflow that runs again (addWorkflowLabelIfWorkflowUnchanged).      *)
LabelOnlyOnFinal == wf.label => IsInFinalState(wf)

(* The label promises that the database has seen the final state: the row   *)
(* once held exactly the state and finish time of the labelled workflow, so *)
(* the CR may be collected (ReportWorkflowResource).                        *)
LabelMeansRecorded == wf.label => <<StateOf(wf), wf.fin>> \in recorded

(* The comment on PersistedFinalState: "If the label exist, workflow final  *)
(* state has being persisted", that is, the row holds it.                   *)
LabelledIsPersisted ==
    wf.label /\ RowExists => row.state = StateOf(wf) /\ row.fin = wf.fin

(* When a report of a labelled version deletes the CR, the last trace of    *)
(* the workflow but for the row, the row holds its final state and finish   *)
(* time (without retries: the CR is deleted by name).                       *)
OnlyPersistedIsCollected ==
    [][\A h \in Reporters :
          rep[h].pc = "gc" /\ rep'[h].pc # "gc" /\ Exists(wf) /\ ~Exists(wf') /\ RowExists
             => row.state = StateOf(wf) /\ row.fin = wf.fin]_vars

(* A final state in the row is final: without retries, and as long as the   *)
(* agent waits for its reports, no report, termination or late event takes  *)
(* a finished run back to an unfinished state.                              *)
FinalStateIsStable ==
    [][row.state \in FinalStates => row'.state \in {row.state, "NONE"}]_vars

(* The row of a deleted one-off run does not come back, whatever reports    *)
(* and retries of it are under way (RunStore.UpdateRun never inserts).      *)
DeletedStaysDeleted ==
    [][(create \in {"done", "failed"} /\ ~RowExists) => row'.state = "NONE"]_vars

(* A finished workflow gets the label, unless it is retried or deleted or   *)
(* its recurring run is gone.                                               *)
FinishedIsLabelled ==
    IsInFinalState(wf) /\ ~wf.label
       ~> wf.label \/ ~IsInFinalState(wf) \/ (Recurring /\ ~job)

(* The workflow of a one-off run that has no row does not leak: it is       *)
(* deleted from the cluster, be its creation interrupted, its run deleted   *)
(* or the CR brought back by a retry.                                       *)
ObsoleteIsCollected == Exists(wf) /\ ~RowExists ~> ~Exists(wf) \/ RowExists

(* A run settles: its row ends up, for good, in a final state.              *)
RunSettles == <>[](RowExists => row.state \in FinalStates)
=============================================================================
