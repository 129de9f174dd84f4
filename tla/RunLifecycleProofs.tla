------------------------- MODULE RunLifecycleProofs -------------------------
(***************************************************************************)
(* What the label PersistedFinalState means, and what the row of a         *)
(* finished run keeps, proved for any number of                            *)
(* concurrent reports and requests, one-off and recurring runs alike.      *)
(*                                                                         *)
(* The argument: two versions of the CR with the same resourceVersion are  *)
(* the same object (VersionInv), so the patch that tests resourceVersion   *)
(* labels exactly the workflow that was reported; that one is final and    *)
(* its state was read back from the row just before (ReportInv).           *)
(***************************************************************************)
EXTENDS RunLifecycle, TLAPS

ReportType == [pc : ReportPcs, snap : Workflow, plug : PluginOutputs]
RequestType == [pc : RequestPcs, spec : Workflow, plug : PluginOutputs]

(* w is an earlier version of the CR, or the current one.                   *)
IsVersion(w) == w.ver <= wf.ver /\ (w.ver = wf.ver => w = wf)

VersionInv ==
    /\ IsVersion(NoWorkflow)
    /\ IsVersion(cache)
    /\ \A w \in watch : IsVersion(w)
    /\ \A h \in Reporters : IsVersion(rep[h].snap)

IsRecorded(w) == <<StateOf(w), w.fin>> \in recorded

ReportInv ==
    \A h \in Reporters :
       /\ rep[h].pc \in {"plugin", "verify", "label"} => IsInFinalState(rep[h].snap)
       /\ rep[h].pc = "label" => IsRecorded(rep[h].snap)

RowInv == row.state \in FinalStates => <<row.state, row.fin>> \in recorded

RequestInv == \A q \in Requests : ~req[q].spec.label

LabelInv == LabelOnlyOnFinal /\ LabelMeansRecorded

IInv == TypeOK /\ VersionInv /\ ReportInv /\ RowInv /\ RequestInv /\ LabelInv
-----------------------------------------------------------------------------
(* The constant records are workflows, rows, reports and requests.          *)
LEMMA ConstantTypes ==
    /\ NoWorkflow \in Workflow
    /\ NoRun \in Run /\ CreatedRun \in Run
    /\ IdleReport \in ReportType /\ FreshRequest \in RequestType
    /\ DoneRequest \in RequestType
BY ConstantsAssumption
   DEF NoWorkflow, Workflow, NoRun, CreatedRun, InitialPlugins, Run, IdleReport,
       FreshRequest, DoneRequest, ReportType, RequestType, Phases, States, FinalStates,
       PluginOutputs, ReportPcs, RequestPcs

(* Deleting a workflow and creating one anew give workflows.                *)
LEMMA GoneType ==
    ASSUME NEW w \in Workflow
    PROVE  Gone(w) \in Workflow /\ NewWorkflow(w) \in Workflow
BY DEF Gone, NewWorkflow, Workflow, Phases

(* GenerateRetryExecution gives a workflow without the label.               *)
LEMMA RetryExecutionType ==
    ASSUME NEW w \in Workflow
    PROVE  RetryExecution(w) \in Workflow /\ ~RetryExecution(w).label
BY DEF RetryExecution, Workflow, Phases

(* A reported workflow has a state, a final one iff its phase is final.     *)
LEMMA StateOfType ==
    ASSUME NEW w \in Workflow
    PROVE  /\ StateOf(w) \in States \ {"NONE"}
           /\ IsInFinalState(w) => StateOf(w) \in FinalStates
BY DEF StateOf, States, FinalStates, IsTerminating, IsInFinalState, FinalPhases,
       Workflow, Phases

(* What a write to the Kubernetes API leaves behind.                        *)
LEMMA StoreEffect ==
    ASSUME TypeOK, NEW w \in Workflow, Store(w)
    PROVE  /\ wf' \in Workflow /\ watch' \subseteq Workflow
           /\ wf'.ver = wf.ver + 1 /\ wf'.phase = w.phase /\ wf'.fin = w.fin
           /\ wf'.deadline = w.deadline /\ wf'.label = w.label
           /\ watch' = watch \cup {wf'}
BY DEF TypeOK, Store, Workflow

(* What a write to run_details leaves behind.                               *)
LEMMA SaveRowEffect ==
    ASSUME TypeOK, NEW r \in Run, SaveRow(r)
    PROVE  /\ row' \in Run /\ recorded' \subseteq (States \X Nat)
           /\ recorded \subseteq recorded' /\ RowInv'
BY DEF TypeOK, SaveRow, Run, RowInv

(* A report that moves on keeps what it reports.                            *)
LEMMA GoEffect ==
    ASSUME TypeOK, NEW h \in Reporters, NEW pc \in ReportPcs, Go(h, pc)
    PROVE  /\ rep' \in [Reporters -> ReportType]
           /\ rep'[h].pc = pc /\ rep'[h].snap = rep[h].snap
           /\ \A k \in Reporters \ {h} : rep'[k] = rep[k]
           /\ cache' = cache /\ queued' = queued /\ agent' = agent
           /\ timeouts' = timeouts
BY DEF TypeOK, Go, ReportType

(* A report that ends leaves its slot idle.                                 *)
LEMMA EndEffect ==
    ASSUME TypeOK, NEW h \in Reporters, NEW result, End(h, result)
    PROVE  /\ rep' \in [Reporters -> ReportType]
           /\ rep'[h] = IdleReport
           /\ \A k \in Reporters \ {h} : rep'[k] = rep[k]
           /\ cache' = cache /\ timeouts' = timeouts
           /\ queued' \in BOOLEAN /\ agent' \in Reporters \cup {NoReporter}
BY ConstantTypes DEF TypeOK, End, ReportType

(* A request that moves on or ends.                                         *)
LEMMA ReqEffect ==
    ASSUME TypeOK, NEW q \in Requests, NEW pc \in RequestPcs,
           ReqGo(q, pc) \/ ReqDone(q)
    PROVE  /\ req' \in [Requests -> RequestType]
           /\ RequestInv => RequestInv'
<1>1. CASE ReqGo(q, pc)
  BY <1>1 DEF TypeOK, ReqGo, RequestType, RequestInv
<1>2. CASE ReqDone(q)
  <2>1. req' \in [Requests -> RequestType] /\ req'[q] = DoneRequest
        /\ \A k \in Requests \ {q} : req'[k] = req[k]
    BY <1>2, ConstantTypes DEF TypeOK, ReqDone, RequestType
  <2>2. RequestInv => RequestInv'
    BY <2>1 DEF RequestInv, DoneRequest, NoWorkflow
  <2> QED BY <2>1, <2>2
<1> QED BY <1>1, <1>2

(* The version invariant survives every step that does not write the CR ... *)
LEMMA VersionFrame ==
    ASSUME TypeOK, VersionInv, wf' = wf,
           cache' \in watch \cup {cache, wf},
           watch' \subseteq watch,
           \A h \in Reporters : rep'[h].snap \in {rep[h].snap, cache, NoWorkflow}
    PROVE  VersionInv'
<1>1. IsVersion(wf)
  BY DEF IsVersion, TypeOK, Workflow
<1>2. IsVersion(cache') /\ \A w \in watch' : IsVersion(w)
  BY <1>1 DEF VersionInv
<1>3. \A h \in Reporters : IsVersion(rep'[h].snap)
  BY DEF VersionInv
<1> QED BY <1>2, <1>3 DEF VersionInv, IsVersion

(* ... and every write of the CR, since it takes a new version.             *)
LEMMA VersionStore ==
    ASSUME TypeOK, VersionInv, NEW w \in Workflow, Store(w), cache' = cache,
           \A h \in Reporters : rep'[h].snap \in {rep[h].snap, NoWorkflow}
    PROVE  VersionInv'
<1>1. wf.ver \in Nat /\ wf'.ver = wf.ver + 1 /\ watch' = watch \cup {wf'}
  BY StoreEffect DEF TypeOK, Workflow
<1>2. \A v : IsVersion(v) /\ v.ver \in Nat => v.ver <= wf'.ver /\ v.ver # wf'.ver
  BY <1>1 DEF IsVersion
<1>3. /\ NoWorkflow.ver \in Nat /\ cache.ver \in Nat
      /\ \A v \in watch : v.ver \in Nat
      /\ \A h \in Reporters : rep[h].snap.ver \in Nat
  BY DEF TypeOK, NoWorkflow, Workflow
<1>4. wf'.ver <= wf'.ver
  BY <1>1
<1> QED BY <1>1, <1>2, <1>3, <1>4 DEF VersionInv, IsVersion

(* Where a report goes after its first check and after it wrote the row.    *)
LEMMA NextPcs ==
    ASSUME NEW snap \in Workflow, NEW plug
    PROVE  /\ AfterUid(snap) \in {"gc", "version", "getRun"}
           /\ AfterGc(snap) \in {"version", "getRun"}
           /\ AfterRow(snap, plug) \in {"tasks", "plugin", "verify"}
           /\ AfterRow(snap, plug) # "tasks" => IsInFinalState(snap)
BY DEF AfterUid, AfterGc, AfterRow, Workflow

(* The row a report writes is a row.                                        *)
LEMMA ReportedRow ==
    ASSUME NEW snap \in Workflow, NEW plug \in PluginOutputs
    PROVE  [state |-> StateOf(snap), fin |-> snap.fin, man |-> snap, plug |-> plug] \in Run
BY StateOfType DEF Run, Workflow
-----------------------------------------------------------------------------
(* Each step of a report keeps the types.                                   *)
LEMMA ReportTypeStep ==
    ASSUME TypeOK, NEW h \in Reporters,
           ReportStep(h) \/ ReportFails(h) \/ ReadRunFails(h)
    PROVE  TypeOK'
<1> USE DEF db, cluster, agentVars, ReportType
<1>0. rep[h].snap \in Workflow /\ rep[h].plug \in PluginOutputs /\ rep[h].pc \in ReportPcs
      /\ row.plug \in PluginOutputs /\ "none" \in PluginOutputs
  BY DEF TypeOK, Run, PluginOutputs
<1> DEFINE pcs == {"gc", "version", "getRun", "tasks", "plugin", "verify", "label"}
<1>p. pcs \subseteq ReportPcs
  BY DEF ReportPcs
<1>r. ASSUME NEW pc \in pcs, NEW result, Go(h, pc) \/ End(h, result)
      PROVE  /\ rep' \in [Reporters -> ReportType] /\ cache' = cache /\ timeouts' = timeouts
             /\ queued' \in BOOLEAN /\ agent' \in Reporters \cup {NoReporter}
  BY <1>r, <1>p, GoEffect, EndEffect DEF TypeOK
<1>1. CASE ValidateUID(h)
  BY <1>1, <1>r, <1>0, NextPcs DEF ValidateUID, TypeOK
<1>2. CASE GcPersisted(h)
  <2>1. wf' \in Workflow /\ watch' \subseteq Workflow
    BY <1>2, GoneType, StoreEffect DEF GcPersisted, TypeOK
  <2> QED BY <1>2, <1>r, <1>0, <2>1, NextPcs DEF GcPersisted, TypeOK
<1>3. CASE CheckVersion(h)
  BY <1>3, <1>r DEF CheckVersion, TypeOK
<1>4. CASE ReadRun(h)
  <2> DEFINE next == CASE RowExists -> "update"
                       [] ~RowExists /\ Recurring -> "create"
                       [] OTHER -> "obsolete"
  <2>1. next \in ReportPcs
    BY DEF ReportPcs
  <2>2. rep' = [rep EXCEPT ![h].pc = next, ![h].plug = row.plug]
    BY <1>4 DEF ReadRun
  <2> HIDE DEF next
  <2>3. rep' \in [Reporters -> ReportType]
    BY <1>0, <2>1, <2>2 DEF TypeOK
  <2> QED BY <1>4, <2>3 DEF ReadRun, TypeOK
<1>5. CASE UpdateRun(h)
  <2> DEFINE plug == IF rep[h].plug = "none" THEN row.plug ELSE rep[h].plug
             r == [state |-> StateOf(rep[h].snap), fin |-> rep[h].snap.fin,
                   man |-> rep[h].snap, plug |-> plug]
  <2>1. r \in Run
    BY <1>0, ReportedRow
  <2>2. SaveRow(r) \/ UNCHANGED <<row, recorded>>
    BY <1>5 DEF UpdateRun
  <2>3. row' \in Run /\ recorded' \subseteq (States \X Nat)
    BY <2>1, <2>2, SaveRowEffect DEF TypeOK
  <2> QED BY <1>5, <1>r, <1>0, <2>3, NextPcs DEF UpdateRun, TypeOK
<1>6. CASE GcObsolete(h)
  <2>1. wf' \in Workflow /\ watch' \subseteq Workflow
    BY <1>6, GoneType, StoreEffect DEF GcObsolete, TypeOK
  <2> QED BY <1>6, <1>r, <2>1 DEF GcObsolete, TypeOK
<1>7. CASE CreateFromReport(h)
  <2> DEFINE r == [state |-> StateOf(rep[h].snap), fin |-> rep[h].snap.fin,
                   man |-> rep[h].snap, plug |-> "none"]
  <2>1. r \in Run
    BY <1>0, ReportedRow
  <2>2. SaveRow(r) \/ UNCHANGED <<row, recorded>>
    BY <1>7 DEF CreateFromReport
  <2>3. row' \in Run /\ recorded' \subseteq (States \X Nat)
    BY <2>1, <2>2, SaveRowEffect DEF TypeOK
  <2> QED BY <1>7, <1>r, <1>0, <2>3, NextPcs DEF CreateFromReport, TypeOK
<1>8. CASE PluginRunEnd(h)
  <2>1. row' \in Run
    BY <1>8 DEF PluginRunEnd, TypeOK, Run, PluginOutputs
  <2> QED BY <1>8, <1>r, <2>1 DEF PluginRunEnd, TypeOK
<1>9. CASE VerifyRun(h)
  BY <1>9, <1>r DEF VerifyRun, TypeOK
<1>10. CASE LabelWorkflow(h)
  <2>1. [wf EXCEPT !.label = TRUE] \in Workflow
    BY DEF TypeOK, Workflow
  <2>2. wf' \in Workflow /\ watch' \subseteq Workflow
    BY <1>10, <2>1, StoreEffect DEF LabelWorkflow, TypeOK
  <2> QED BY <1>10, <1>r, <2>2 DEF LabelWorkflow, TypeOK
<1>11. CASE ReportTasks(h)
  BY <1>11, <1>r DEF ReportTasks, TypeOK
<1>12. CASE ReportFails(h)
  BY <1>12, <1>r DEF ReportFails, TypeOK
<1>13. CASE ReadRunFails(h)
  <2>1. rep' = [rep EXCEPT ![h].pc = "create"] /\ "create" \in ReportPcs
    BY <1>13 DEF ReadRunFails, Go, ReportPcs
  <2>2. rep' \in [Reporters -> ReportType]
    BY <1>0, <2>1 DEF TypeOK
  <2> QED BY <1>13, <2>2 DEF ReadRunFails, Go, TypeOK
<1> QED BY <1>1, <1>2, <1>3, <1>4, <1>5, <1>6, <1>7, <1>8, <1>9, <1>10, <1>11, <1>12, <1>13
        DEF ReportStep

(* Each step of a user's request keeps the types.                           *)
LEMMA RequestTypeStep ==
    ASSUME TypeOK, NEW q \in Requests,
           \/ RetryStep(q) \/ RequestFails(q)
           \/ TerminateRow(q) \/ TerminatePatch(q)
           \/ DeleteWorkflow(q) \/ DeleteRow(q)
    PROVE  TypeOK'
<1> USE DEF db, cluster, agentVars, RequestType
<1>0. req[q].spec \in Workflow /\ req[q].plug \in PluginOutputs /\ wf \in Workflow
  BY DEF TypeOK
<1>p. {"get", "update", "create", "plugin", "row", "patch", "done"} \subseteq RequestPcs
  BY DEF RequestPcs
<1>r. ASSUME NEW pc \in RequestPcs, ReqGo(q, pc) \/ ReqDone(q)
      PROVE  req' \in [Requests -> RequestType]
  BY <1>r, ReqEffect
<1>a. AfterRetry(q) \in {"row", "plugin"}
  BY DEF AfterRetry
<1>1. CASE RetryRead(q)
  <2>1. row.man \in Workflow /\ row.plug \in PluginOutputs
    BY DEF TypeOK, Run
  <2>2. req' \in [Requests -> RequestType]
    BY <1>1, <1>r, <1>p, <2>1, RetryExecutionType DEF RetryRead, TypeOK
  <2> QED BY <1>1, <2>2 DEF RetryRead, TypeOK
<1>2. CASE RetryGet(q)
  <2>1. CASE Exists(wf)
    <3>1. [req[q].spec EXCEPT !.ver = wf.ver] \in Workflow
      BY <1>0 DEF Workflow
    <3>2. req' = [req EXCEPT ![q].pc = "update", ![q].spec.ver = wf.ver]
      BY <1>2, <2>1 DEF RetryGet
    <3>3. req' \in [Requests -> RequestType]
      BY <3>1, <3>2, <1>p DEF TypeOK
    <3> QED BY <1>2, <3>3 DEF RetryGet, TypeOK
  <2>2. CASE ~Exists(wf)
    BY <1>2, <2>2, <1>r, <1>p DEF RetryGet, TypeOK
  <2> QED BY <2>1, <2>2
<1>3. CASE RetryUpdate(q)
  <2>1. wf' \in Workflow /\ watch' \subseteq Workflow
    BY <1>3, <1>0, StoreEffect DEF RetryUpdate, TypeOK
  <2>2. req' \in [Requests -> RequestType]
    BY <1>3, <1>r, <1>p, <1>a DEF RetryUpdate
  <2> QED BY <1>3, <2>1, <2>2 DEF RetryUpdate, TypeOK
<1>4. CASE RetryCreate(q)
  <2> DEFINE w == [req[q].spec EXCEPT !.uid = wf.uid + 1]
  <2>1. w \in Workflow
    BY <1>0 DEF Workflow
  <2>2. wf' \in Workflow /\ watch' \subseteq Workflow
    BY <1>4, <2>1, StoreEffect DEF RetryCreate, TypeOK
  <2>3. req' \in [Requests -> RequestType]
    BY <1>4, <1>r, <1>p, <1>a, <2>2 DEF RetryCreate, TypeOK
  <2> QED BY <1>4, <2>2, <2>3 DEF RetryCreate, TypeOK
<1>5. CASE RetryNotify(q)
  <2>1. row' \in Run
    BY <1>5 DEF RetryNotify, TypeOK, Run, PluginOutputs
  <2> QED BY <1>5, <1>r, <1>p, <2>1 DEF RetryNotify, TypeOK
<1>6. CASE RetryRow(q)
  <2>1. [row EXCEPT !.state = "RUNNING", !.fin = 0, !.man = req[q].spec] \in Run
    BY <1>0 DEF TypeOK, Run, States
  <2>2. row' \in Run /\ recorded' \subseteq (States \X Nat)
    BY <1>6, <2>1, SaveRowEffect DEF RetryRow, TypeOK
  <2> QED BY <1>6, <1>r, <1>p, <2>2 DEF RetryRow, TypeOK
<1>7. CASE TerminateRow(q)
  <2>1. [row EXCEPT !.state = "CANCELING"] \in Run
    BY DEF TypeOK, Run, States
  <2>2. row' \in Run /\ recorded' \subseteq (States \X Nat)
    BY <1>7, <2>1, SaveRowEffect DEF TerminateRow, TypeOK
  <2> QED BY <1>7, <1>r, <1>p, <2>2 DEF TerminateRow, TypeOK
<1>8. CASE TerminatePatch(q)
  <2>1. [wf EXCEPT !.deadline = TRUE] \in Workflow
    BY <1>0 DEF Workflow
  <2>2. wf' \in Workflow /\ watch' \subseteq Workflow
    BY <1>8, <2>1, StoreEffect DEF TerminatePatch, TypeOK
  <2> QED BY <1>8, <1>r, <1>p, <2>2 DEF TerminatePatch, TypeOK
<1>9. CASE DeleteWorkflow(q)
  <2>1. wf' \in Workflow /\ watch' \subseteq Workflow
    BY <1>9, GoneType, StoreEffect DEF DeleteWorkflow, TypeOK
  <2> QED BY <1>9, <1>r, <1>p, <2>1 DEF DeleteWorkflow, TypeOK
<1>10. CASE DeleteRow(q)
  BY <1>10, <1>r, <1>p, ConstantTypes DEF DeleteRow, TypeOK
<1>11. CASE RequestFails(q)
  BY <1>11, <1>r, <1>p DEF RequestFails, TypeOK
<1> QED BY <1>1, <1>2, <1>3, <1>4, <1>5, <1>6, <1>7, <1>8, <1>9, <1>10, <1>11
        DEF RetryStep

(* Every step keeps the types.                                              *)
LEMMA TypeStep == TypeOK /\ [Next]_vars => TypeOK'
<1> SUFFICES ASSUME TypeOK, [Next]_vars PROVE TypeOK'
  OBVIOUS
<1> USE DEF db, cluster, agentVars
<1>1. CASE CreateWorkflow
  <2>1. wf' \in Workflow /\ watch' \subseteq Workflow
    BY <1>1, GoneType, StoreEffect DEF CreateWorkflow, TypeOK
  <2> QED BY <1>1, <2>1 DEF CreateWorkflow, TypeOK
<1>2. CASE InsertRun
  <2>1. row' \in Run /\ recorded' \subseteq (States \X Nat)
    BY <1>2, ConstantTypes, SaveRowEffect DEF InsertRun, TypeOK
  <2> QED BY <1>2, <2>1 DEF InsertRun, TypeOK
<1>3. CASE CreateRunFails
  BY <1>3 DEF CreateRunFails, TypeOK
<1>4. CASE ArgoStart
  <2>1. [wf EXCEPT !.phase = "Running"] \in Workflow
    BY DEF TypeOK, Workflow, Phases
  <2>2. wf' \in Workflow /\ watch' \subseteq Workflow
    BY <1>4, <2>1, StoreEffect DEF ArgoStart
  <2> QED BY <1>4, <2>2 DEF ArgoStart, TypeOK
<1>5. CASE ArgoFinish
  <2>1. PICK phase \in FinalPhases, t \in {clock, clock + 1} :
            clock' = t /\ Store([wf EXCEPT !.phase = phase, !.fin = t])
    BY <1>5 DEF ArgoFinish, FinalPhases
  <2>2. t \in Nat /\ phase \in Phases
    BY DEF TypeOK, FinalPhases, Phases
  <2>3. [wf EXCEPT !.phase = phase, !.fin = t] \in Workflow
    BY <2>2 DEF TypeOK, Workflow
  <2>4. wf' \in Workflow /\ watch' \subseteq Workflow
    BY <2>1, <2>3, StoreEffect
  <2> QED BY <1>5, <2>1, <2>2, <2>4 DEF ArgoFinish, TypeOK
<1>6. CASE ArgoTouch
  <2>1. wf' \in Workflow /\ watch' \subseteq Workflow
    BY <1>6, StoreEffect DEF ArgoTouch, TypeOK
  <2> QED BY <1>6, <2>1 DEF ArgoTouch, TypeOK
<1>7. CASE TtlPasses \/ DeleteJob
  <2>1. CASE TtlPasses
    BY <2>1 DEF TtlPasses, TypeOK
  <2>2. CASE DeleteJob
    BY <2>2 DEF DeleteJob, TypeOK
  <2> QED BY <1>7, <2>1, <2>2
<1>8. CASE Deliver
  BY <1>8 DEF Deliver, TypeOK
<1>9. CASE Resync \/ AgentSkips \/ AgentTimeout
  <2>1. CASE Resync
    BY <2>1 DEF Resync, TypeOK
  <2>2. CASE AgentSkips
    BY <2>2 DEF AgentSkips, TypeOK
  <2>3. CASE AgentTimeout
    BY <2>3 DEF AgentTimeout, TypeOK
  <2> QED BY <1>9, <2>1, <2>2, <2>3
<1>10. CASE AgentRestart
  BY <1>10 DEF AgentRestart, TypeOK, Exists
<1>11. ASSUME NEW h \in Reporters, AgentReports(h) PROVE TypeOK'
  <2>1. [pc |-> "uid", snap |-> cache, plug |-> "none"] \in ReportType
    BY DEF TypeOK, ReportType, ReportPcs, PluginOutputs
  <2>2. rep' \in [Reporters -> ReportType]
    BY <1>11, <2>1 DEF AgentReports, TypeOK, ReportType
  <2> QED BY <1>11, <2>2 DEF AgentReports, TypeOK, ReportType
<1>12. ASSUME NEW h \in Reporters, ReportStep(h) \/ ReportFails(h) \/ ReadRunFails(h) PROVE TypeOK'
  BY <1>12, ReportTypeStep
<1>13. CASE \/ \E q \in Retriers : RetryStep(q)
            \/ \E q \in Terminators : TerminateRow(q) \/ TerminatePatch(q)
            \/ \E q \in Deleters : DeleteWorkflow(q) \/ DeleteRow(q)
            \/ \E q \in Requests : RequestFails(q)
  BY <1>13, RequestTypeStep DEF Requests
<1>14. CASE UNCHANGED vars
  BY <1>14 DEF vars, TypeOK
<1> QED BY <1>1, <1>2, <1>3, <1>4, <1>5, <1>6, <1>7, <1>8, <1>9, <1>10, <1>11,
           <1>12, <1>13, <1>14 DEF Next
-----------------------------------------------------------------------------
(* Reports that stay where they are, or are not past the row, owe nothing.  *)
LEMMA ReportFrame ==
    ASSUME ReportInv, recorded \subseteq recorded',
           \A h \in Reporters :
              rep'[h] = rep[h] \/ rep'[h].pc \notin {"plugin", "verify", "label"}
    PROVE  ReportInv'
BY DEF ReportInv, IsRecorded

(* The CR as it was: the label says what it said.                           *)
LEMMA LabelFrame ==
    ASSUME LabelInv, wf' = wf, recorded \subseteq recorded'
    PROVE  LabelInv'
BY DEF LabelInv, LabelOnlyOnFinal, LabelMeansRecorded

(* The CR is written without the label: nothing is promised.                *)
LEMMA LabelStoreClear ==
    ASSUME TypeOK, NEW w \in Workflow, Store(w), ~w.label
    PROVE  LabelInv'
BY StoreEffect DEF LabelInv, LabelOnlyOnFinal, LabelMeansRecorded

(* A final workflow's state is decided by its phase alone.                  *)
LEMMA FinalStateByPhase ==
    ASSUME NEW v \in Workflow, NEW w \in Workflow, v.phase = w.phase, IsInFinalState(v)
    PROVE  StateOf(v) = StateOf(w) /\ IsInFinalState(w)
BY DEF StateOf, IsTerminating, IsInFinalState

(* The CR is written with the phase, finish time and label it had.          *)
LEMMA LabelStoreSame ==
    ASSUME TypeOK, LabelInv, NEW w \in Workflow, Store(w), recorded' = recorded,
           w.phase = wf.phase, w.fin = wf.fin, w.label = wf.label
    PROVE  LabelInv'
<1>1. wf' \in Workflow /\ wf'.phase = wf.phase /\ wf'.fin = wf.fin /\ wf'.label = wf.label
  BY StoreEffect
<1>2. CASE wf.label
  <2>1. IsInFinalState(wf) /\ wf \in Workflow
    BY <1>2 DEF LabelInv, LabelOnlyOnFinal, TypeOK
  <2>2. StateOf(wf') = StateOf(wf) /\ IsInFinalState(wf')
    BY <1>1, <2>1, FinalStateByPhase
  <2> QED BY <1>1, <1>2, <2>2 DEF LabelInv, LabelOnlyOnFinal, LabelMeansRecorded
<1>3. CASE ~wf.label
  BY <1>1, <1>3 DEF LabelInv, LabelOnlyOnFinal, LabelMeansRecorded
<1> QED BY <1>2, <1>3

(* The invariants other than the types.                                     *)
Rest == VersionInv /\ ReportInv /\ RowInv /\ RequestInv /\ LabelInv

(* Each step of a report keeps the invariants.                              *)
LEMMA ReportInvStep ==
    ASSUME IInv, NEW h \in Reporters,
           ReportStep(h) \/ ReportFails(h) \/ ReadRunFails(h)
    PROVE  Rest'
<1> USE DEF db, cluster, agentVars, Rest
<1>0. TypeOK /\ rep[h].snap \in Workflow /\ rep[h].plug \in PluginOutputs
      /\ row.plug \in PluginOutputs
  BY DEF IInv, TypeOK, Run
<1>i. IdleReport.pc = "idle" /\ IdleReport.snap = NoWorkflow
  BY DEF IdleReport
<1>p. {"gc", "version", "getRun", "tasks", "plugin", "verify", "label"} \subseteq ReportPcs
  BY DEF ReportPcs
<1>e. ASSUME NEW result, End(h, result), recorded \subseteq recorded'
      PROVE  /\ \A k \in Reporters : rep'[k].snap \in {rep[k].snap, NoWorkflow}
             /\ ReportInv' /\ cache' = cache
  <2>1. rep'[h] = IdleReport /\ \A k \in Reporters \ {h} : rep'[k] = rep[k]
    BY <1>e, <1>0, EndEffect
  <2> QED BY <1>e, <1>i, <1>0, <2>1, EndEffect, ReportFrame DEF IInv
<1>g. ASSUME NEW pc \in ReportPcs, Go(h, pc), recorded \subseteq recorded',
             pc \in {"plugin", "verify", "label"} => IsInFinalState(rep[h].snap),
             pc = "label" => IsRecorded(rep[h].snap)
      PROVE  /\ \A k \in Reporters : rep'[k].snap \in {rep[k].snap, NoWorkflow}
             /\ ReportInv' /\ cache' = cache
  <2>1. /\ rep'[h].pc = pc /\ rep'[h].snap = rep[h].snap /\ cache' = cache
        /\ \A k \in Reporters \ {h} : rep'[k] = rep[k]
    BY <1>g, <1>0, GoEffect
  <2>2. ReportInv'
    BY <1>g, <2>1 DEF ReportInv, IsRecorded, IInv
  <2> QED BY <2>1, <2>2
<1>v. ASSUME wf' = wf, watch' = watch, cache' = cache, req' = req,
             \A k \in Reporters : rep'[k].snap \in {rep[k].snap, NoWorkflow},
             recorded \subseteq recorded', ReportInv', RowInv'
      PROVE  Rest'
  <2>1. VersionInv'
    BY <1>v, VersionFrame DEF IInv
  <2>2. LabelInv'
    BY <1>v, LabelFrame DEF IInv
  <2> QED BY <1>v, <2>1, <2>2 DEF IInv, RequestInv
<1>s. ASSUME NEW w \in Workflow, Store(w), cache' = cache, req' = req,
             row' = row, recorded' = recorded,
             \A k \in Reporters : rep'[k].snap \in {rep[k].snap, NoWorkflow},
             ReportInv', LabelInv'
      PROVE  Rest'
  <2>1. VersionInv'
    BY <1>s, VersionStore DEF IInv
  <2> QED BY <1>s, <2>1 DEF IInv, RequestInv, RowInv
<1>u. row' = row /\ recorded' = recorded => RowInv' /\ recorded \subseteq recorded'
  BY DEF RowInv, IInv
<1>1. CASE ValidateUID(h) \/ CheckVersion(h) \/ ReportTasks(h) \/ ReportFails(h)
  <2>1. wf' = wf /\ watch' = watch /\ req' = req /\ row' = row /\ recorded' = recorded
    BY <1>1 DEF ValidateUID, CheckVersion, ReportTasks, ReportFails
  <2>2. \/ \E result \in {"ok", "transient", "permanent"} : End(h, result)
        \/ \E pc \in {"gc", "version", "getRun"} : Go(h, pc)
    BY <1>1, <1>0, NextPcs DEF ValidateUID, CheckVersion, ReportTasks, ReportFails
  <2>3. /\ \A k \in Reporters : rep'[k].snap \in {rep[k].snap, NoWorkflow}
        /\ ReportInv' /\ cache' = cache
    BY <2>1, <2>2, <1>e, <1>g, <1>p
  <2> QED BY <2>1, <2>3, <1>v, <1>u
<1>2. CASE GcPersisted(h) \/ GcObsolete(h)
  <2>1. req' = req /\ row' = row /\ recorded' = recorded
    BY <1>2 DEF GcPersisted, GcObsolete
  <2>2. \/ \E result \in {"permanent"} : End(h, result)
        \/ \E pc \in {"version", "getRun"} : Go(h, pc)
    BY <1>2, <1>0, NextPcs DEF GcPersisted, GcObsolete
  <2>3. /\ \A k \in Reporters : rep'[k].snap \in {rep[k].snap, NoWorkflow}
        /\ ReportInv' /\ cache' = cache
    BY <2>1, <2>2, <1>e, <1>g, <1>p
  <2>4. CASE wf' = wf /\ watch' = watch
    BY <2>1, <2>3, <2>4, <1>v, <1>u
  <2>5. CASE Store(Gone(wf))
    <3>1. Gone(wf) \in Workflow /\ ~Gone(wf).label
      BY <1>0, GoneType DEF TypeOK, Gone
    <3>2. LabelInv'
      BY <1>0, <2>5, <3>1, LabelStoreClear
    <3> QED BY <2>1, <2>3, <2>5, <3>1, <3>2, <1>s
  <2> QED BY <1>2, <2>4, <2>5 DEF GcPersisted, GcObsolete
<1>3. CASE ReadRun(h)
  <2>1. wf' = wf /\ watch' = watch /\ cache' = cache /\ req' = req /\ row' = row
        /\ recorded' = recorded
    BY <1>3 DEF ReadRun
  <2> DEFINE next == CASE RowExists -> "update"
                       [] ~RowExists /\ Recurring -> "create"
                       [] OTHER -> "obsolete"
  <2>2. next \in {"update", "create", "obsolete"}
    OBVIOUS
  <2>3. rep' = [rep EXCEPT ![h].pc = next, ![h].plug = row.plug]
    BY <1>3 DEF ReadRun
  <2> HIDE DEF next
  <2>4. /\ rep'[h].pc = next /\ rep'[h].snap = rep[h].snap
        /\ \A k \in Reporters \ {h} : rep'[k] = rep[k]
    BY <2>3, <1>0 DEF TypeOK
  <2>5. ReportInv'
    BY <2>1, <2>2, <2>4, ReportFrame DEF IInv
  <2> QED BY <2>1, <2>4, <2>5, <1>v, <1>u
<1>9. CASE ReadRunFails(h)
  <2>1. /\ wf' = wf /\ watch' = watch /\ req' = req /\ row' = row /\ recorded' = recorded
        /\ Go(h, "create") /\ "create" \in ReportPcs
    BY <1>9 DEF ReadRunFails, ReportPcs
  <2>2. /\ \A k \in Reporters : rep'[k].snap \in {rep[k].snap, NoWorkflow}
        /\ ReportInv' /\ cache' = cache
    BY <2>1, <1>g
  <2> QED BY <2>1, <2>2, <1>v, <1>u
<1>4. CASE UpdateRun(h)
  <2> DEFINE plug == IF rep[h].plug = "none" THEN row.plug ELSE rep[h].plug
             r == [state |-> StateOf(rep[h].snap), fin |-> rep[h].snap.fin,
                   man |-> rep[h].snap, plug |-> plug]
  <2>1. wf' = wf /\ watch' = watch /\ req' = req
    BY <1>4 DEF UpdateRun
  <2>2. r \in Run
    BY <1>0, ReportedRow
  <2>3. SaveRow(r) \/ (row' = row /\ recorded' = recorded)
    BY <1>4 DEF UpdateRun
  <2> HIDE DEF r
  <2>4. RowInv' /\ recorded \subseteq recorded'
    BY <1>0, <2>2, <2>3, <1>u, SaveRowEffect
  <2>5. End(h, "permanent") \/ Go(h, AfterRow(rep[h].snap, rep[h].plug))
    BY <1>4 DEF UpdateRun
  <2>6. /\ \A k \in Reporters : rep'[k].snap \in {rep[k].snap, NoWorkflow}
        /\ ReportInv' /\ cache' = cache
    BY <2>4, <2>5, <1>e, <1>g, <1>p, <1>0, NextPcs
  <2> QED BY <2>1, <2>4, <2>6, <1>v
<1>5. CASE CreateFromReport(h)
  <2> DEFINE r == [state |-> StateOf(rep[h].snap), fin |-> rep[h].snap.fin,
                   man |-> rep[h].snap, plug |-> "none"]
  <2>1. wf' = wf /\ watch' = watch /\ req' = req
    BY <1>5 DEF CreateFromReport
  <2>2. r \in Run
    BY <1>0, ReportedRow DEF PluginOutputs
  <2>3. SaveRow(r) \/ (row' = row /\ recorded' = recorded)
    BY <1>5 DEF CreateFromReport
  <2> HIDE DEF r
  <2>4. RowInv' /\ recorded \subseteq recorded'
    BY <1>0, <2>2, <2>3, <1>u, SaveRowEffect
  <2>5. End(h, "permanent") \/ \E plug \in PluginOutputs : Go(h, AfterRow(rep[h].snap, plug))
    BY <1>5, <1>0 DEF CreateFromReport, PluginOutputs
  <2>6. /\ \A k \in Reporters : rep'[k].snap \in {rep[k].snap, NoWorkflow}
        /\ ReportInv' /\ cache' = cache
    BY <2>4, <2>5, <1>e, <1>g, <1>p, <1>0, NextPcs
  <2> QED BY <2>1, <2>4, <2>6, <1>v
<1>6. CASE PluginRunEnd(h)
  <2>1. wf' = wf /\ watch' = watch /\ req' = req /\ recorded' = recorded
    BY <1>6 DEF PluginRunEnd
  <2>2. row'.state = row.state /\ row'.fin = row.fin
    BY <1>6, <1>0 DEF PluginRunEnd, TypeOK, Run
  <2>3. IsInFinalState(rep[h].snap)
    BY <1>6 DEF PluginRunEnd, At, IInv, ReportInv
  <2>4. End(h, "transient") \/ Go(h, "verify")
    BY <1>6 DEF PluginRunEnd
  <2>5. /\ \A k \in Reporters : rep'[k].snap \in {rep[k].snap, NoWorkflow}
        /\ ReportInv' /\ cache' = cache
    BY <2>1, <2>3, <2>4, <1>e, <1>g, <1>p
  <2> QED BY <2>1, <2>2, <2>5, <1>v DEF RowInv, IInv
<1>7. CASE VerifyRun(h)
  <2>1. wf' = wf /\ watch' = watch /\ req' = req /\ row' = row /\ recorded' = recorded
    BY <1>7 DEF VerifyRun
  <2>2. IsInFinalState(rep[h].snap)
    BY <1>7 DEF VerifyRun, At, IInv, ReportInv
  <2>3. \/ \E result \in {"transient", "permanent"} : End(h, result)
        \/ Go(h, "label") /\ row.state = StateOf(rep[h].snap) /\ row.fin = rep[h].snap.fin
    BY <1>7 DEF VerifyRun
  <2>4. row.state = StateOf(rep[h].snap) /\ row.fin = rep[h].snap.fin => IsRecorded(rep[h].snap)
    BY <1>0, <2>2, StateOfType DEF IInv, RowInv, IsRecorded
  <2>5. /\ \A k \in Reporters : rep'[k].snap \in {rep[k].snap, NoWorkflow}
        /\ ReportInv' /\ cache' = cache
    BY <2>1, <2>2, <2>3, <2>4, <1>e, <1>g, <1>p
  <2> QED BY <2>1, <2>5, <1>v, <1>u
<1>8. CASE LabelWorkflow(h)
  <2>1. req' = req /\ row' = row /\ recorded' = recorded
    BY <1>8 DEF LabelWorkflow
  <2>2. IsInFinalState(rep[h].snap) /\ IsRecorded(rep[h].snap)
    BY <1>8 DEF LabelWorkflow, At, IInv, ReportInv
  <2>3. /\ \A k \in Reporters : rep'[k].snap \in {rep[k].snap, NoWorkflow}
        /\ ReportInv' /\ cache' = cache
    BY <1>8, <2>1, <1>e, <1>g, <1>p DEF LabelWorkflow
  <2>4. CASE wf' = wf /\ watch' = watch
    BY <2>1, <2>3, <2>4, <1>v, <1>u
  <2>5. CASE Store([wf EXCEPT !.label = TRUE]) /\ wf.ver = rep[h].snap.ver
    <3> DEFINE w == [wf EXCEPT !.label = TRUE]
    <3>1. w \in Workflow /\ w.phase = wf.phase /\ w.fin = wf.fin
      BY <1>0 DEF TypeOK, Workflow
    <3>2. rep[h].snap = wf
      BY <2>5 DEF IInv, VersionInv, IsVersion
    <3>3. wf' \in Workflow /\ wf'.phase = wf.phase /\ wf'.fin = wf.fin
      BY <1>0, <2>5, <3>1, StoreEffect
    <3>4. StateOf(wf') = StateOf(wf) /\ IsInFinalState(wf')
      BY <1>0, <2>2, <3>2, <3>3, FinalStateByPhase
    <3>5. LabelInv'
      BY <2>1, <2>2, <3>2, <3>3, <3>4
         DEF LabelInv, LabelOnlyOnFinal, LabelMeansRecorded, IsRecorded
    <3> QED BY <2>1, <2>3, <2>5, <3>1, <3>5, <1>s
  <2> QED BY <1>8, <2>4, <2>5 DEF LabelWorkflow
<1> QED BY <1>1, <1>2, <1>3, <1>4, <1>5, <1>6, <1>7, <1>8, <1>9 DEF ReportStep

(* The steps that leave every report alone, split by what they write: the   *)
(* CR ...                                                                   *)
LEMMA StoreInvStep ==
    ASSUME IInv, NEW w \in Workflow, Store(w), cache' = cache, rep' = rep,
           row' = row, recorded' = recorded, RequestInv', LabelInv'
    PROVE  Rest'
<1>1. VersionInv'
  BY VersionStore DEF IInv
<1>2. ReportInv'
  BY ReportFrame DEF IInv
<1> QED BY <1>1, <1>2 DEF Rest, IInv, RowInv

(* ... or at most the row.                                                  *)
LEMMA RowInvStep ==
    ASSUME IInv, wf' = wf, watch' \subseteq watch, cache' \in watch \cup {cache, wf},
           rep' = rep, recorded \subseteq recorded', RowInv', RequestInv'
    PROVE  Rest'
<1>1. VersionInv'
  BY VersionFrame DEF IInv
<1>2. ReportInv'
  BY ReportFrame DEF IInv
<1>3. LabelInv'
  BY LabelFrame DEF IInv
<1> QED BY <1>1, <1>2, <1>3 DEF Rest

(* Each step of a user's request keeps the invariants.                      *)
LEMMA RequestInvStep ==
    ASSUME IInv, NEW q \in Requests,
           \/ RetryStep(q) \/ RequestFails(q)
           \/ TerminateRow(q) \/ TerminatePatch(q)
           \/ DeleteWorkflow(q) \/ DeleteRow(q)
    PROVE  Rest'
<1> USE DEF db, cluster, agentVars
<1>0. TypeOK /\ req[q].spec \in Workflow /\ wf \in Workflow /\ ~req[q].spec.label
  BY DEF IInv, TypeOK, RequestInv
<1>p. {"get", "update", "create", "plugin", "row", "patch", "done"} \subseteq RequestPcs
  BY DEF RequestPcs
<1>r. ASSUME NEW pc \in RequestPcs, ReqGo(q, pc) \/ ReqDone(q)
      PROVE  RequestInv'
  BY <1>r, <1>0, ReqEffect DEF IInv
<1>a. AfterRetry(q) \in {"row", "plugin"}
  BY DEF AfterRetry
<1>u. row' = row /\ recorded' = recorded => RowInv' /\ recorded \subseteq recorded'
  BY DEF RowInv, IInv
<1>1. CASE RetryRead(q)
  <2>1. wf' = wf /\ watch' = watch /\ cache' = cache /\ rep' = rep /\ row' = row
        /\ recorded' = recorded
    BY <1>1 DEF RetryRead
  <2>2. row.man \in Workflow
    BY <1>0 DEF TypeOK, Run
  <2>3. CASE ReqDone(q)
    BY <2>1, <2>3, <1>r, <1>p, <1>u, RowInvStep
  <2>4. CASE req' = [req EXCEPT ![q] = [pc |-> "get", spec |-> RetryExecution(row.man),
                                        plug |-> row.plug]]
    <3>1. RequestInv'
      BY <2>2, <2>4, <1>0, RetryExecutionType DEF IInv, RequestInv, TypeOK
    <3> QED BY <2>1, <3>1, <1>u, RowInvStep
  <2> QED BY <1>1, <2>3, <2>4 DEF RetryRead
<1>2. CASE RetryGet(q)
  <2>1. wf' = wf /\ watch' = watch /\ cache' = cache /\ rep' = rep /\ row' = row
        /\ recorded' = recorded
    BY <1>2 DEF RetryGet
  <2>2. CASE req' = [req EXCEPT ![q].pc = "update", ![q].spec.ver = wf.ver]
    <3>1. req'[q].spec = [req[q].spec EXCEPT !.ver = wf.ver]
          /\ \A k \in Requests \ {q} : req'[k] = req[k]
      BY <2>2, <1>0 DEF TypeOK
    <3>2. RequestInv'
      BY <3>1, <1>0 DEF IInv, RequestInv, Workflow
    <3> QED BY <2>1, <3>2, <1>u, RowInvStep
  <2>3. CASE ReqGo(q, "create")
    BY <2>1, <2>3, <1>r, <1>p, <1>u, RowInvStep
  <2> QED BY <1>2, <2>2, <2>3 DEF RetryGet
<1>3. CASE RetryUpdate(q)
  <2>1. cache' = cache /\ rep' = rep /\ row' = row /\ recorded' = recorded
    BY <1>3 DEF RetryUpdate
  <2>2. RequestInv'
    BY <1>3, <1>r, <1>p, <1>a DEF RetryUpdate
  <2>3. CASE Store(req[q].spec)
    BY <2>1, <2>2, <2>3, <1>0, LabelStoreClear, StoreInvStep
  <2>4. CASE wf' = wf /\ watch' = watch
    BY <2>1, <2>2, <2>4, <1>u, RowInvStep
  <2> QED BY <1>3, <2>3, <2>4 DEF RetryUpdate
<1>4. CASE RetryCreate(q)
  <2>1. cache' = cache /\ rep' = rep /\ row' = row /\ recorded' = recorded
    BY <1>4 DEF RetryCreate
  <2>2. CASE ReqDone(q) /\ wf' = wf /\ watch' = watch
    BY <2>1, <2>2, <1>r, <1>p, <1>u, RowInvStep
  <2>3. CASE /\ Store([req[q].spec EXCEPT !.uid = wf.uid + 1])
             /\ req' = [req EXCEPT ![q].pc = AfterRetry(q), ![q].spec = wf']
    <3> DEFINE w == [req[q].spec EXCEPT !.uid = wf.uid + 1]
    <3>1. w \in Workflow /\ ~w.label
      BY <1>0 DEF Workflow
    <3>2. Store(w)
      BY <2>3
    <3> HIDE DEF w
    <3>3. ~wf'.label
      BY <1>0, <3>1, <3>2, StoreEffect
    <3>4. req'[q].spec = wf' /\ \A k \in Requests \ {q} : req'[k] = req[k]
      BY <2>3, <1>0 DEF TypeOK
    <3>5. RequestInv'
      BY <3>3, <3>4 DEF IInv, RequestInv
    <3>6. LabelInv'
      BY <1>0, <3>1, <3>2, LabelStoreClear
    <3> QED BY <2>1, <3>1, <3>2, <3>5, <3>6, StoreInvStep
  <2> QED BY <1>4, <2>2, <2>3 DEF RetryCreate
<1>5. CASE RetryNotify(q)
  <2>1. wf' = wf /\ watch' = watch /\ cache' = cache /\ rep' = rep /\ recorded' = recorded
    BY <1>5 DEF RetryNotify
  <2>2. row'.state = row.state /\ row'.fin = row.fin
    BY <1>5, <1>0 DEF RetryNotify, TypeOK, Run
  <2>3. RowInv'
    BY <2>1, <2>2 DEF IInv, RowInv
  <2>4. RequestInv'
    BY <1>5, <1>r, <1>p DEF RetryNotify
  <2> QED BY <2>1, <2>3, <2>4, RowInvStep
<1>6. CASE RetryRow(q)
  <2>1. wf' = wf /\ watch' = watch /\ cache' = cache /\ rep' = rep
    BY <1>6 DEF RetryRow
  <2>2. [row EXCEPT !.state = "RUNNING", !.fin = 0, !.man = req[q].spec] \in Run
    BY <1>0 DEF TypeOK, Run, States
  <2>3. RowInv' /\ recorded \subseteq recorded'
    BY <1>6, <1>0, <1>u, <2>2, SaveRowEffect DEF RetryRow
  <2>4. RequestInv'
    BY <1>6, <1>r, <1>p DEF RetryRow
  <2> QED BY <2>1, <2>3, <2>4, RowInvStep
<1>7. CASE TerminateRow(q)
  <2>1. wf' = wf /\ watch' = watch /\ cache' = cache /\ rep' = rep
    BY <1>7 DEF TerminateRow
  <2>2. [row EXCEPT !.state = "CANCELING"] \in Run
    BY <1>0 DEF TypeOK, Run, States
  <2>3. RowInv' /\ recorded \subseteq recorded'
    BY <1>7, <1>0, <1>u, <2>2, SaveRowEffect DEF TerminateRow
  <2>4. RequestInv'
    BY <1>7, <1>r, <1>p DEF TerminateRow
  <2> QED BY <2>1, <2>3, <2>4, RowInvStep
<1>8. CASE TerminatePatch(q)
  <2>1. cache' = cache /\ rep' = rep /\ row' = row /\ recorded' = recorded
    BY <1>8 DEF TerminatePatch
  <2>2. RequestInv'
    BY <1>8, <1>r, <1>p DEF TerminatePatch
  <2>3. CASE Store([wf EXCEPT !.deadline = TRUE])
    <3> DEFINE w == [wf EXCEPT !.deadline = TRUE]
    <3>1. /\ w \in Workflow
          /\ w.phase = wf.phase /\ w.fin = wf.fin /\ w.label = wf.label
      BY <1>0 DEF Workflow
    <3>2. Store(w)
      BY <2>3
    <3> HIDE DEF w
    <3>3. LabelInv'
      BY <1>0, <2>1, <3>1, <3>2, LabelStoreSame DEF IInv
    <3> QED BY <2>1, <2>2, <3>1, <3>2, <3>3, StoreInvStep
  <2>4. CASE wf' = wf /\ watch' = watch
    BY <2>1, <2>2, <2>4, <1>u, RowInvStep
  <2> QED BY <1>8, <2>3, <2>4 DEF TerminatePatch
<1>9. CASE DeleteWorkflow(q)
  <2>1. cache' = cache /\ rep' = rep /\ row' = row /\ recorded' = recorded
    BY <1>9 DEF DeleteWorkflow
  <2>2. RequestInv'
    BY <1>9, <1>r, <1>p DEF DeleteWorkflow
  <2>3. CASE Store(Gone(wf))
    <3>1. Gone(wf) \in Workflow /\ ~Gone(wf).label
      BY <1>0, GoneType DEF Gone
    <3> QED BY <2>1, <2>2, <2>3, <3>1, <1>0, LabelStoreClear, StoreInvStep
  <2>4. CASE wf' = wf /\ watch' = watch
    BY <2>1, <2>2, <2>4, <1>u, RowInvStep
  <2> QED BY <1>9, <2>3, <2>4 DEF DeleteWorkflow
<1>10. CASE DeleteRow(q)
  <2>1. wf' = wf /\ watch' = watch /\ cache' = cache /\ rep' = rep
        /\ recorded' = recorded /\ row' = NoRun
    BY <1>10 DEF DeleteRow
  <2>2. RowInv'
    BY <2>1 DEF RowInv, NoRun, FinalStates
  <2>3. RequestInv'
    BY <1>10, <1>r, <1>p DEF DeleteRow
  <2> QED BY <2>1, <2>2, <2>3, RowInvStep
<1>11. CASE RequestFails(q)
  <2>1. wf' = wf /\ watch' = watch /\ cache' = cache /\ rep' = rep /\ row' = row
        /\ recorded' = recorded
    BY <1>11 DEF RequestFails
  <2>2. RequestInv'
    BY <1>11, <1>r, <1>p DEF RequestFails
  <2> QED BY <2>1, <2>2, <1>u, RowInvStep
<1> QED BY <1>1, <1>2, <1>3, <1>4, <1>5, <1>6, <1>7, <1>8, <1>9, <1>10, <1>11
        DEF RetryStep

(* Every step keeps the inductive invariant.                                *)
LEMMA InvStep == IInv /\ [Next]_vars => IInv'
<1> SUFFICES ASSUME IInv, [Next]_vars PROVE IInv'
  OBVIOUS
<1>t. TypeOK /\ TypeOK' /\ wf \in Workflow /\ cache \in Workflow
  BY TypeStep DEF IInv, TypeOK
<1> SUFFICES Rest'
  BY <1>t DEF IInv, Rest
<1> USE DEF db, cluster, agentVars
<1>q. req' = req => RequestInv'
  BY DEF IInv, RequestInv
<1>u. row' = row /\ recorded' = recorded => RowInv' /\ recorded \subseteq recorded'
  BY DEF RowInv, IInv
<1>1. CASE CreateWorkflow
  <2>1. /\ Store(NewWorkflow(wf)) /\ cache' = cache /\ rep' = rep /\ req' = req
        /\ row' = row /\ recorded' = recorded
    BY <1>1 DEF CreateWorkflow
  <2>2. NewWorkflow(wf) \in Workflow /\ ~NewWorkflow(wf).label
    BY <1>t, GoneType DEF NewWorkflow
  <2> QED BY <2>1, <2>2, <1>t, <1>q, LabelStoreClear, StoreInvStep
<1>2. CASE InsertRun
  <2>1. /\ wf' = wf /\ watch' = watch /\ cache' = cache /\ rep' = rep /\ req' = req
        /\ SaveRow(CreatedRun) \/ (row' = row /\ recorded' = recorded)
    BY <1>2 DEF InsertRun
  <2>2. RowInv' /\ recorded \subseteq recorded'
    BY <2>1, <1>t, <1>u, ConstantTypes, SaveRowEffect
  <2> QED BY <2>1, <2>2, <1>q, RowInvStep
<1>3. CASE ArgoStart
  <2> DEFINE w == [wf EXCEPT !.phase = "Running"]
  <2>1. /\ Store(w) /\ cache' = cache /\ rep' = rep /\ req' = req
        /\ row' = row /\ recorded' = recorded
    BY <1>3 DEF ArgoStart
  <2>2. ~wf.label
    BY <1>3 DEF ArgoStart, IInv, LabelInv, LabelOnlyOnFinal, IsInFinalState, FinalPhases
  <2>3. w \in Workflow /\ ~w.label
    BY <1>t, <2>2 DEF Workflow, Phases
  <2> HIDE DEF w
  <2> QED BY <2>1, <2>3, <1>t, <1>q, LabelStoreClear, StoreInvStep
<1>4. CASE ArgoFinish
  <2>1. PICK phase \in FinalPhases, t \in {clock, clock + 1} :
            Store([wf EXCEPT !.phase = phase, !.fin = t])
    BY <1>4 DEF ArgoFinish, FinalPhases
  <2> DEFINE w == [wf EXCEPT !.phase = phase, !.fin = t]
  <2>2. /\ Store(w) /\ cache' = cache /\ rep' = rep /\ req' = req
        /\ row' = row /\ recorded' = recorded
    BY <1>4, <2>1 DEF ArgoFinish
  <2>3. ~wf.label
    BY <1>4 DEF ArgoFinish, IInv, LabelInv, LabelOnlyOnFinal, IsInFinalState, FinalPhases
  <2>4. t \in Nat /\ phase \in Phases
    BY <1>t DEF TypeOK, FinalPhases, Phases
  <2>5. w \in Workflow /\ ~w.label
    BY <1>t, <2>3, <2>4 DEF Workflow
  <2> HIDE DEF w
  <2> QED BY <2>2, <2>5, <1>t, <1>q, LabelStoreClear, StoreInvStep
<1>5. CASE ArgoTouch
  <2>1. /\ Store(wf) /\ cache' = cache /\ rep' = rep /\ req' = req
        /\ row' = row /\ recorded' = recorded
    BY <1>5 DEF ArgoTouch
  <2>2. LabelInv'
    BY <2>1, <1>t, LabelStoreSame DEF IInv
  <2> QED BY <2>1, <2>2, <1>t, <1>q, StoreInvStep
<1>6. CASE \/ CreateRunFails \/ TtlPasses \/ DeleteJob \/ Resync \/ AgentSkips
           \/ AgentTimeout \/ UNCHANGED vars
  <2>1. /\ wf' = wf /\ watch' = watch /\ cache' = cache /\ rep' = rep /\ req' = req
        /\ row' = row /\ recorded' = recorded
    BY <1>6 DEF CreateRunFails, TtlPasses, DeleteJob, Resync, AgentSkips, AgentTimeout, vars
  <2> QED BY <2>1, <1>q, <1>u, RowInvStep
<1>7. CASE Deliver \/ AgentRestart
  <2>1. /\ wf' = wf /\ rep' = rep /\ req' = req /\ row' = row /\ recorded' = recorded
        /\ watch' \subseteq watch /\ cache' \in watch \cup {cache, wf}
    BY <1>7 DEF Deliver, AgentRestart
  <2> QED BY <2>1, <1>q, <1>u, RowInvStep
<1>8. ASSUME NEW h \in Reporters, AgentReports(h) PROVE Rest'
  <2>1. /\ wf' = wf /\ watch' = watch /\ cache' = cache /\ req' = req
        /\ row' = row /\ recorded' = recorded
        /\ rep' = [rep EXCEPT ![h] = [pc |-> "uid", snap |-> cache, plug |-> "none"]]
    BY <1>8 DEF AgentReports
  <2>2. /\ rep'[h].pc = "uid" /\ rep'[h].snap = cache
        /\ \A k \in Reporters \ {h} : rep'[k] = rep[k]
    BY <2>1, <1>t DEF TypeOK
  <2>3. VersionInv'
    BY <2>1, <2>2, VersionFrame DEF IInv
  <2>4. ReportInv'
    BY <2>1, <2>2, ReportFrame DEF IInv
  <2>5. LabelInv'
    BY <2>1, LabelFrame DEF IInv
  <2> QED BY <2>1, <2>3, <2>4, <2>5, <1>q, <1>u DEF Rest
<1>9. ASSUME NEW h \in Reporters, ReportStep(h) \/ ReportFails(h) \/ ReadRunFails(h) PROVE Rest'
  BY <1>9, ReportInvStep
<1>10. CASE \/ \E q \in Retriers : RetryStep(q)
            \/ \E q \in Terminators : TerminateRow(q) \/ TerminatePatch(q)
            \/ \E q \in Deleters : DeleteWorkflow(q) \/ DeleteRow(q)
            \/ \E q \in Requests : RequestFails(q)
  BY <1>10, RequestInvStep DEF Requests
<1> QED BY <1>1, <1>2, <1>3, <1>4, <1>5, <1>6, <1>7, <1>8, <1>9, <1>10 DEF Next

(* The initial states satisfy the inductive invariant.                      *)
LEMMA InitInv == Init => IInv
<1> SUFFICES ASSUME Init PROVE IInv
  OBVIOUS
<1>1. wf \in Workflow /\ ~wf.label
      /\ wf.ver \in Nat /\ (wf.ver = 0 => wf = NoWorkflow)
  <2>1. CASE StartCreated
    <3> DEFINE n == NewWorkflow(NoWorkflow)
    <3>1. n \in Workflow /\ ~n.label
      BY ConstantTypes, GoneType DEF NewWorkflow
    <3>2. wf = [n EXCEPT !.ver = 1]
      BY <2>1 DEF Init
    <3> HIDE DEF n
    <3>3. wf \in Workflow /\ ~wf.label /\ wf.ver = 1
      BY <3>1, <3>2 DEF Workflow
    <3> QED BY <3>3
  <2>2. CASE ~StartCreated
    <3>1. wf = NoWorkflow
      BY <2>2 DEF Init
    <3> QED BY <3>1, ConstantTypes DEF NoWorkflow, Workflow
  <2> QED BY <2>1, <2>2
<1>2. row \in Run /\ row.state \notin FinalStates
  BY ConstantTypes DEF Init, NoRun, CreatedRun, FinalStates
<1>3. TypeOK
  <2>1. rep \in [Reporters -> ReportType] /\ req \in [Requests -> RequestType]
    BY ConstantTypes DEF Init
  <2>2. watch \subseteq Workflow /\ cache \in Workflow
    BY <1>1, ConstantTypes DEF Init
  <2>3. create \in {"ready", "insert", "done", "failed"} /\ job \in BOOLEAN
    BY ConstantsAssumption DEF Init
  <2> QED BY <1>1, <1>2, <2>1, <2>2, <2>3 DEF Init, TypeOK, ReportType, RequestType
<1>4. VersionInv
  <2>1. IsVersion(NoWorkflow)
    <3>1. NoWorkflow.ver = 0
      BY DEF NoWorkflow
    <3> QED BY <1>1, <3>1 DEF IsVersion
  <2>2. \A w \in watch : IsVersion(w)
    <3>1. IsVersion(wf)
      BY <1>1 DEF IsVersion
    <3>2. watch \subseteq {wf}
      BY DEF Init
    <3> QED BY <3>1, <3>2
  <2>3. \A h \in Reporters : rep[h].snap = NoWorkflow
    BY DEF Init, IdleReport
  <2> QED BY <2>1, <2>2, <2>3 DEF Init, VersionInv
<1>5. ReportInv /\ RequestInv
  BY DEF Init, ReportInv, RequestInv, IdleReport, FreshRequest, NoWorkflow
<1> QED BY <1>1, <1>2, <1>3, <1>4, <1>5
        DEF IInv, RowInv, LabelInv, LabelOnlyOnFinal, LabelMeansRecorded
-----------------------------------------------------------------------------
(* Every variable keeps its type.                                           *)
THEOREM TypeCorrect == Spec => []TypeOK
<1>1. Init => TypeOK
  BY InitInv DEF IInv
<1> QED BY <1>1, TypeStep, PTL DEF Spec

(* The inductive invariant holds.                                           *)
LEMMA Invariance == Spec => []IInv
BY InitInv, InvStep, PTL DEF Spec

(* addWorkflowLabelIfWorkflowUnchanged never labels a workflow that RetryRun*)
(* has set running again: only final workflows carry PersistedFinalState,   *)
(* however many reports, retries, terminations and deletions race.          *)
THEOREM LabelIsFinal == Spec => []LabelOnlyOnFinal
<1>1. IInv => LabelOnlyOnFinal
  BY DEF IInv, LabelInv
<1> QED BY <1>1, Invariance, PTL

(* Whenever the CR carries PersistedFinalState, run_details held its final  *)
(* state and finish time at some moment: ReportWorkflowResource labels no   *)
(* workflow whose outcome the database never saw.                           *)
THEOREM LabelIsRecorded == Spec => []LabelMeansRecorded
<1>1. IInv => LabelMeansRecorded
  BY DEF IInv, LabelInv
<1> QED BY <1>1, Invariance, PTL

-----------------------------------------------------------------------------
(***************************************************************************)
(* What the row of a run holds once the run has finished, proved for runs  *)
(* that nobody retries and an agent that waits for its reports (Calm).     *)
(*                                                                         *)
(* The argument: reports come one at a time, each of a version at least as *)
(* new as the one before (OrderInv), and no later version of the CR takes  *)
(* back a final phase, a finish time or the label (HistoryInv).  So all    *)
(* versions that can still be reported agree with a final row (StableInv). *)
(***************************************************************************)

(* Nobody retries the run, and the agent neither restarts nor gives up a    *)
(* report.                                                                  *)
Calm == Retriers = {} /\ MaxTimeouts = 0

Busy(h) == rep[h].pc # "idle"

OneReport == \A h \in Reporters : Busy(h) => agent = h /\ Exists(rep[h].snap)

(* The versions of the CR that somebody holds.                              *)
IsHeld(w) == \/ w = wf \/ w = cache \/ w \in watch
             \/ \E h \in Reporters : Busy(h) /\ w = rep[h].snap

(* What a version w, unless the CR is gone by then, keeps of an earlier v.  *)
Keeps(w, v) == Exists(w) => /\ v.label => w.label
                            /\ IsInFinalState(v) => w.phase = v.phase /\ w.fin = v.fin

OrderInv ==
    /\ \A w \in watch : cache.ver <= w.ver
    /\ \A h \in Reporters : Busy(h) => rep[h].snap.ver <= cache.ver

HistoryInv ==
    /\ \A v, w : IsHeld(v) /\ IsHeld(w) /\ v.ver <= w.ver => Keeps(w, v)
    /\ create = "ready" => row.state = "NONE" /\ \A w : IsHeld(w) => w = NoWorkflow

(* The row holds the state and the finish time of the version w.            *)
Holds(w) == row.state = StateOf(w) /\ row.fin = w.fin

StableInv == row.state \in FinalStates => \A w : IsHeld(w) /\ Exists(w) => Holds(w)

SInv == OneReport /\ OrderInv /\ HistoryInv /\ StableInv
-----------------------------------------------------------------------------
(* The row of a labelled workflow is not created anew: a recurring run is   *)
(* not deleted, and the row of a one-off run is only inserted by CreateRun. *)
RowStays ==
    IF Recurring
      THEN /\ wf.label => RowExists
           /\ \A h \in Reporters : rep[h].pc \in {"plugin", "verify", "label"} => RowExists
      ELSE /\ \A h \in Reporters : rep[h].pc # "create"
           /\ create \in {"ready", "insert"} =>
                /\ ~RowExists /\ ~wf.label
                /\ \A h \in Reporters : rep[h].pc \notin {"update", "plugin", "verify", "label"}
                /\ \A q \in Deleters : req[q].pc # "row"

PersistInv ==
    /\ LabelledIsPersisted
    /\ \A h \in Reporters : rep[h].pc = "label" /\ RowExists => Holds(rep[h].snap)
    /\ \A h \in Reporters : rep[h].pc = "gc" => rep[h].snap.label

PInv == RowStays /\ PersistInv
-----------------------------------------------------------------------------
(* Reports go on, or end, but none begins.                                  *)
NoneBegins == \A k \in Reporters :
    Busy(k)' => Busy(k) /\ rep'[k].snap = rep[k].snap /\ agent' = agent

(* A version that somebody holds is a workflow, the current one or earlier. *)
LEMMA HeldIsVersion ==
    ASSUME IInv, NEW w, IsHeld(w)
    PROVE  w \in Workflow /\ w.ver \in Nat /\ wf.ver \in Nat
           /\ w.ver <= wf.ver /\ (w.ver = wf.ver => w = wf)
<1>1. wf \in Workflow /\ wf.ver \in Nat /\ wf.ver <= wf.ver
  BY DEF IInv, TypeOK, Workflow
<1>2. CASE w = wf
  BY <1>1, <1>2
<1>3. CASE w = cache
  BY <1>1, <1>3 DEF IInv, TypeOK, VersionInv, IsVersion, Workflow
<1>4. CASE w \in watch
  BY <1>1, <1>4 DEF IInv, TypeOK, VersionInv, IsVersion, Workflow
<1>5. CASE \E h \in Reporters : w = rep[h].snap
  <2>1. PICK h \in Reporters : w = rep[h].snap
    BY <1>5
  <2>2. w \in Workflow
    BY <2>1 DEF IInv, TypeOK
  <2> QED BY <1>1, <2>1, <2>2 DEF IInv, VersionInv, IsVersion, Workflow
<1> QED BY <1>2, <1>3, <1>4, <1>5 DEF IsHeld

(* A workflow in a final phase has a final state, and no other has.         *)
LEMMA FinalStateOf ==
    ASSUME NEW w \in Workflow
    PROVE  /\ StateOf(w) \in FinalStates <=> IsInFinalState(w)
           /\ \A v \in Workflow :
                IsInFinalState(v) /\ w.phase = v.phase => StateOf(w) = StateOf(v)
<1>1. StateOf(w) \in FinalStates <=> IsInFinalState(w)
  BY DEF StateOf, FinalStates, IsTerminating, IsInFinalState, FinalPhases, Workflow, Phases
<1>2. ASSUME NEW v \in Workflow, IsInFinalState(v), w.phase = v.phase
      PROVE  StateOf(w) = StateOf(v)
  BY <1>2 DEF StateOf, IsTerminating, IsInFinalState, FinalPhases
<1> QED BY <1>1, <1>2

(* A report that moves on begins none, ...                                  *)
LEMMA GoBeginsNone ==
    ASSUME IInv, NEW h \in Reporters, Busy(h), NEW pc \in ReportPcs, Go(h, pc)
    PROVE  NoneBegins /\ cache' = cache
<1>1. /\ rep'[h].snap = rep[h].snap /\ agent' = agent /\ cache' = cache
      /\ \A k \in Reporters \ {h} : rep'[k] = rep[k]
  BY GoEffect DEF IInv
<1> QED BY <1>1 DEF NoneBegins, Busy

(* ... nor does one that ends, ...                                          *)
LEMMA EndBeginsNone ==
    ASSUME IInv, SInv, NEW h \in Reporters, NEW result, End(h, result)
    PROVE  NoneBegins /\ cache' = cache
<1>1. /\ rep'[h] = IdleReport /\ cache' = cache
      /\ \A k \in Reporters \ {h} : rep'[k] = rep[k]
      /\ agent' = IF agent = h THEN NoReporter ELSE agent
  BY EndEffect DEF IInv, End
<1>2. ~Busy(h)'
  BY <1>1 DEF Busy, IdleReport
<1>3. ASSUME NEW k \in Reporters, k # h, Busy(k)' PROVE Busy(k) /\ agent = k /\ agent' = agent
  BY <1>1, <1>3 DEF Busy, SInv, OneReport
<1> QED BY <1>1, <1>2, <1>3 DEF NoneBegins

(* ... nor a step that is not about reports.                                *)
LEMMA SameBeginsNone ==
    ASSUME rep' = rep, agent' = agent
    PROVE  NoneBegins
BY DEF NoneBegins, Busy
-----------------------------------------------------------------------------
(* The order of reports survives as long as none begins.                    *)
LEMMA OrderFrame ==
    ASSUME IInv, IInv', SInv, NoneBegins, cache' = cache,
           watch' \subseteq watch \cup {wf'}, wf.ver <= wf'.ver
    PROVE  OneReport' /\ OrderInv'
<1>1. OneReport'
  BY DEF SInv, OneReport, NoneBegins
<1>2. cache.ver \in Nat /\ wf.ver \in Nat /\ wf'.ver \in Nat
      /\ cache.ver <= wf.ver
  BY DEF IInv, TypeOK, Workflow, VersionInv, IsVersion
<1>3. cache.ver <= wf'.ver
  BY <1>2
<1>4. OrderInv'
  BY <1>3 DEF SInv, OrderInv, NoneBegins
<1> QED BY <1>1, <1>4

(* What nobody held before can only come from a write of the CR.            *)
LEMMA HeldFrame ==
    ASSUME NoneBegins, cache' = cache, watch' \subseteq watch \cup {wf'}, NEW w, IsHeld(w)'
    PROVE  IsHeld(w) \/ w = wf'
BY DEF NoneBegins, IsHeld

(* A step that shows nobody a new version, and writes no other final state. *)
LEMMA QuietStep ==
    ASSUME IInv, SInv, \A w : IsHeld(w)' => IsHeld(w),
           create' = "ready" => create = "ready" /\ row' = row,
           row'.state \in FinalStates => row'.state = row.state /\ row'.fin = row.fin
    PROVE  HistoryInv' /\ StableInv'
<1>1. HistoryInv'
  BY DEF SInv, HistoryInv, Keeps, Exists, IsInFinalState
<1>2. StableInv'
  BY DEF SInv, StableInv, Holds, Exists, StateOf, IsTerminating, IsInFinalState
<1> QED BY <1>1, <1>2

(* A step that leaves the CR and the agent's view of it alone.              *)
LEMMA StaticStep ==
    ASSUME IInv, IInv', SInv, NoneBegins, wf' = wf, watch' = watch, cache' = cache,
           create' = "ready" => create = "ready" /\ row' = row,
           row'.state \in FinalStates => row'.state = row.state /\ row'.fin = row.fin
    PROVE  SInv'
<1>1. wf.ver <= wf'.ver
  BY DEF IInv, TypeOK, Workflow
<1>2. OneReport' /\ OrderInv'
  BY <1>1, OrderFrame
<1>3. \A w : IsHeld(w)' => IsHeld(w)
  BY HeldFrame DEF IsHeld
<1> QED BY <1>2, <1>3, QuietStep DEF SInv

(* A write of the CR that takes nothing back.                               *)
LEMMA StoreStep ==
    ASSUME IInv, IInv', SInv, NoneBegins, cache' = cache, NEW w \in Workflow, Store(w),
           Exists(w) => create = "ready" \/ (Exists(wf) /\ Keeps(w, wf)),
           create' # "ready", row' = row
    PROVE  SInv'
<1>1. /\ wf' \in Workflow /\ wf'.ver = wf.ver + 1 /\ wf'.phase = w.phase /\ wf'.fin = w.fin
      /\ wf'.label = w.label /\ watch' = watch \cup {wf'} /\ wf.ver \in Nat
  BY StoreEffect DEF IInv, TypeOK, Workflow
<1>2. OneReport' /\ OrderInv'
  BY <1>1, OrderFrame
<1>3. ASSUME NEW v, IsHeld(v) PROVE Keeps(wf', v)
  <2>1. CASE ~Exists(w)
    BY <1>1, <2>1 DEF Keeps, Exists
  <2>2. CASE create = "ready"
    BY <1>3, <2>2 DEF SInv, HistoryInv, Keeps, NoWorkflow, IsInFinalState, FinalPhases
  <2>3. CASE Exists(wf) /\ Keeps(w, wf)
    <3>1. v.ver <= wf.ver /\ IsHeld(wf)
      BY <1>3, HeldIsVersion DEF IsHeld
    <3>2. Keeps(wf, v)
      BY <1>3, <3>1 DEF SInv, HistoryInv
    <3> QED BY <1>1, <2>3, <3>2 DEF Keeps, Exists, IsInFinalState
  <2> QED BY <2>1, <2>2, <2>3
<1>4. HistoryInv'
  <2>1. ASSUME NEW u, NEW v, IsHeld(u)', IsHeld(v)', u.ver <= v.ver PROVE Keeps(v, u)
    <3>1. IsHeld(u) \/ u = wf'
      BY <1>1, <2>1, HeldFrame
    <3>2. IsHeld(v) \/ v = wf'
      BY <1>1, <2>1, HeldFrame
    <3>3. CASE u = wf' /\ v = wf'
      BY <3>3 DEF Keeps
    <3>4. CASE IsHeld(u) /\ v = wf'
      BY <1>3, <3>4
    <3>5. CASE IsHeld(u) /\ IsHeld(v)
      BY <2>1, <3>5 DEF SInv, HistoryInv
    <3>6. CASE u = wf' /\ IsHeld(v)
      <4>1. v.ver \in Nat /\ v.ver <= wf.ver
        BY <3>6, HeldIsVersion
      <4>2. ~(u.ver <= v.ver)
        BY <1>1, <3>6, <4>1
      <4> QED BY <2>1, <4>2
    <3> QED BY <3>1, <3>2, <3>3, <3>4, <3>5, <3>6
  <2> QED BY <2>1 DEF HistoryInv, Keeps, Exists, IsInFinalState
<1>5. ASSUME row.state \in FinalStates, NEW v, IsHeld(v)', Exists(v) PROVE Holds(v)
  <2>1. CASE IsHeld(v)
    BY <1>5, <2>1 DEF SInv, StableInv
  <2>2. CASE v = wf'
    <3>1. create # "ready"
      BY <1>5 DEF SInv, HistoryInv, FinalStates
    <3>2. Exists(wf) /\ Keeps(w, wf) /\ Exists(w)
      BY <1>1, <1>5, <2>2, <3>1 DEF Exists
    <3>3. Holds(wf) /\ wf \in Workflow
      BY <1>5, <3>2 DEF SInv, StableInv, IsHeld, IInv, TypeOK
    <3>4. IsInFinalState(wf)
      BY <1>5, <3>3, FinalStateOf DEF Holds
    <3>5. wf'.phase = wf.phase /\ wf'.fin = wf.fin
      BY <1>1, <3>2, <3>4 DEF Keeps
    <3>6. StateOf(wf') = StateOf(wf)
      BY <1>1, <3>3, <3>4, <3>5, FinalStateOf
    <3> QED BY <2>2, <3>3, <3>5, <3>6 DEF Holds
  <2> QED BY <1>1, <1>5, <2>1, <2>2, HeldFrame
<1>6. StableInv'
  BY <1>5 DEF StableInv, Holds, Exists, StateOf, IsTerminating, IsInFinalState
<1> QED BY <1>2, <1>4, <1>6 DEF SInv

(* A report that writes what it reports: whoever holds a version holds the  *)
(* reported one or a later one.                                             *)
LEMMA RowStep ==
    ASSUME IInv, IInv', SInv, NoneBegins, wf' = wf, watch' = watch, cache' = cache,
           create' = create, create # "ready", NEW h \in Reporters, Busy(h),
           row'.state = StateOf(rep[h].snap), row'.fin = rep[h].snap.fin
    PROVE  SInv'
<1> DEFINE snap == rep[h].snap
<1>1. wf.ver <= wf'.ver
  BY DEF IInv, TypeOK, Workflow
<1>2. OneReport' /\ OrderInv'
  BY <1>1, OrderFrame
<1>3. \A w : IsHeld(w)' => IsHeld(w)
  BY HeldFrame DEF IsHeld
<1>4. HistoryInv'
  BY <1>3 DEF SInv, HistoryInv, Keeps, Exists, IsInFinalState
<1>5. snap \in Workflow /\ IsHeld(snap)
  BY DEF IInv, TypeOK, IsHeld
<1>6. ASSUME NEW w, IsHeld(w) PROVE snap.ver <= w.ver
  <2>1. snap.ver \in Nat /\ w.ver \in Nat /\ cache.ver \in Nat
    BY <1>5, <1>6, HeldIsVersion DEF IInv, TypeOK, Workflow
  <2>2. snap.ver <= cache.ver /\ snap.ver <= wf.ver /\ \A x \in watch : cache.ver <= x.ver
    BY <1>5, HeldIsVersion DEF SInv, OrderInv
  <2>3. CASE w \in watch
    BY <2>1, <2>2, <2>3
  <2>4. CASE \E k \in Reporters : Busy(k) /\ w = rep[k].snap
    <3>1. w = snap
      BY <2>4 DEF SInv, OneReport
    <3> QED BY <2>1, <3>1
  <2> QED BY <1>6, <2>2, <2>3, <2>4 DEF IsHeld
<1>7. ASSUME StateOf(snap) \in FinalStates, NEW w, IsHeld(w), Exists(w)
      PROVE  StateOf(w) = StateOf(snap) /\ w.fin = snap.fin
  <2>1. IsInFinalState(snap) /\ w \in Workflow
    BY <1>5, <1>7, FinalStateOf, HeldIsVersion
  <2>2. Keeps(w, snap)
    BY <1>5, <1>6, <1>7 DEF SInv, HistoryInv
  <2> QED BY <1>5, <1>7, <2>1, <2>2, FinalStateOf DEF Keeps
<1> HIDE DEF snap
<1>8. StableInv'
  BY <1>3, <1>7 DEF snap, StableInv, Holds, Exists, StateOf, IsTerminating, IsInFinalState
<1> QED BY <1>2, <1>4, <1>8 DEF SInv
-----------------------------------------------------------------------------
(* Each step of a report keeps the order and the history.                   *)
LEMMA ReportSteps ==
    ASSUME IInv, IInv', SInv, NEW h \in Reporters,
           ReportStep(h) \/ ReportFails(h) \/ ReadRunFails(h)
    PROVE  SInv'
<1> USE DEF db, cluster, agentVars
<1>0. /\ rep[h].snap \in Workflow /\ wf \in Workflow
      /\ rep[h].pc \in ReportPcs /\ create' = create
  BY DEF IInv, TypeOK, ReportStep, ReportFails, ReadRunFails, ValidateUID, GcPersisted, CheckVersion, ReadRun,
         UpdateRun, GcObsolete, CreateFromReport, PluginRunEnd, VerifyRun, LabelWorkflow,
         ReportTasks
<1>b. Busy(h)
  BY DEF Busy, At, ReportStep, ReportFails, ReadRunFails, ValidateUID, GcPersisted, CheckVersion, ReadRun,
         UpdateRun, GcObsolete, CreateFromReport, PluginRunEnd, VerifyRun, LabelWorkflow,
         ReportTasks
<1>c. create # "ready"
  <2>1. Exists(rep[h].snap) /\ IsHeld(rep[h].snap)
    BY <1>b DEF SInv, OneReport, IsHeld
  <2> QED BY <2>1 DEF SInv, HistoryInv, Exists, NoWorkflow
<1> DEFINE pcs == {"gc", "version", "getRun", "tasks", "plugin", "verify", "label"}
<1>p. pcs \subseteq ReportPcs
  BY DEF ReportPcs
<1>r. ASSUME NEW pc \in pcs, NEW result, Go(h, pc) \/ End(h, result)
      PROVE  NoneBegins /\ cache' = cache
  BY <1>r, <1>p, <1>b, GoBeginsNone, EndBeginsNone
<1>n. AfterUid(rep[h].snap) \in pcs /\ AfterGc(rep[h].snap) \in pcs
      /\ \A plug : AfterRow(rep[h].snap, plug) \in pcs
  BY <1>0, NextPcs
<1> HIDE DEF pcs
<1>k. {"verify", "label", "tasks", "getRun"} \subseteq pcs
  BY DEF pcs
<1>s. ASSUME NoneBegins, cache' = cache, wf' = wf, watch' = watch,
             row'.state = row.state, row'.fin = row.fin
      PROVE  SInv'
  BY <1>s, <1>0, <1>c, StaticStep
<1>1. CASE ValidateUID(h)
  <2>1. NoneBegins /\ cache' = cache
    BY <1>1, <1>n, <1>r DEF ValidateUID
  <2> QED BY <1>1, <2>1, <1>s DEF ValidateUID
<1>g. ASSUME NoneBegins, cache' = cache, row' = row, Store(Gone(wf))
      PROVE  SInv'
  <2>1. Gone(wf) \in Workflow /\ ~Exists(Gone(wf))
    BY <1>0, GoneType DEF Gone, Exists
  <2> QED BY <1>g, <2>1, <1>0, <1>c, StoreStep
<1>2. CASE GcPersisted(h)
  <2>1. NoneBegins /\ cache' = cache /\ row' = row
    BY <1>2, <1>n, <1>r, <1>k DEF GcPersisted
  <2>2. Store(Gone(wf)) \/ (wf' = wf /\ watch' = watch)
    BY <1>2 DEF GcPersisted
  <2> QED BY <2>1, <2>2, <1>g, <1>s
<1>3. CASE CheckVersion(h)
  <2>1. NoneBegins /\ cache' = cache
    BY <1>3, <1>k, <1>r DEF CheckVersion
  <2> QED BY <1>3, <2>1, <1>s DEF CheckVersion
<1>4. CASE ReadRun(h)
  <2>1. NoneBegins
    <3>1. \A k \in Reporters : rep'[k].snap = rep[k].snap /\ (k # h => rep'[k] = rep[k])
      BY <1>4 DEF ReadRun, IInv, TypeOK
    <3> QED BY <1>4, <1>b, <3>1 DEF NoneBegins, Busy, ReadRun
  <2> QED BY <1>4, <2>1, <1>s DEF ReadRun
<1>5. CASE UpdateRun(h)
  <2>1. NoneBegins /\ cache' = cache /\ wf' = wf /\ watch' = watch
    BY <1>5, <1>n, <1>r, <1>k DEF UpdateRun
  <2>2. CASE RowExists
    <3>1. row'.state = StateOf(rep[h].snap) /\ row'.fin = rep[h].snap.fin
      BY <1>5, <2>2 DEF UpdateRun, SaveRow
    <3> QED BY <2>1, <3>1, <1>0, <1>b, <1>c, RowStep
  <2>3. CASE ~RowExists
    BY <1>5, <2>1, <2>3, <1>s DEF UpdateRun
  <2> QED BY <2>2, <2>3
<1>6. CASE GcObsolete(h)
  <2>1. NoneBegins /\ cache' = cache /\ row' = row
    BY <1>6, <1>r, <1>k DEF GcObsolete
  <2>2. Store(Gone(wf)) \/ (wf' = wf /\ watch' = watch)
    BY <1>6 DEF GcObsolete
  <2> QED BY <2>1, <2>2, <1>g, <1>s
<1>7. CASE CreateFromReport(h)
  <2>1. NoneBegins /\ cache' = cache /\ wf' = wf /\ watch' = watch
    BY <1>7, <1>n, <1>r, <1>k DEF CreateFromReport
  <2>2. CASE job /\ ~RowExists
    <3>1. row'.state = StateOf(rep[h].snap) /\ row'.fin = rep[h].snap.fin
      BY <1>7, <2>2 DEF CreateFromReport, SaveRow
    <3> QED BY <2>1, <3>1, <1>0, <1>b, <1>c, RowStep
  <2>3. CASE ~job \/ RowExists
    <3>1. row' = row
      BY <1>7, <2>3 DEF CreateFromReport
    <3> QED BY <2>1, <3>1, <1>s
  <2> QED BY <2>2, <2>3
<1>8. CASE PluginRunEnd(h)
  <2>1. NoneBegins /\ cache' = cache
    BY <1>8, <1>k, <1>r DEF PluginRunEnd
  <2>2. row'.state = row.state /\ row'.fin = row.fin
    BY <1>8 DEF PluginRunEnd, IInv, TypeOK, Run
  <2> QED BY <1>8, <2>1, <2>2, <1>s DEF PluginRunEnd
<1>9. CASE VerifyRun(h)
  <2>1. NoneBegins /\ cache' = cache
    BY <1>9, <1>k, <1>r DEF VerifyRun
  <2> QED BY <1>9, <2>1, <1>s DEF VerifyRun
<1>10. CASE LabelWorkflow(h)
  <2> DEFINE w == [wf EXCEPT !.label = TRUE]
  <2>1. NoneBegins /\ cache' = cache /\ row' = row
    BY <1>10, <1>k, <1>r DEF LabelWorkflow
  <2>2. (Exists(wf) /\ Store(w)) \/ (wf' = wf /\ watch' = watch)
    BY <1>10 DEF LabelWorkflow
  <2>3. w \in Workflow /\ w.label /\ w.phase = wf.phase /\ w.fin = wf.fin
    BY <1>0 DEF Workflow
  <2> HIDE DEF w
  <2>4. Keeps(w, wf)
    BY <2>3 DEF Keeps
  <2>5. CASE Exists(wf) /\ Store(w)
    BY <2>1, <2>3, <2>4, <2>5, <1>0, <1>c, StoreStep
  <2> QED BY <2>1, <2>2, <2>5, <1>s
<1>11. CASE ReportTasks(h)
  BY <1>11, <1>k, <1>r, <1>s DEF ReportTasks
<1>12. CASE ReportFails(h)
  BY <1>12, <1>k, <1>r, <1>s DEF ReportFails
<1>13. CASE ReadRunFails(h)
  <2>1. NoneBegins
    <3>1. \A k \in Reporters : rep'[k].snap = rep[k].snap /\ (k # h => rep'[k] = rep[k])
      BY <1>13 DEF ReadRunFails, Go, IInv, TypeOK
    <3> QED BY <1>13, <1>b, <3>1 DEF NoneBegins, Busy, ReadRunFails, Go
  <2> QED BY <1>13, <2>1, <1>s DEF ReadRunFails, Go
<1> QED BY <1>1, <1>2, <1>3, <1>4, <1>5, <1>6, <1>7, <1>8, <1>9, <1>10, <1>11, <1>12, <1>13
        DEF ReportStep

(* Every step keeps the order of reports and what a final row says.         *)
LEMMA StableStep ==
    ASSUME Calm, IInv, IInv', SInv, [Next]_vars
    PROVE  SInv'
<1> USE DEF db, cluster, agentVars
<1>t. wf \in Workflow /\ cache \in Workflow /\ timeouts \in Nat
  BY DEF IInv, TypeOK
<1>1. CASE CreateWorkflow
  <2>1. /\ Store(NewWorkflow(wf)) /\ cache' = cache /\ rep' = rep /\ agent' = agent
        /\ row' = row /\ create = "ready" /\ create' # "ready"
    BY <1>1 DEF CreateWorkflow
  <2>2. NewWorkflow(wf) \in Workflow /\ NoneBegins
    BY <2>1, <1>t, GoneType, SameBeginsNone
  <2>3. Exists(NewWorkflow(wf)) => create = "ready" \/ (Exists(wf) /\ Keeps(NewWorkflow(wf), wf))
    BY <2>1
  <2> QED BY <2>1, <2>2, <2>3, StoreStep
<1>2. CASE InsertRun
  <2>1. /\ wf' = wf /\ watch' = watch /\ cache' = cache /\ rep' = rep /\ agent' = agent
        /\ create' = "done" /\ (row' = row \/ row' = CreatedRun)
    BY <1>2 DEF InsertRun, SaveRow
  <2>2. row'.state \in FinalStates => row' = row
    BY <2>1 DEF CreatedRun, FinalStates
  <2> QED BY <2>1, <2>2, SameBeginsNone, StaticStep
<1>w. ASSUME NEW w \in Workflow, Store(w), cache' = cache, rep' = rep, agent' = agent,
             row' = row, create' = create, Exists(wf), Keeps(w, wf)
      PROVE  SInv'
  <2>1. create # "ready"
    BY <1>w DEF SInv, HistoryInv, IsHeld, Exists, NoWorkflow
  <2> QED BY <1>w, <2>1, SameBeginsNone, StoreStep
<1>3. CASE ArgoStart
  <2> DEFINE w == [wf EXCEPT !.phase = "Running"]
  <2>1. /\ Store(w) /\ cache' = cache /\ rep' = rep /\ agent' = agent
        /\ row' = row /\ create' = create
    BY <1>3 DEF ArgoStart
  <2>2. w \in Workflow /\ w.label = wf.label
    BY <1>t DEF Workflow, Phases
  <2> HIDE DEF w
  <2>3. Exists(wf) /\ Keeps(w, wf)
    BY <1>3, <2>2 DEF ArgoStart, Keeps, Exists, IsInFinalState, FinalPhases
  <2> QED BY <2>1, <2>2, <2>3, <1>w
<1>4. CASE ArgoFinish
  <2>1. PICK phase \in FinalPhases, t \in {clock, clock + 1} :
            Store([wf EXCEPT !.phase = phase, !.fin = t])
    BY <1>4 DEF ArgoFinish, FinalPhases
  <2> DEFINE w == [wf EXCEPT !.phase = phase, !.fin = t]
  <2>2. /\ Store(w) /\ cache' = cache /\ rep' = rep /\ agent' = agent
        /\ row' = row /\ create' = create
    BY <1>4, <2>1 DEF ArgoFinish
  <2>3. t \in Nat /\ phase \in Phases
    BY DEF IInv, TypeOK, FinalPhases, Phases
  <2>4. w \in Workflow /\ w.label = wf.label
    BY <1>t, <2>3 DEF Workflow
  <2> HIDE DEF w
  <2>5. Exists(wf) /\ Keeps(w, wf)
    BY <1>4, <2>4 DEF ArgoFinish, Keeps, Exists, IsInFinalState, FinalPhases
  <2> QED BY <2>2, <2>4, <2>5, <1>w
<1>5. CASE ArgoTouch
  <2>1. Keeps(wf, wf)
    BY DEF Keeps
  <2>2. /\ Store(wf) /\ Exists(wf) /\ cache' = cache /\ rep' = rep /\ agent' = agent
        /\ row' = row /\ create' = create
    BY <1>5 DEF ArgoTouch
  <2> QED BY <2>1, <2>2, <1>t, <1>w
<1>6. CASE CreateRunFails \/ TtlPasses \/ DeleteJob \/ Resync \/ AgentSkips \/ UNCHANGED vars
  <2>1. /\ wf' = wf /\ watch' = watch /\ cache' = cache /\ rep' = rep /\ agent' = agent
        /\ row' = row /\ (create' = "ready" => create = "ready")
    BY <1>6 DEF CreateRunFails, TtlPasses, DeleteJob, Resync, AgentSkips, vars
  <2> QED BY <2>1, SameBeginsNone, StaticStep
<1>7. CASE Deliver
  <2>1. PICK w \in watch : /\ \A x \in watch : w.ver <= x.ver
                           /\ cache' = w /\ watch' = watch \ {w}
    BY <1>7 DEF Deliver
  <2>2. /\ wf' = wf /\ rep' = rep /\ agent' = agent /\ row' = row /\ create' = create
    BY <1>7 DEF Deliver
  <2>3. \A v : IsHeld(v)' => IsHeld(v)
    BY <2>1, <2>2 DEF IsHeld, Busy
  <2>4. HistoryInv' /\ StableInv'
    BY <2>2, <2>3, QuietStep
  <2>5. OneReport'
    BY <2>2 DEF SInv, OneReport, Busy, Exists
  <2>6. cache.ver \in Nat /\ w.ver \in Nat /\ cache.ver <= w.ver
    BY <2>1 DEF IInv, TypeOK, Workflow, SInv, OrderInv
  <2>7. ASSUME NEW h \in Reporters, Busy(h) PROVE rep[h].snap.ver <= w.ver
    <3>1. rep[h].snap.ver \in Nat /\ rep[h].snap.ver <= cache.ver
      BY <2>7 DEF IInv, TypeOK, Workflow, SInv, OrderInv
    <3> QED BY <2>6, <3>1
  <2>8. OrderInv'
    BY <2>1, <2>2, <2>7 DEF OrderInv, Busy
  <2> QED BY <2>4, <2>5, <2>8 DEF SInv
<1>8. CASE AgentTimeout \/ AgentRestart
  BY <1>8, <1>t DEF AgentTimeout, AgentRestart, Calm
<1>9. ASSUME NEW h \in Reporters, AgentReports(h) PROVE SInv'
  <2>1. /\ wf' = wf /\ watch' = watch /\ cache' = cache /\ row' = row /\ create' = create
        /\ agent = NoReporter /\ agent' = h /\ Exists(cache)
        /\ rep' = [rep EXCEPT ![h] = [pc |-> "uid", snap |-> cache, plug |-> "none"]]
    BY <1>9 DEF AgentReports, SkipSave
  <2>2. /\ rep'[h].pc = "uid" /\ rep'[h].snap = cache
        /\ \A k \in Reporters \ {h} : rep'[k] = rep[k]
    BY <2>1 DEF IInv, TypeOK
  <2>3. \A k \in Reporters : Busy(k)' => k = h
    BY <2>1, <2>2, ConstantsAssumption DEF SInv, OneReport, Busy
  <2>4. OneReport'
    BY <2>1, <2>2, <2>3 DEF OneReport, Exists
  <2>5. OrderInv'
    <3>1. cache.ver <= cache.ver
      BY <1>t DEF Workflow
    <3> QED BY <2>1, <2>2, <2>3, <3>1 DEF SInv, OrderInv
  <2>6. \A v : IsHeld(v)' => IsHeld(v)
    BY <2>1, <2>2, <2>3 DEF IsHeld
  <2> QED BY <2>1, <2>4, <2>5, <2>6, QuietStep DEF SInv
<1>10. ASSUME NEW h \in Reporters, ReportStep(h) \/ ReportFails(h) \/ ReadRunFails(h) PROVE SInv'
  BY <1>10, ReportSteps
<1>11. CASE \E q \in Retriers : RetryStep(q)
  BY <1>11 DEF Calm
<1>12. ASSUME NEW q \in Terminators, TerminateRow(q) PROVE SInv'
  <2>1. /\ wf' = wf /\ watch' = watch /\ cache' = cache /\ rep' = rep /\ agent' = agent
        /\ create' = create
    BY <1>12 DEF TerminateRow
  <2>2. CASE row.state \in {"PENDING", "RUNNING"}
    <3>1. row'.state = "CANCELING" /\ create # "ready"
      BY <1>12, <2>2 DEF TerminateRow, SaveRow, IInv, TypeOK, Run, SInv, HistoryInv
    <3> QED BY <2>1, <3>1, SameBeginsNone, StaticStep DEF FinalStates
  <2>3. CASE row' = row
    BY <2>1, <2>3, SameBeginsNone, StaticStep
  <2> QED BY <1>12, <2>2, <2>3 DEF TerminateRow
<1>13. ASSUME NEW q \in Terminators, TerminatePatch(q) PROVE SInv'
  <2> DEFINE w == [wf EXCEPT !.deadline = TRUE]
  <2>1. /\ cache' = cache /\ rep' = rep /\ agent' = agent /\ row' = row /\ create' = create
        /\ (Exists(wf) /\ Store(w)) \/ (wf' = wf /\ watch' = watch)
    BY <1>13 DEF TerminatePatch
  <2>2. w \in Workflow /\ w.label = wf.label /\ w.phase = wf.phase /\ w.fin = wf.fin
    BY <1>t DEF Workflow
  <2> HIDE DEF w
  <2>3. Keeps(w, wf)
    BY <2>2 DEF Keeps
  <2> QED BY <2>1, <2>2, <2>3, <1>w, SameBeginsNone, StaticStep
<1>14. ASSUME NEW q \in Deleters, DeleteWorkflow(q) PROVE SInv'
  <2>1. /\ cache' = cache /\ rep' = rep /\ agent' = agent /\ row' = row /\ create' = create
        /\ (Exists(wf) /\ Store(Gone(wf))) \/ (wf' = wf /\ watch' = watch)
    BY <1>14 DEF DeleteWorkflow
  <2>2. Gone(wf) \in Workflow /\ Keeps(Gone(wf), wf)
    BY <1>t, GoneType DEF Gone, Keeps, Exists
  <2> QED BY <2>1, <2>2, <1>w, SameBeginsNone, StaticStep
<1>15. ASSUME NEW q \in Deleters, DeleteRow(q) PROVE SInv'
  <2>1. /\ wf' = wf /\ watch' = watch /\ cache' = cache /\ rep' = rep /\ agent' = agent
        /\ create' = create /\ row' = NoRun
    BY <1>15 DEF DeleteRow
  <2>2. row'.state = "NONE"
    BY <2>1 DEF NoRun
  <2>3. CASE create # "ready"
    BY <2>1, <2>2, <2>3, SameBeginsNone, StaticStep DEF FinalStates
  <2>4. CASE create = "ready"
    <3>1. \A w : IsHeld(w)' => IsHeld(w)
      BY <2>1 DEF IsHeld, Busy
    <3>2. HistoryInv' /\ StableInv'
      BY <2>1, <2>2, <2>4, <3>1
         DEF SInv, HistoryInv, StableInv, Keeps, Exists, IsInFinalState, FinalStates
    <3>3. wf.ver <= wf'.ver /\ NoneBegins
      BY <1>t, <2>1, SameBeginsNone DEF Workflow
    <3> QED BY <2>1, <3>2, <3>3, OrderFrame DEF SInv
  <2> QED BY <2>3, <2>4
<1>16. ASSUME NEW q \in Requests, RequestFails(q) PROVE SInv'
  <2>1. /\ wf' = wf /\ watch' = watch /\ cache' = cache /\ rep' = rep /\ agent' = agent
        /\ row' = row /\ create' = create
    BY <1>16 DEF RequestFails
  <2> QED BY <2>1, SameBeginsNone, StaticStep
<1> QED BY <1>1, <1>2, <1>3, <1>4, <1>5, <1>6, <1>7, <1>8, <1>9, <1>10, <1>11, <1>12,
           <1>13, <1>14, <1>15, <1>16 DEF Next
-----------------------------------------------------------------------------
(* Steps that bring no report nearer to the label, and write neither the    *)
(* label nor the state of the row.                                          *)
LEMMA PersistFrame ==
    ASSUME IInv, IInv', PInv, row'.state = row.state, row'.fin = row.fin,
           \A k \in Reporters :
              rep'[k].pc \in {"gc", "create", "update", "plugin", "verify", "label"}
                 => rep'[k].pc = rep[k].pc /\ rep'[k].snap = rep[k].snap,
           wf'.label => wf.label /\ wf'.phase = wf.phase /\ wf'.fin = wf.fin,
           create' \in {"ready", "insert"} => create \in {"ready", "insert"},
           \A q \in Deleters : req'[q].pc = "row" => req[q].pc = "row" \/ RowExists
    PROVE  PInv'
<1>0. RowExists' <=> RowExists
  BY DEF RowExists
<1>1. RowStays'
  BY <1>0 DEF PInv, RowStays
<1>2. ASSUME wf'.label, RowExists PROVE row'.state = StateOf(wf') /\ row'.fin = wf'.fin
  <2>1. wf \in Workflow /\ wf' \in Workflow /\ IsInFinalState(wf)
    BY <1>2 DEF IInv, TypeOK, LabelInv, LabelOnlyOnFinal
  <2>2. StateOf(wf') = StateOf(wf)
    BY <1>2, <2>1, FinalStateOf
  <2> QED BY <1>2, <2>2 DEF PInv, PersistInv, LabelledIsPersisted
<1>3. LabelledIsPersisted'
  BY <1>0, <1>2 DEF LabelledIsPersisted, StateOf, IsTerminating, IsInFinalState
<1>4. ASSUME NEW k \in Reporters, rep'[k].pc = "label", RowExists PROVE Holds(rep[k].snap)
  BY <1>4 DEF PInv, PersistInv
<1>5. PersistInv'
  BY <1>0, <1>3, <1>4
     DEF PInv, PersistInv, Holds, StateOf, IsTerminating, IsInFinalState
<1> QED BY <1>1, <1>5 DEF PInv

(* A step of a report, the only one there is.                               *)
LEMMA ReportPersists ==
    ASSUME IInv, SInv, PInv, NEW h \in Reporters, Busy(h),
           create' = create, req' = req,
           \A k \in Reporters \ {h} : rep'[k] = rep[k],
           rep'[h].pc # "idle" => rep'[h].snap = rep[h].snap,
           rep'[h].pc = "create" => Recurring,
           rep'[h].pc \in {"update", "plugin", "verify", "label"} => RowExists',
           rep'[h].pc = "label" => row'.state = StateOf(rep[h].snap) /\ row'.fin = rep[h].snap.fin,
           rep'[h].pc = "gc" => rep[h].snap.label,
           RowExists => RowExists', RowExists' => RowExists \/ Recurring,
           wf'.label => wf.label \/ RowExists',
           LabelledIsPersisted'
    PROVE  PInv'
<1>1. \A k \in Reporters \ {h} : rep'[k].pc = "idle"
  BY DEF SInv, OneReport, Busy
<1>2. RowStays'
  <2>1. CASE Recurring
    BY <1>1, <2>1 DEF PInv, RowStays
  <2>2. CASE ~Recurring
    <3>1. RowExists' <=> RowExists
      BY <2>2
    <3> QED BY <1>1, <2>2, <3>1 DEF PInv, RowStays
  <2> QED BY <2>1, <2>2
<1>3. \A k \in Reporters : rep'[k].pc = "label" => Holds(rep[h].snap)' /\ k = h
  BY <1>1 DEF Holds, StateOf, IsTerminating, IsInFinalState
<1>4. PersistInv'
  BY <1>1, <1>3 DEF PersistInv, Holds, StateOf, IsTerminating, IsInFinalState
<1> QED BY <1>2, <1>4 DEF PInv

(* Each step of a report keeps a labelled workflow persisted.               *)
LEMMA ReportPersistSteps ==
    ASSUME IInv, IInv', SInv, PInv, NEW h \in Reporters,
           ReportStep(h) \/ ReportFails(h) \/ ReadRunFails(h)
    PROVE  PInv'
<1> USE DEF db, cluster, agentVars
<1>0. /\ rep[h].snap \in Workflow /\ wf \in Workflow /\ TypeOK /\ row \in Run
  BY DEF IInv, TypeOK
<1>b. Busy(h)
  BY DEF Busy, At, ReportStep, ReportFails, ReadRunFails, ValidateUID, GcPersisted, CheckVersion, ReadRun,
         UpdateRun, GcObsolete, CreateFromReport, PluginRunEnd, VerifyRun, LabelWorkflow,
         ReportTasks
<1>c. create' = create /\ req' = req
  BY DEF ReportStep, ReportFails, ReadRunFails, ValidateUID, GcPersisted, CheckVersion, ReadRun,
         UpdateRun, GcObsolete, CreateFromReport, PluginRunEnd, VerifyRun, LabelWorkflow,
         ReportTasks
<1>p. {"gc", "version", "getRun", "tasks", "plugin", "verify", "label"} \subseteq ReportPcs
  BY DEF ReportPcs
<1>g. ASSUME NEW pc \in {"gc", "version", "getRun", "tasks", "plugin", "verify", "label"},
             Go(h, pc)
      PROVE  /\ rep'[h].pc = pc /\ rep'[h].snap = rep[h].snap
             /\ \A k \in Reporters \ {h} : rep'[k] = rep[k]
  BY <1>g, <1>p, <1>0, GoEffect
<1>e. ASSUME NEW result, End(h, result)
      PROVE  /\ rep'[h].pc = "idle"
             /\ \A k \in Reporters \ {h} : rep'[k] = rep[k]
  BY <1>e, <1>0, EndEffect DEF IdleReport
<1>s. wf' = wf /\ row'.state = row.state /\ row'.fin = row.fin => LabelledIsPersisted'
  BY DEF PInv, PersistInv, LabelledIsPersisted, RowExists, StateOf, IsTerminating, IsInFinalState
(* A report ends, or goes on without a write to the row.                    *)
<1>q. ASSUME row' = row, \A k \in Reporters \ {h} : rep'[k] = rep[k],
             rep'[h].pc \in {"idle", "version", "getRun", "tasks", "obsolete"},
             rep'[h].pc # "idle" => rep'[h].snap = rep[h].snap,
             wf' = wf \/ ~wf'.label
      PROVE  PInv'
  <2>1. LabelledIsPersisted'
    BY <1>q, <1>s DEF LabelledIsPersisted
  <2> QED BY <1>q, <2>1, <1>b, <1>c, ReportPersists DEF RowExists
<1>1. CASE ValidateUID(h)
  <2>1. CASE End(h, "permanent")
    BY <1>1, <2>1, <1>e, <1>q DEF ValidateUID
  <2>2. CASE Go(h, AfterUid(rep[h].snap))
    <3>1. AfterUid(rep[h].snap) \in {"gc", "version", "getRun"}
          /\ (AfterUid(rep[h].snap) = "gc" => rep[h].snap.label)
      BY <1>0, NextPcs DEF AfterUid, AfterGc
    <3>2. /\ rep'[h].pc = AfterUid(rep[h].snap) /\ rep'[h].snap = rep[h].snap
          /\ \A k \in Reporters \ {h} : rep'[k] = rep[k]
      BY <2>2, <3>1, <1>g
    <3>3. wf' = wf /\ row' = row
      BY <1>1 DEF ValidateUID
    <3> QED BY <3>1, <3>2, <3>3, <1>b, <1>c, <1>s, ReportPersists DEF RowExists
  <2> QED BY <1>1, <2>1, <2>2 DEF ValidateUID
<1>2. CASE GcPersisted(h)
  <2>1. AfterGc(rep[h].snap) \in {"version", "getRun"} /\ row' = row
    BY <1>2, <1>0, NextPcs DEF GcPersisted
  <2>2. wf' = wf \/ ~wf'.label
    <3>1. Gone(wf) \in Workflow /\ ~Gone(wf).label
      BY <1>0, GoneType DEF Gone
    <3> QED BY <1>2, <3>1, <1>0, StoreEffect DEF GcPersisted
  <2>3. CASE End(h, "permanent")
    BY <2>1, <2>2, <2>3, <1>e, <1>q
  <2>4. CASE Go(h, AfterGc(rep[h].snap))
    BY <2>1, <2>2, <2>4, <1>g, <1>q
  <2> QED BY <1>2, <2>3, <2>4 DEF GcPersisted
<1>3. CASE CheckVersion(h)
  <2>1. CASE End(h, "transient")
    BY <1>3, <2>1, <1>e, <1>q DEF CheckVersion
  <2>2. CASE Go(h, "getRun")
    BY <1>3, <2>2, <1>g, <1>q DEF CheckVersion
  <2> QED BY <1>3, <2>1, <2>2 DEF CheckVersion
<1>4. CASE ReadRun(h)
  <2> DEFINE next == CASE RowExists -> "update"
                       [] ~RowExists /\ Recurring -> "create"
                       [] OTHER -> "obsolete"
  <2>1. rep' = [rep EXCEPT ![h].pc = next, ![h].plug = row.plug] /\ wf' = wf /\ row' = row
    BY <1>4 DEF ReadRun
  <2>2. /\ next \in {"update", "create", "obsolete"}
        /\ next = "update" => RowExists
        /\ next = "create" => Recurring
    OBVIOUS
  <2> HIDE DEF next
  <2>3. /\ rep'[h].pc = next /\ rep'[h].snap = rep[h].snap
        /\ \A k \in Reporters \ {h} : rep'[k] = rep[k]
    BY <2>1, <1>0 DEF TypeOK
  <2> QED BY <2>1, <2>2, <2>3, <1>b, <1>c, <1>s, ReportPersists DEF RowExists
<1>n. \A plug : /\ AfterRow(rep[h].snap, plug) \in {"tasks", "plugin", "verify"}
  BY <1>0, NextPcs
<1>x. StateOf(rep[h].snap) # "NONE"
  BY <1>0, StateOfType
(* A labelled workflow agrees with every report that still writes the row.  *)
<1>y. ASSUME wf.label, RowExists
      PROVE  StateOf(wf) = StateOf(rep[h].snap) /\ wf.fin = rep[h].snap.fin
  <2>1. row.state = StateOf(wf) /\ row.fin = wf.fin /\ IsInFinalState(wf)
    BY <1>y DEF PInv, PersistInv, LabelledIsPersisted, IInv, LabelInv, LabelOnlyOnFinal
  <2>2. row.state \in FinalStates
    BY <2>1, <1>0, FinalStateOf
  <2>3. Holds(rep[h].snap)
    BY <2>2, <1>b DEF SInv, StableInv, OneReport, IsHeld
  <2> QED BY <2>1, <2>3 DEF Holds
<1>w. ASSUME row'.state = StateOf(rep[h].snap), row'.fin = rep[h].snap.fin, wf' = wf,
             wf.label => RowExists
      PROVE  LabelledIsPersisted'
  BY <1>w, <1>y DEF LabelledIsPersisted, StateOf, IsTerminating, IsInFinalState
<1>5. CASE UpdateRun(h)
  <2>1. wf' = wf
    BY <1>5 DEF UpdateRun
  <2>2. CASE RowExists
    <3>1. row'.state = StateOf(rep[h].snap) /\ row'.fin = rep[h].snap.fin
          /\ Go(h, AfterRow(rep[h].snap, rep[h].plug))
      BY <1>5, <2>2 DEF UpdateRun, SaveRow
    <3>2. /\ rep'[h].pc \in {"tasks", "plugin", "verify"} /\ rep'[h].snap = rep[h].snap
          /\ \A k \in Reporters \ {h} : rep'[k] = rep[k]
      BY <3>1, <1>n, <1>g
    <3>3. RowExists' /\ LabelledIsPersisted'
      BY <2>1, <2>2, <3>1, <1>x, <1>w DEF RowExists
    <3> QED BY <2>1, <2>2, <3>2, <3>3, <1>b, <1>c, ReportPersists
  <2>3. CASE ~RowExists
    BY <1>5, <2>1, <2>3, <1>e, <1>q DEF UpdateRun
  <2> QED BY <2>2, <2>3
<1>6. CASE GcObsolete(h)
  <2>1. wf' = wf \/ ~wf'.label
    <3>1. Gone(wf) \in Workflow /\ ~Gone(wf).label
      BY <1>0, GoneType DEF Gone
    <3> QED BY <1>6, <3>1, <1>0, StoreEffect DEF GcObsolete
  <2> QED BY <1>6, <2>1, <1>e, <1>q DEF GcObsolete
<1>7. CASE CreateFromReport(h)
  <2>1. wf' = wf /\ Recurring
    BY <1>7 DEF CreateFromReport, At, PInv, RowStays
  <2>2. CASE ~job
    BY <1>7, <2>1, <2>2, <1>e, <1>q DEF CreateFromReport
  <2>3. CASE job /\ RowExists
    <3>1. Go(h, AfterRow(rep[h].snap, row.plug)) /\ row' = row
      BY <1>7, <2>3 DEF CreateFromReport
    <3>2. /\ rep'[h].pc \in {"tasks", "plugin", "verify"} /\ rep'[h].snap = rep[h].snap
          /\ \A k \in Reporters \ {h} : rep'[k] = rep[k]
      BY <3>1, <1>n, <1>g
    <3>3. RowExists' /\ LabelledIsPersisted'
      BY <2>1, <2>3, <3>1, <1>s DEF RowExists
    <3> QED BY <2>1, <2>3, <3>2, <3>3, <1>b, <1>c, ReportPersists
  <2>4. CASE job /\ ~RowExists
    <3>1. row'.state = StateOf(rep[h].snap) /\ row'.fin = rep[h].snap.fin
          /\ Go(h, AfterRow(rep[h].snap, "none"))
      BY <1>7, <2>4 DEF CreateFromReport, SaveRow
    <3>2. /\ rep'[h].pc \in {"tasks", "plugin", "verify"} /\ rep'[h].snap = rep[h].snap
          /\ \A k \in Reporters \ {h} : rep'[k] = rep[k]
      BY <3>1, <1>n, <1>g
    <3>3. RowExists' /\ ~wf.label
      BY <2>1, <2>4, <3>1, <1>x DEF RowExists, PInv, RowStays
    <3>4. LabelledIsPersisted'
      BY <2>1, <3>3 DEF LabelledIsPersisted
    <3> QED BY <2>1, <2>4, <3>2, <3>3, <3>4, <1>b, <1>c, ReportPersists
  <2> QED BY <2>2, <2>3, <2>4
<1>8. CASE PluginRunEnd(h)
  <2>1. row'.state = row.state /\ row'.fin = row.fin /\ wf' = wf
    BY <1>8, <1>0 DEF PluginRunEnd, Run
  <2>2. CASE RowExists
    <3>1. /\ rep'[h].pc = "verify" /\ rep'[h].snap = rep[h].snap
          /\ \A k \in Reporters \ {h} : rep'[k] = rep[k]
      BY <1>8, <2>2, <1>g DEF PluginRunEnd
    <3>2. RowExists' /\ LabelledIsPersisted'
      BY <2>1, <2>2, <1>s DEF RowExists
    <3> QED BY <2>1, <2>2, <3>1, <3>2, <1>b, <1>c, ReportPersists
  <2>3. CASE ~RowExists
    BY <1>8, <2>1, <2>3, <1>e, <1>q DEF PluginRunEnd
  <2> QED BY <2>2, <2>3
<1>9. CASE VerifyRun(h)
  <2>1. wf' = wf /\ row' = row
    BY <1>9 DEF VerifyRun
  <2>2. CASE End(h, "permanent") \/ End(h, "transient")
    BY <2>1, <2>2, <1>e, <1>q
  <2>3. CASE RowExists /\ Holds(rep[h].snap) /\ Go(h, "label")
    <3>1. /\ rep'[h].pc = "label" /\ rep'[h].snap = rep[h].snap
          /\ \A k \in Reporters \ {h} : rep'[k] = rep[k]
      BY <2>3, <1>g
    <3>2. RowExists' /\ LabelledIsPersisted'
      BY <2>1, <2>3, <1>s DEF RowExists
    <3> QED BY <2>1, <2>3, <3>1, <3>2, <1>b, <1>c, ReportPersists DEF Holds
  <2> QED BY <1>9, <2>2, <2>3, <1>x DEF VerifyRun, Holds, RowExists
<1>10. CASE LabelWorkflow(h)
  <2>1. row' = row /\ At(h, "label")
    BY <1>10 DEF LabelWorkflow
  <2>2. CASE wf' = wf /\ (End(h, "permanent") \/ End(h, "transient"))
    BY <2>1, <2>2, <1>e, <1>q
  <2>3. CASE Store([wf EXCEPT !.label = TRUE]) /\ Go(h, "tasks") /\ wf.ver = rep[h].snap.ver
    <3> DEFINE w == [wf EXCEPT !.label = TRUE]
    <3>1. w \in Workflow /\ w.phase = wf.phase /\ w.fin = wf.fin
      BY <1>0 DEF Workflow
    <3>2. Store(w)
      BY <2>3
    <3> HIDE DEF w
    <3>3. wf' \in Workflow /\ wf'.phase = wf.phase /\ wf'.fin = wf.fin
      BY <1>0, <3>1, <3>2, StoreEffect
    <3>4. wf = rep[h].snap /\ IsInFinalState(wf)
      BY <2>1, <2>3 DEF IInv, VersionInv, IsVersion, ReportInv, At
    <3>5. StateOf(wf') = StateOf(wf)
      BY <1>0, <3>3, <3>4, FinalStateOf
    <3>6. RowExists => row.state = StateOf(wf) /\ row.fin = wf.fin
      BY <2>1, <3>4 DEF PInv, PersistInv, Holds, At
    <3>7. LabelledIsPersisted'
      BY <2>1, <3>3, <3>5, <3>6 DEF LabelledIsPersisted, RowExists
    <3>8. /\ rep'[h].pc = "tasks" /\ rep'[h].snap = rep[h].snap
          /\ \A k \in Reporters \ {h} : rep'[k] = rep[k]
      BY <2>3, <1>g
    <3>9. CASE RowExists
      BY <2>1, <3>7, <3>8, <3>9, <1>b, <1>c, ReportPersists DEF RowExists
    <3>10. CASE ~RowExists
      <4>1. ~Recurring /\ create \notin {"ready", "insert"}
        BY <2>1, <3>10 DEF PInv, RowStays, At
      <4>2. \A k \in Reporters : rep'[k].pc \notin {"gc", "create", "label"}
        BY <3>8, <1>b DEF SInv, OneReport, Busy
      <4>3. RowStays'
        BY <4>1, <4>2, <1>c DEF RowStays
      <4>4. PersistInv'
        BY <3>7, <4>2 DEF PersistInv
      <4> QED BY <4>3, <4>4 DEF PInv
    <3> QED BY <3>9, <3>10
  <2> QED BY <1>10, <2>2, <2>3 DEF LabelWorkflow
<1>11. CASE ReportTasks(h)
  BY <1>11, <1>e, <1>q DEF ReportTasks
<1>12. CASE ReportFails(h)
  BY <1>12, <1>e, <1>q DEF ReportFails
<1>13. CASE ReadRunFails(h)
  <2>1. rep' = [rep EXCEPT ![h].pc = "create"] /\ wf' = wf /\ row' = row /\ Recurring
    BY <1>13 DEF ReadRunFails, Go
  <2>2. /\ rep'[h].pc = "create" /\ rep'[h].snap = rep[h].snap
        /\ \A k \in Reporters \ {h} : rep'[k] = rep[k]
    BY <2>1, <1>0 DEF TypeOK
  <2> QED BY <2>1, <2>2, <1>b, <1>c, <1>s, ReportPersists DEF RowExists
<1> QED BY <1>1, <1>2, <1>3, <1>4, <1>5, <1>6, <1>7, <1>8, <1>9, <1>10, <1>11, <1>12, <1>13
        DEF ReportStep

(* Every step keeps a labelled workflow persisted.                          *)
LEMMA PersistStep ==
    ASSUME Calm, Recurring => Deleters = {}, IInv, IInv', SInv, PInv, [Next]_vars
    PROVE  PInv'
<1> USE DEF db, cluster, agentVars
<1>t. /\ wf \in Workflow /\ row \in Run /\ TypeOK /\ timeouts \in Nat
      /\ Deleters \subseteq Requests
  BY DEF IInv, TypeOK, Requests
<1>f. ASSUME row' = row, rep' = rep, req' = req,
             wf'.label => wf.label /\ wf'.phase = wf.phase /\ wf'.fin = wf.fin,
             create' \in {"ready", "insert"} => create \in {"ready", "insert"}
      PROVE  PInv'
  BY <1>f, PersistFrame
<1>s. ASSUME NEW w \in Workflow, Store(w), row' = row, rep' = rep, req' = req,
             w.label => wf.label /\ w.phase = wf.phase /\ w.fin = wf.fin,
             create' \in {"ready", "insert"} => create \in {"ready", "insert"}
      PROVE  PInv'
  <2>1. wf'.label = w.label /\ wf'.phase = w.phase /\ wf'.fin = w.fin
    BY <1>s, <1>t, StoreEffect
  <2> QED BY <1>s, <2>1, <1>f
<1>l. ~IsInFinalState(wf) => ~wf.label
  BY DEF IInv, LabelInv, LabelOnlyOnFinal
<1>1. CASE CreateWorkflow
  <2>1. NewWorkflow(wf) \in Workflow /\ ~NewWorkflow(wf).label
    BY <1>t, GoneType DEF NewWorkflow
  <2>2. /\ Store(NewWorkflow(wf)) /\ row' = row /\ rep' = rep /\ req' = req
        /\ create = "ready"
    BY <1>1 DEF CreateWorkflow
  <2> QED BY <2>1, <2>2, <1>s
<1>2. CASE InsertRun
  <2>1. /\ wf' = wf /\ rep' = rep /\ req' = req /\ create = "insert" /\ create' = "done"
    BY <1>2 DEF InsertRun
  <2>2. CASE RowExists
    BY <1>2, <2>1, <2>2, <1>f DEF InsertRun
  <2>3. CASE ~RowExists
    <3>1. row' = CreatedRun
      BY <1>2, <2>3 DEF InsertRun, SaveRow
    <3>2. ~wf.label /\ \A h \in Reporters : rep[h].pc # "label"
      BY <2>1, <2>3 DEF PInv, RowStays
    <3>3. RowExists'
      BY <3>1 DEF RowExists, CreatedRun
    <3>4. RowStays'
      BY <2>1, <3>3 DEF PInv, RowStays
    <3>5. PersistInv'
      BY <2>1, <3>2 DEF PInv, PersistInv, LabelledIsPersisted
    <3> QED BY <3>4, <3>5 DEF PInv
  <2> QED BY <2>2, <2>3
<1>3. CASE ArgoStart
  <2> DEFINE w == [wf EXCEPT !.phase = "Running"]
  <2>1. w \in Workflow /\ w.label = wf.label
    BY <1>t DEF Workflow, Phases
  <2>2. ~wf.label
    BY <1>3, <1>l DEF ArgoStart, IsInFinalState, FinalPhases
  <2>3. Store(w) /\ row' = row /\ rep' = rep /\ req' = req /\ create' = create
    BY <1>3 DEF ArgoStart
  <2> HIDE DEF w
  <2> QED BY <2>1, <2>2, <2>3, <1>s
<1>4. CASE ArgoFinish
  <2>1. PICK phase \in FinalPhases, t \in {clock, clock + 1} :
            Store([wf EXCEPT !.phase = phase, !.fin = t])
    BY <1>4 DEF ArgoFinish, FinalPhases
  <2> DEFINE w == [wf EXCEPT !.phase = phase, !.fin = t]
  <2>2. t \in Nat /\ phase \in Phases
    BY <1>t DEF TypeOK, FinalPhases, Phases
  <2>3. w \in Workflow /\ w.label = wf.label
    BY <1>t, <2>2 DEF Workflow
  <2>4. ~wf.label
    BY <1>4, <1>l DEF ArgoFinish, IsInFinalState, FinalPhases
  <2>5. Store(w) /\ row' = row /\ rep' = rep /\ req' = req /\ create' = create
    BY <1>4, <2>1 DEF ArgoFinish
  <2> HIDE DEF w
  <2> QED BY <2>3, <2>4, <2>5, <1>s
<1>5. CASE ArgoTouch
  <2>1. Store(wf) /\ row' = row /\ rep' = rep /\ req' = req /\ create' = create
    BY <1>5 DEF ArgoTouch
  <2> QED BY <2>1, <1>t, <1>s
<1>6. CASE \/ CreateRunFails \/ TtlPasses \/ DeleteJob \/ Deliver \/ Resync \/ AgentSkips
           \/ UNCHANGED vars
  <2>1. wf' = wf /\ row' = row /\ rep' = rep /\ req' = req
        /\ (create' \in {"ready", "insert"} => create \in {"ready", "insert"})
    BY <1>6 DEF CreateRunFails, TtlPasses, DeleteJob, Deliver, Resync, AgentSkips, vars
  <2> QED BY <2>1, <1>f
<1>7. CASE AgentTimeout \/ AgentRestart
  BY <1>7, <1>t DEF AgentTimeout, AgentRestart, Calm
<1>8. ASSUME NEW h \in Reporters, AgentReports(h) PROVE PInv'
  <2>1. /\ wf' = wf /\ row' = row /\ req' = req /\ create' = create
        /\ rep' = [rep EXCEPT ![h] = [pc |-> "uid", snap |-> cache, plug |-> "none"]]
    BY <1>8 DEF AgentReports
  <2>2. rep'[h].pc = "uid" /\ \A k \in Reporters \ {h} : rep'[k] = rep[k]
    BY <2>1, <1>t DEF TypeOK
  <2> QED BY <2>1, <2>2, PersistFrame
<1>9. ASSUME NEW h \in Reporters, ReportStep(h) \/ ReportFails(h) \/ ReadRunFails(h) PROVE PInv'
  BY <1>9, ReportPersistSteps
<1>10. CASE \E q \in Retriers : RetryStep(q)
  BY <1>10 DEF Calm
<1>r. ASSUME NEW q \in Requests, NEW pc, pc # "row", ReqGo(q, pc) \/ ReqDone(q)
      PROVE  \A k \in Requests : req'[k].pc = "row" => req[k].pc = "row"
  <2>1. CASE ReqGo(q, pc)
    BY <1>r, <2>1, <1>t DEF ReqGo, TypeOK
  <2>2. CASE ReqDone(q)
    BY <1>r, <2>2, <1>t DEF ReqDone, DoneRequest, TypeOK
  <2> QED BY <1>r, <2>1, <2>2
<1>11. ASSUME NEW q \in Terminators, TerminateRow(q) PROVE PInv'
  <2>1. wf' = wf /\ rep' = rep /\ create' = create /\ q \in Requests
    BY <1>11 DEF TerminateRow, Requests
  <2>2. \A k \in Deleters : req'[k].pc = "row" => req[k].pc = "row"
    BY <1>11, <2>1, <1>t, <1>r DEF TerminateRow
  <2>3. CASE row' = row
    BY <2>1, <2>2, <2>3, PersistFrame
  <2>4. CASE row.state \in {"PENDING", "RUNNING"} /\ row' = [row EXCEPT !.state = "CANCELING"]
    <3>1. RowExists /\ RowExists' /\ row.state \notin FinalStates
      BY <2>4, <1>t DEF RowExists, Run, FinalStates
    <3>2. ~wf.label
      BY <3>1, <1>t, <1>l, FinalStateOf DEF PInv, PersistInv, LabelledIsPersisted
    <3>3. \A h \in Reporters : rep[h].pc # "label"
      <4>1. ASSUME NEW h \in Reporters, rep[h].pc = "label"
            PROVE  row.state = StateOf(rep[h].snap) /\ IsInFinalState(rep[h].snap)
                   /\ rep[h].snap \in Workflow
        BY <4>1, <3>1 DEF PInv, PersistInv, Holds, IInv, ReportInv, TypeOK
      <4> QED BY <4>1, <3>1, FinalStateOf
    <3>4. RowStays'
      BY <2>1, <2>2, <3>1 DEF PInv, RowStays
    <3>5. PersistInv'
      BY <2>1, <3>2, <3>3 DEF PInv, PersistInv, LabelledIsPersisted
    <3> QED BY <3>4, <3>5 DEF PInv
  <2> QED BY <1>11, <2>3, <2>4 DEF TerminateRow, SaveRow
<1>12. ASSUME NEW q \in Terminators, TerminatePatch(q) PROVE PInv'
  <2> DEFINE w == [wf EXCEPT !.deadline = TRUE]
  <2>1. /\ rep' = rep /\ row' = row /\ create' = create /\ q \in Requests
        /\ Store(w) \/ wf' = wf
    BY <1>12 DEF TerminatePatch, Requests
  <2>2. \A k \in Deleters : req'[k].pc = "row" => req[k].pc = "row"
    BY <1>12, <2>1, <1>t, <1>r DEF TerminatePatch
  <2>3. w \in Workflow /\ w.label = wf.label /\ w.phase = wf.phase /\ w.fin = wf.fin
    BY <1>t DEF Workflow
  <2> HIDE DEF w
  <2>4. wf'.label = wf.label /\ wf'.phase = wf.phase /\ wf'.fin = wf.fin
    BY <2>1, <2>3, <1>t, StoreEffect
  <2> QED BY <2>1, <2>2, <2>4, PersistFrame
<1>13. ASSUME NEW q \in Deleters, DeleteWorkflow(q) PROVE PInv'
  <2>1. /\ rep' = rep /\ row' = row /\ create' = create /\ q \in Requests
        /\ Store(Gone(wf)) \/ wf' = wf
    BY <1>13, <1>t DEF DeleteWorkflow
  <2>2. \A k \in Deleters : req'[k].pc = "row" => req[k].pc = "row" \/ RowExists
    <3>1. CASE RowExists
      BY <3>1
    <3>2. CASE ~RowExists
      BY <1>13, <2>1, <3>2, <1>t, <1>r DEF DeleteWorkflow
    <3> QED BY <3>1, <3>2
  <2>3. Gone(wf) \in Workflow /\ ~Gone(wf).label
    BY <1>t, GoneType DEF Gone
  <2>4. wf'.label => wf' = wf
    BY <2>1, <2>3, <1>t, StoreEffect
  <2> QED BY <2>1, <2>2, <2>4, PersistFrame
<1>14. ASSUME NEW q \in Deleters, DeleteRow(q) PROVE PInv'
  <2>1. /\ wf' = wf /\ rep' = rep /\ create' = create /\ row' = NoRun
        /\ ~Recurring /\ req[q].pc = "row"
    BY <1>14 DEF DeleteRow
  <2>2. ~RowExists' /\ create \notin {"ready", "insert"}
    BY <2>1 DEF RowExists, NoRun, PInv, RowStays
  <2>3. RowStays'
    BY <2>1, <2>2 DEF PInv, RowStays
  <2>4. PersistInv'
    BY <2>1, <2>2 DEF PInv, PersistInv, LabelledIsPersisted
  <2> QED BY <2>3, <2>4 DEF PInv
<1>15. ASSUME NEW q \in Requests, RequestFails(q) PROVE PInv'
  <2>1. wf' = wf /\ rep' = rep /\ row' = row /\ create' = create /\ ReqDone(q)
    BY <1>15 DEF RequestFails
  <2>2. \A k \in Deleters : req'[k].pc = "row" => req[k].pc = "row"
    BY <2>1, <1>t, <1>r
  <2> QED BY <2>1, <2>2, PersistFrame
<1> QED BY <1>1, <1>2, <1>3, <1>4, <1>5, <1>6, <1>7, <1>8, <1>9, <1>10, <1>11, <1>12,
           <1>13, <1>14, <1>15 DEF Next

(* The initial states satisfy all of it.                                    *)
LEMMA InitStable == Init => SInv /\ PInv
<1> SUFFICES ASSUME Init PROVE SInv /\ PInv
  OBVIOUS
<1>1. IInv /\ \A h \in Reporters : rep[h].pc = "idle"
  BY InitInv DEF Init, IdleReport
<1>2. /\ cache = NoWorkflow /\ watch \subseteq {wf} /\ row.state \notin FinalStates
      /\ ~wf.label /\ ~IsInFinalState(wf)
      /\ create = "ready" => wf = NoWorkflow /\ row.state = "NONE"
      /\ create # "insert"
  BY DEF Init, NoWorkflow, NewWorkflow, NoRun, CreatedRun, FinalStates, IsInFinalState, FinalPhases
<1>3. \A w : IsHeld(w) => w \in {wf, NoWorkflow}
  BY <1>1, <1>2 DEF IsHeld, Busy
<1>4. ~NoWorkflow.label /\ ~IsInFinalState(NoWorkflow) /\ NoWorkflow.ver = 0
  BY DEF NoWorkflow, IsInFinalState, FinalPhases
<1>5. OneReport /\ OrderInv
  <2>1. \A w \in watch : w.ver \in Nat
    BY <1>1 DEF IInv, TypeOK, Workflow
  <2>2. \A w \in watch : cache.ver <= w.ver
    BY <1>2, <1>4, <2>1
  <2> QED BY <1>1, <2>2 DEF OneReport, OrderInv, Busy
<1>6. HistoryInv
  BY <1>2, <1>3, <1>4 DEF HistoryInv, Keeps
<1>7. StableInv
  BY <1>2 DEF StableInv
<1>8. RowStays
  <2>1. create = "ready" => ~RowExists
    BY <1>2 DEF RowExists
  <2>2. \A q \in Deleters : req[q].pc # "row"
    BY DEF Init, FreshRequest, Requests
  <2> QED BY <1>1, <1>2, <2>1, <2>2 DEF RowStays
<1>9. PersistInv
  BY <1>1, <1>2 DEF PersistInv, LabelledIsPersisted
<1> QED BY <1>5, <1>6, <1>7, <1>8, <1>9 DEF SInv, PInv
-----------------------------------------------------------------------------
(* Reports of a run that nobody retries agree with its final row.           *)
LEMMA StableInvariance == ASSUME Calm PROVE Spec => [](IInv /\ SInv)
<1>1. Init => IInv /\ SInv
  BY InitInv, InitStable
<1>2. IInv /\ SInv /\ [Next]_vars => (IInv /\ SInv)'
  BY InvStep, StableStep
<1> QED BY <1>1, <1>2, PTL DEF Spec

(* ... and its label keeps its promise.                                     *)
LEMMA PersistInvariance ==
    ASSUME Calm, Recurring => Deleters = {}
    PROVE  Spec => [](IInv /\ SInv /\ PInv)
<1>1. Init => IInv /\ SInv /\ PInv
  BY InitInv, InitStable
<1>2. IInv /\ SInv /\ PInv /\ [Next]_vars => (IInv /\ SInv /\ PInv)'
  BY InvStep, StableStep, PersistStep
<1> QED BY <1>1, <1>2, PTL DEF Spec

(* A final state in run_details is final: no late report, no termination    *)
(* and no other request but DeleteRun takes it back, as long as nobody      *)
(* retries the run and the agent waits for its reports.                     *)
THEOREM FinalStateIsFinal == ASSUME Calm PROVE Spec => FinalStateIsStable
<1> DEFINE Stays == row.state \in FinalStates => row'.state \in {row.state, "NONE"}
<1>1. ASSUME IInv, SInv, [Next]_vars PROVE Stays
  <2> SUFFICES ASSUME row.state \in FinalStates, row'.state # row.state
               PROVE  row'.state = "NONE"
    OBVIOUS
  <2> USE DEF db, cluster, agentVars
  <2>0. row \in Run /\ RowExists /\ row.state \notin {"PENDING", "RUNNING"}
    BY <1>1 DEF IInv, TypeOK, RowExists, FinalStates
  <2>1. ASSUME NEW h \in Reporters, UpdateRun(h) PROVE FALSE
    <3>1. row'.state = StateOf(rep[h].snap)
      BY <2>0, <2>1 DEF UpdateRun, SaveRow
    <3>2. Busy(h)
      BY <2>1 DEF UpdateRun, At, Busy
    <3>3. Holds(rep[h].snap)
      BY <1>1, <3>2 DEF SInv, StableInv, OneReport, IsHeld
    <3> QED BY <3>1, <3>3 DEF Holds
  <2>2. ASSUME NEW h \in Reporters, PluginRunEnd(h) PROVE FALSE
    BY <2>0, <2>2 DEF PluginRunEnd, Run
  <2>3. ASSUME NEW h \in Reporters, CreateFromReport(h) PROVE FALSE
    BY <2>0, <2>3 DEF CreateFromReport
  <2>4. ASSUME NEW h \in Reporters, AgentReports(h) \/ ReportStep(h) \/ ReportFails(h) \/ ReadRunFails(h)
      PROVE  FALSE
    BY <2>1, <2>2, <2>3, <2>4
       DEF AgentReports, ReportStep, ReportFails, ReadRunFails, ValidateUID, GcPersisted,
           CheckVersion, ReadRun, GcObsolete, VerifyRun, LabelWorkflow, ReportTasks
  <2>5. ~InsertRun
    BY <2>0 DEF InsertRun
  <2>6. ASSUME NEW q \in Terminators, TerminateRow(q) \/ TerminatePatch(q) PROVE FALSE
    BY <2>0, <2>6 DEF TerminateRow, TerminatePatch
  <2>7. ASSUME NEW q \in Deleters, DeleteWorkflow(q) \/ DeleteRow(q) PROVE row'.state = "NONE"
    BY <2>7 DEF DeleteWorkflow, DeleteRow, NoRun
  <2>8. CASE \/ CreateWorkflow \/ CreateRunFails \/ ArgoStart \/ ArgoFinish \/ ArgoTouch
             \/ TtlPasses \/ DeleteJob \/ Deliver \/ Resync \/ AgentSkips \/ AgentTimeout
             \/ AgentRestart \/ UNCHANGED vars \/ \E q \in Requests : RequestFails(q)
    BY <2>8 DEF CreateWorkflow, CreateRunFails, ArgoStart, ArgoFinish, ArgoTouch, TtlPasses,
                DeleteJob, Deliver, Resync, AgentSkips, AgentTimeout, AgentRestart, vars,
                RequestFails
  <2> QED BY <1>1, <2>4, <2>5, <2>6, <2>7, <2>8 DEF Next, Calm
<1>2. IInv /\ SInv /\ [Next]_vars => [Stays]_vars
  BY <1>1
<1> QED BY <1>2, StableInvariance, PTL DEF Spec, FinalStateIsStable

(* The comment on PersistedFinalState is true: whenever the CR carries the  *)
(* label, run_details holds its final state and finish time or the run has  *)
(* been deleted.  Recurring runs must not be deleted: the insert of a       *)
(* CreateRun that the report overtook would bring the row back as PENDING.  *)
THEOREM LabelIsPersisted ==
    ASSUME Calm, Recurring => Deleters = {}
    PROVE  Spec => []LabelledIsPersisted
<1>1. IInv /\ SInv /\ PInv => LabelledIsPersisted
  BY DEF PInv, PersistInv
<1> QED BY <1>1, PersistInvariance, PTL

(* ReportWorkflowResource deletes, by name, only a workflow whose final     *)
(* state and finish time are in run_details, unless the run was deleted.    *)
THEOREM CollectedIsPersisted ==
    ASSUME Calm, Recurring => Deleters = {}
    PROVE  Spec => OnlyPersistedIsCollected
<1> DEFINE Good == \A h \in Reporters :
             rep[h].pc = "gc" /\ rep'[h].pc # "gc" /\ Exists(wf) /\ ~Exists(wf') /\ RowExists
                => row.state = StateOf(wf) /\ row.fin = wf.fin
<1>1. ASSUME IInv, SInv, PInv PROVE Good
  <2> SUFFICES ASSUME NEW h \in Reporters, rep[h].pc = "gc", Exists(wf), RowExists
               PROVE  row.state = StateOf(wf) /\ row.fin = wf.fin
    OBVIOUS
  <2>1. rep[h].snap.label /\ IsHeld(rep[h].snap) /\ IsHeld(wf)
    BY <1>1 DEF PInv, PersistInv, IsHeld, Busy
  <2>2. Keeps(wf, rep[h].snap)
    BY <1>1, <2>1, HeldIsVersion DEF SInv, HistoryInv
  <2> QED BY <1>1, <2>1, <2>2 DEF Keeps, PInv, PersistInv, LabelledIsPersisted
<1>2. IInv /\ SInv /\ PInv /\ [Next]_vars => [Good]_vars
  BY <1>1
<1> QED BY <1>2, PersistInvariance, PTL DEF Spec, OnlyPersistedIsCollected
-----------------------------------------------------------------------------
(* No report of a one-off run is about to create its row.                   *)
NoneCreates == \A h \in Reporters : rep[h].pc # "create"

(* The row of a deleted one-off run does not come back, whatever retries,   *)
(* terminations, timeouts and reports race with the deletion.               *)
THEOREM DeletedIsGone == ASSUME ~Recurring PROVE Spec => DeletedStaysDeleted
<1> DEFINE Stays == (create \in {"done", "failed"} /\ ~RowExists) => row'.state = "NONE"
<1> USE DEF db, cluster, agentVars
<1>1. Init => NoneCreates
  BY DEF Init, NoneCreates, IdleReport
<1>2. ASSUME TypeOK, NoneCreates, [Next]_vars PROVE NoneCreates'
  <2>g. ASSUME NEW h \in Reporters, NEW pc, NEW result, pc # "create",
               Go(h, pc) \/ End(h, result)
        PROVE  NoneCreates'
    <3>1. CASE Go(h, pc)
      BY <1>2, <2>g, <3>1 DEF Go, NoneCreates, TypeOK
    <3>2. CASE End(h, result)
      BY <1>2, <2>g, <3>2 DEF End, NoneCreates, TypeOK, IdleReport
    <3> QED BY <2>g, <3>1, <3>2
  <2>s. rep' = rep => NoneCreates'
    BY <1>2 DEF NoneCreates
  <2>1. ASSUME NEW h \in Reporters, ReportStep(h) \/ ReportFails(h) \/ ReadRunFails(h)
        PROVE  NoneCreates'
    <3>0. rep[h].snap \in Workflow
      BY <1>2 DEF TypeOK
    <3>1. /\ AfterUid(rep[h].snap) # "create" /\ AfterGc(rep[h].snap) # "create"
          /\ \A plug : AfterRow(rep[h].snap, plug) # "create"
      BY <3>0, NextPcs
    <3>2. CASE ReadRun(h)
      BY <1>2, <3>2 DEF ReadRun, NoneCreates, TypeOK
    <3>3. CASE CreateFromReport(h)
      BY <1>2, <3>3 DEF CreateFromReport, At, NoneCreates
    <3>4. CASE \/ ValidateUID(h) \/ GcPersisted(h) \/ CheckVersion(h) \/ UpdateRun(h)
               \/ GcObsolete(h) \/ PluginRunEnd(h) \/ VerifyRun(h) \/ LabelWorkflow(h)
               \/ ReportTasks(h) \/ ReportFails(h)
      <4>1. PICK pc, result : pc # "create" /\ (Go(h, pc) \/ End(h, result))
        BY <3>1, <3>4 DEF ValidateUID, GcPersisted, CheckVersion, UpdateRun, GcObsolete,
             PluginRunEnd, VerifyRun, LabelWorkflow, ReportTasks, ReportFails
      <4> QED BY <4>1, <2>g
    <3>5. ~ReadRunFails(h)
      BY <1>2 DEF ReadRunFails
    <3> QED BY <2>1, <3>2, <3>3, <3>4, <3>5 DEF ReportStep
  <2>2. ASSUME NEW h \in Reporters, AgentReports(h) PROVE NoneCreates'
    BY <1>2, <2>2 DEF AgentReports, NoneCreates, TypeOK
  <2>3. ASSUME NEW q, RetryStep(q) PROVE rep' = rep
    BY <2>3 DEF RetryStep, RetryRead, RetryGet, RetryUpdate, RetryCreate, RetryNotify, RetryRow
  <2>4. ASSUME NEW q, \/ TerminateRow(q) \/ TerminatePatch(q) \/ DeleteWorkflow(q)
                      \/ DeleteRow(q) \/ RequestFails(q)
        PROVE  rep' = rep
    BY <2>4 DEF TerminateRow, TerminatePatch, DeleteWorkflow, DeleteRow, RequestFails
  <2>5. CASE \/ CreateWorkflow \/ InsertRun \/ CreateRunFails \/ ArgoStart \/ ArgoFinish
             \/ ArgoTouch \/ TtlPasses \/ DeleteJob \/ Deliver \/ Resync \/ AgentSkips
             \/ AgentTimeout \/ AgentRestart \/ UNCHANGED vars
    BY <2>5, <2>s DEF CreateWorkflow, InsertRun, CreateRunFails, ArgoStart, ArgoFinish, ArgoTouch,
         TtlPasses, DeleteJob, Deliver, Resync, AgentSkips, AgentTimeout, AgentRestart, vars
  <2> QED BY <1>2, <2>s, <2>1, <2>2, <2>3, <2>4, <2>5 DEF Next
<1>3. ASSUME NoneCreates, [Next]_vars PROVE Stays
  <2> SUFFICES ASSUME create \in {"done", "failed"}, row.state = "NONE" PROVE row'.state = "NONE"
    BY DEF RowExists
  <2>1. ASSUME NEW h \in Reporters, ReportStep(h) \/ ReportFails(h) \/ ReadRunFails(h) \/ AgentReports(h)
        PROVE  row' = row
    BY <1>3, <2>1 DEF ReportStep, ReportFails, ReadRunFails, AgentReports, ValidateUID, GcPersisted,
         CheckVersion, ReadRun, UpdateRun, GcObsolete, CreateFromReport, PluginRunEnd, VerifyRun,
         LabelWorkflow, ReportTasks, RowExists, At, NoneCreates
  <2>2. ASSUME NEW q, RetryStep(q) PROVE row' = row
    BY <2>2 DEF RetryStep, RetryRead, RetryGet, RetryUpdate, RetryCreate, RetryNotify, RetryRow,
         RowExists
  <2>3. ASSUME NEW q, \/ TerminateRow(q) \/ TerminatePatch(q) \/ DeleteWorkflow(q)
                      \/ DeleteRow(q) \/ RequestFails(q)
        PROVE  row' = row \/ row' = NoRun
    BY <2>3 DEF TerminateRow, TerminatePatch, DeleteWorkflow, DeleteRow, RequestFails
  <2>4. CASE \/ CreateWorkflow \/ InsertRun \/ CreateRunFails \/ ArgoStart \/ ArgoFinish
             \/ ArgoTouch \/ TtlPasses \/ DeleteJob \/ Deliver \/ Resync \/ AgentSkips
             \/ AgentTimeout \/ AgentRestart \/ UNCHANGED vars
    BY <2>4 DEF CreateWorkflow, InsertRun, CreateRunFails, ArgoStart, ArgoFinish, ArgoTouch,
         TtlPasses, DeleteJob, Deliver, Resync, AgentSkips, AgentTimeout, AgentRestart, vars
  <2> QED BY <1>3, <2>1, <2>2, <2>3, <2>4 DEF Next, NoRun
<1>4. TypeOK /\ NoneCreates /\ [Next]_vars => NoneCreates' /\ [Stays]_vars
  BY <1>2, <1>3
<1> QED BY <1>1, <1>4, TypeCorrect, PTL DEF Spec, DeletedStaysDeleted
=============================================================================
