# Data Science Pipelines: TLA+ specification

TLA+ models of Data Science Pipelines (the Red Hat distribution of Kubeflow
Pipelines), from the pipeline an author writes to the jobs it starts:

* the control plane (`src/backend/src/`): how a run and a recurring run live at the
  same time in the Kubernetes API and in the API server's database, and how the
  processes that carry state from one to the other race;
* the metadata writer (`src/backend/metadata_writer/`);
* the SDK's compiler (`src/sdk/python/kfp/dsl`, `.../compiler`) and its local runner
  (`src/sdk/python/kfp/local`);
* the launchers of cloud jobs (`src/components/google-cloud`, `src/components/aws`).

## 1. Inventory

Paths of the control plane are relative to `src/backend/src/`.

| Component | State | Operations | Talks to |
|---|---|---|---|
| API server, runs (`apiserver/resource/resource_manager.go`, `storage/run_store.go`) | `run_details` rows; no memory between requests | CreateRun, RetryRun, TerminateRun, DeleteRun, ReportWorkflowResource, archive, list | Kubernetes API (Workflow CRs), database, plugins |
| API server, recurring runs (`resource_manager.go`, `storage/job_store.go`) | `jobs` rows | CreateJob, ChangeJobMode, DeleteJob, ReportScheduledWorkflowResource, ReconcileSwfCrs | ScheduledWorkflow CRs, database |
| API server, experiments, pipelines, tasks, metrics, artifacts | rows, object store files | CRUD, archive of an experiment with its runs and jobs | database, object store |
| Plugin dispatcher (`apiserver/plugins`) | plugin output column of a run | OnBeforeRunCreation, OnRunEnd, OnRunRetry | MLflow; called by run handlers |
| Persistence agent (`agent/persistence`) | informer caches, work queues | deliver, skip, report, retry | API server's report API |
| ScheduledWorkflow controller (`crd/controller/scheduledworkflow`) | informer caches, work queue; LastIndex and LastTriggeredTime in the CR | sync: list, decide, submit, update the status | Kubernetes API, API server's CreateRun |
| Schedules (`.../util/periodic_schedule.go`, `cron_schedule.go`) | none | next scheduled time, with and without catch-up | the controller |
| Argo workflow controller (external) | phase of Workflow CRs, labels and annotations of pods | start, finish | Kubernetes API |
| Metadata writer (`src/backend/metadata_writer`) | three caches; labels on pods | take an event, record execution, inputs, outputs, patch the labels, watch again | Kubernetes API, ML Metadata |
| SDK compiler (`kfp/dsl/tasks_group.py`, `pipeline_context.py`, `kfp/compiler/compiler_utils.py`, `pipeline_spec_builder.py`) | the stack of open groups while a pipeline function runs; the specification under construction | enter and leave blocks, add tasks, compile groups into dags, merge an inner pipeline | Argo compiler (`v2/compiler/argocompiler/dag.go`), local runner |
| SDK local runner (`kfp/local`) | an IOStore per dag call, thread pools, the workspace directory | order tasks, run, retry, skip, loop, collect, exit handlers | containers or subprocesses |
| Cloud launchers (`google_cloud_pipeline_components/container`, `components/aws/sagemaker`) | the container's variables; the `gcp_resources` file | create or adopt a job, record it, poll, cancel on SIGTERM | services of Google Cloud and AWS |
| Driver, launcher, metadata client (`v2/`) | ML Metadata executions, cache entries | create an execution, cache lookup, publish, update the DAG's state | ML Metadata, API server's task API |
| v1 execution cache (`cache/`) | `execution_caches` rows | mutate a pod, watch pods, insert, expire | Kubernetes API |
| Viewer controller (`crd/controller/viewer`) | Viewer CRs | reconcile, evict the oldest | Kubernetes API |
| Templates, API conversion, auth, SDK client and command line, generated API clients, ACK components, frontend | none of their own | translations, proxies, single calls, decisions per request | |

Hard behaviours, and where they are dealt with (`PROJECT.json` lists them line by
line under `hazards`):

* no transaction spans the Workflow CR and the row, and every handler writes both:
  CreateRun and TerminateRun in one order, RetryRun in the other;
* the agent, the controller and the metadata writer decide on caches and watches that lag;
* reports are abandoned after a minute, retried, and overlap each other and the
  users' requests;
* the API server, the controllers, the metadata writer and the containers of cloud jobs
  may stop between any two calls;
* controller replicas process the same trigger; loop iterations run on threads;
* the compiler finds values again by name, and goes through protobuf maps whose
  order is not defined;
* something must happen in the end: a run settles, finished workflows are
  labelled and collected, every due time gets its run, a pipeline returns, a container
  ends, outputs are recorded.

What makes each component correct:

* *runs*: the label `pipeline/persistedFinalState` means that
  the final state is in the database, because the CR may be deleted afterwards;
  a final state stays; deleted runs stay deleted; no CR leaks; a run settles;
* *recurring runs*: every trigger gets one run, at its time, in order, within the
  concurrency limit, whatever fails between submitting and recording;
* *schedules*: the computed times are the due times of the schedule;
* *metadata writer*: a pod is recorded once, with its inputs and outputs, and a pod
  labelled as written really is;
* *compiler*: each task, condition and loop of the compiled dags is given what the author
  named, is in the blocks the author wrote it in, and waits for what it reads; an inner
  pipeline keeps its components and executors;
* *local runner*: tasks run after their upstream, the verdict and the statuses it hands
  out are true, loop outputs follow the items, nothing outlives the pipeline;
* *cloud launchers*: a reported success is one, a recorded job is not started twice, a
  termination reaches the job, the container ends.

## 2. Modules

| Module | Models |
|---|---|
| `RunLifecycle` | one run: CR, row, persistence agent, reports, requests |
| `MCRunLifecycle` | symmetry for its runs |
| `RunLifecycleProofs` | what the label means, and what the row keeps of a finished run |
| `Schedules` | the schedules as operators, and the due times they should give |
| `Timer` | a schedule triggered by a controller that may be late; extends `Schedules` |
| `MCSchedules` | the schedules of its run |
| `SchedulesProofs` | the operators of `Schedules` and the timer, for every schedule and every time |
| `ScheduledWorkflow` | one recurring run and the replicas of its controller; extends `Schedules` |
| `MCScheduledWorkflow` | the schedules of its runs |
| `ScheduledWorkflowProofs` | the controller for any number of replicas, failures and restarts; extends `SchedulesProofs` |
| `MetadataWriter` | the pods, the watch, the writer with its caches, ML Metadata |
| `MCMetadataWriter` | the pods, workflows and cache sizes of its run |
| `MetadataWriterProofs` | the writer for all workflows, cache sizes and faults |
| `DagRun` | what a run of a dag promises, whichever orchestrator runs it |
| `LocalDag` | the local runner; implements `DagRun` |
| `MCLocalDag` | seven compiled pipelines |
| `LocalDagProofs` | the local runner for every well-formed pipeline, and the refinement |
| `PipelineCompiler` | the blocks of a pipeline function and the dags they become |
| `MCPipelineCompiler` | its instance |
| `PipelineCompilerProofs` | where tasks and blocks end up, what waits for what and what is read, for any number of them |
| `SpecMerge` | the merge of a pipeline that is used as a component |
| `MCSpecMerge` | the pairs of pipelines that are merged |
| `SpecMergeProofs` | the merge for all names and all pipelines |
| `RemoteJob` | a container that starts a cloud job and waits for it |
| `RemoteLaunchers` | the launchers as records of what their code does |
| `MCRemoteJob` | all launchers together |
| `RemoteJobProofs` | the inductive invariant and the theorems about jobs |

Definitions whose comment begins with "Mutant of" are altered copies of the
definition that follows them. They are not part of the specification: each shows
that a property fails when the code is changed in that way.

### RunLifecycle

`wf` is the CR (uid, resourceVersion, phase, finish time, activeDeadline set to
0, label), `row` the row of `run_details`. `Store` is a write to the Kubernetes
API: a new resourceVersion and an event in `watch`. `Deliver` takes any event that
is at least as new as the cache: an informer may skip versions and does not go
back. The agent has one work item, because a work queue never gives one key to two
workers; `AgentTimeout` lets it abandon a report that goes on in the server, so that
the next report overlaps.

A report is one execution of `ReportWorkflowResource`, one step per call: the UID
check, the collection of a labelled CR, the resourceVersion check, `GetRun`,
`UpdateRun`, the deletion of an obsolete CR or the creation of a recurring run's
row, the plugins, the check of the row, the label patch that tests resourceVersion,
and the tasks. `ReportFails` is the failure of any of these calls; `ReadRunFails` is that of `GetRun`
in the report of a recurring run, which goes on as if there were no row (`resource_manager.go:1632`). Requests are
split in the same way: RetryRun reads, gets, updates or creates the CR, notifies
the plugins, and writes the row last; DeleteRun deletes the CR, goes on when that fails
(`resource_manager.go:949`), and deletes the row. `recorded` is a history variable, the set of
final states with finish times that the row ever held.

Abstractions: Failed and Error are one phase, which the code treats alike; manifests
are the workflow they describe; the plugin output is none, open or ended; finish
times are a counter; the TTL is the finish time up to which workflows are past it.
Pods deleted by RetryRun, resource references, metrics and counters are left out.

### Schedules and ScheduledWorkflow

Times are numbers of seconds and an absent time is 0. A cron expression is the set of
times it matches; parsing it, time zones and `Next` are the cron library's (external).

`spec` is the recurring run (schedule, noCatchup, whether it carries its workflow),
chosen in `Init` from `Specs`; `swf` is the resource (version, enabled, the condition with the label, LastIndex,
LastTriggeredTime, the history of active and completed workflows). Each replica has
a cache of it and one of the workflows; each receives every version, in order, but
the two lag independently. A sync reads the
resource, the time and the active workflows (`StartSync`), the completed ones and the
schedule (`ListCompleted`), submits, and updates the status. Submitting is one write
when the resource carries its workflow (`spec.pinned`, v1), and the API server's
CreateRun otherwise: look for the run, create the workflow, insert the row. The status
is written only if conditions, labels or history changed, and only onto the
version that was read. The phases of a workflow are reduced to done or not, so the
model's history changes less often than the code's. `made` is a history variable.

Failures, restarts, mode changes, deletions and collections share one budget,
`MaxEvents`. A failed sync stops where it is, the API server's part of it included;
a CreateRun that goes on after the controller has given up is not modelled.

NextTriggeredTime, parameters, Kubernetes events and the two guards against v1 pipelines are
left out; a run's deletion is one step here, its two writes are in `RunLifecycle`.

### MetadataWriter

Pods go through Argo's life: created, the annotation with the outputs, completed, deleted.
Every write of a pod, the writer's labels too, is an event of the watch. The writer takes
one event at a time and each of its calls (contexts, execution, input artifacts, labels,
output artifacts, the second patch) is a step, which may fail and end the watch, or stop
the process; a new watch (`NewWatch`) lists the pods that exist in the order of their names, which
`shape.place` gives. The three caches have their own sizes and drop the entry that was used longest ago; looking
an entry up brings it to the front. `patch_pod_metadata` may give up
silently. A pod has one life: Argo creating it again under the same name is not modelled.

### DagRun and LocalDag

`DagRun` is the abstract promise: pending, running and settled tasks of a dag, when a task
may begin, when a failure cascades, and when a verdict may be given.

In `LocalDag` one call of `run_enhanced_dag` or `run_dag` is a *frame*, named by the path of
`<<task, iteration>>` calls that leads to it. Its record holds the call's IOStore (inputs,
outputs, statuses), the tasks still to run, the task in progress, the loop it waits for and
what it returned. The chain of parent stores is the prefixes of the path. The frames of a
parallel loop run at the same time, bounded by the pool of that loop. A container ends well
or not; a retry runs it again. Values are who produced them, the truth a condition finds in
them, and the list they hold.

The refinement `ImplementsDagRun` maps the root frame: its tasks to their states and the
result of the pipeline to the verdict. It is a PROPERTY of the run.

`WellFormed` says what the pipelines of `PipelinesAssumption` have in common, as the compiler guarantees it: a loop or
condition task has a dag as its component, nothing depends on an exit task, and a task that takes a final status is an exit task that takes
it of one ordinary task of its dag.

Left out: the execution cache on disk, virtual environments, placeholders, importers, logging.

### PipelineCompiler

The author's steps are the actions: `add_task`, `after` (of any task, at any time, with any task or handler that exists by then), entering `ParallelFor`, `If`, `Elif`, `Else` and
`ExitHandler`, leaving a block (`Exit`), and `create_pipeline_spec`, which accepts or
rejects. What the compiled dags contain is a function of what was written: `Path` is the chain
of groups of a node, the inputs of a group are what `get_inputs_for_all_groups` punches through
it, `get_dependencies` gives what a dag's tasks wait for, and `addImplicitDependencies` is what
the Argo compiler adds. A channel is where it comes from and how many `-loop-item` its name
ends with, because names are all by which the code finds a value again.

`groups` is the compiler's stack; `open` and `within` are history: the blocks the author is in
according to the text. The two differ where the code leaves a group open.

The properties name where the code goes wrong instead of hiding it: `Clear` (two channels whose
names contain each other), `Apart` (outputs of a task in a group that the reader is not in),
`Home` (where a value comes into being; what a task or block beside it reads is always right) and `Needed` (a block's own input), `Ended` (a chain of branches without Else),
`AftersGoBack` (no `after()` with what was written later) and `NoneWaitsForABranch`. Section 3 lists the cases. Assumed: the names of different parameters,
outputs and constant lists do not contain each other (the compiler tests substrings, so `loop-item-param-1` is contained in `loop-item-param-10`: a pipeline
with more than nine loops over constant lists is outside the model), and an exit task serves one handler. `dsl.OneOf`, keys of items and
types are left out.

### SpecMerge

`merge_deployment_spec_and_component_spec`: executors, then names, then renaming, then copying,
each loop in any order of its map. Names are abstract: `Indexed(n, i)` is a name with an index,
and nothing keeps it from being the name of another component. `outer` and `inner` remember the
specifications as they were.

### RemoteJob and RemoteLaunchers

`RemoteJob` is one container with the steps create or adopt, record, poll, judge, output. A
launcher is a record: whether it adopts the job in `gcp_resources`, records, polls, fetches an
adopted job, what it makes of a lost answer and of each state of the job. `RemoteLaunchers` has one
definition for each component; components that differ only in the request they build have the
same record. `check_if_job_exists` leaves a file that names a job alone, and so the property `RecordedJobIsKept` claims
the launchers that have it. `wait_gcp_resources` is given its job and never looks into the file: each of its containers
truncates and rewrites it (`wait_gcp_resources/remote_runner.py:82`), which the steps `OpenFile` and `WriteFile` are for it too. A
lost answer ends the container, or is counted up to the limit (`wait_gcp_resources`), or is asked for again (BigQuery, for an
error in JSON). A ConnectionError that the cancellation raises inside the counted part is taken for a lost answer (`CancelUnheard`, and
`sig` is then "unheard"). The container may be preempted and started again at any step (Google Cloud), calls may
fail, SIGTERM may come at any point, and the service ends the job in any final state. It is assumed
that `gcp_resources` survives a preemption, as the docstrings of the launchers do ("This
happens if the launcher container experienced unexpected termination, such as preemption"); a
preemption while the file is written leaves it empty. `lost` holds the jobs whose creation no
container could record.

## 3. Runs

All bounds are constants named `Max...`. CHECK_DEADLOCK is off in every run: a run that was
collected, a schedule after its last time, a pipeline that returned, a container that ended, a
finished merge and a compiled pipeline really stop.

| Run | Instance | Shows |
|---|---|---|
| `run_reports` | two reporters, one retry, one abandoned report | the label means that the row held the final state; so it is never on a workflow that runs again |
| `run_settles` | a recurring run from its creation, one reporter, one termination, one server fault, one touch of the CR, plugins | label and row agree, final states stay, only a persisted run is collected, the run settles, finished workflows are labelled |
| `run_deleted` | one reporter, one retry, one deletion, creation included, plugins | deleted rows stay deleted, CRs without a row are collected |
| `schedule_times` | every kind, start, end and interval up to time 12 | the computed times against the due times |
| `swf_triggers` | one replica; cron, one-off (carrying its workflow), and periodic without catch-up; one event of any kind | no trigger skipped; triggers on schedule; the record moves forward |
| `swf_replicas` | two replicas that go through CreateRun, periodic, no failure | a disagreement: `OneWorkflowPerTrigger` is violated, a trigger gets two workflows |
| `swf_served` | one replica, periodic, up to time 3, fairness | every due time is served |
| `metadata_writer` | two pods of one workflow (one reads the other's output, names in either order) or of two, caches of one or two entries, a backlog of three events, one fault | a pod is recorded once without faults; a written label means recorded; inputs are linked while the watch lasts; a labelled pod is not recorded again; outputs are recorded in the end |
| `local_dag` | seven pipelines: sequential, exit handler with a retry, loop and clean-up, nested loops, If/Else with OneOf, a pipeline as a component, a loop over artifacts with such a pipeline in it; both runners; loops of up to three items; every outcome of every task | order, verdict, final statuses, collected outputs, clean-up; the pipeline returns; `LocalDag` implements `DagRun` |
| `pipeline_compiler` | one parameter, every pipeline function of up to two tasks and three blocks or calls of `after()` | tasks and blocks read what was written, are where they were written, wait for what they read, and no dag is circular |
| `spec_merge` | every outer and inner pipeline with components among a, a-2, a-3, one inner component possibly a dag | tasks keep their components, the outer pipeline is kept, and executors are kept when labels are apart |
| `remote_job` | every launcher, two preemptions, six failed calls, SIGTERM at any point, any end of the job | a success is one; no second job; termination reaches the job; a recorded job is kept; the container ends |

Why the bounds are enough. The races of the control plane are between two executions at a time (a
report and a retry, two reports, two syncs), so two of each with one
fault reach every pair of positions; a second trigger is needed and sufficient to
see the effect of a wrong record of the first. `MaxVersion` bounds the writes of the
resource, whose status two replicas with different caches may rewrite for ever. The passing runs have one replica (two exceed TLC's reach
with these events); for any number of them the same properties rest on the proofs. The metadata writer
handles one pod at a time and relates at most two pods, a reader and its upstream; two pods also
fill a cache of one. A loop of three items in two threads has a running, a waiting and
a finished iteration at the same time. Every rule of the compiler is about one reader, one producer and the
blocks between them, which two tasks and three blocks (or two blocks and an `after()`) give in all nestings (If, Elif and Else
together are three blocks), but for the item of an item, whose loops need a fourth block between them to come
apart: that is out of the run's reach and rests on the proof (an earlier `Clear` held with three blocks and was too weak with four). In a merge three names are what renaming onto another's old name
needs, and index 6 is one more than three names in two pipelines can take. Six failed calls are one more than
`_CONNECTION_ERROR_RETRY_LIMIT`, and two preemptions let a container adopt a job that was itself
adopted.

Fairness. `RunLifecycle`: the informer delivers and resyncs every 30 seconds
(`agent/persistence/main.go:112`), workers loop, accepted requests go on, Argo
finishes workflows, the TTL passes. `ScheduledWorkflow`: time passes, workflows
finish, informers deliver and resync, syncs go on. `LocalDag`: threads go on and containers end.
`RemoteJob`: the container goes on, the service ends its jobs and evaluates their debug rules, and a request for a
name that is taken is answered. `MetadataWriter`: the writer goes on; pods and Argo owe nothing. All of it is
weak fairness, and users owe nothing. Faults are finite: a rate-limited retry gives progress only
when the failures end.

### Disagreements between code and comments

Met while modelling. The models contain these behaviours; the properties are claimed where they hold, and say so.

*Runs.*
* A late report of a labelled version deletes the CR by name, also when RetryRun has
  started it again (`resource_manager.go:1560`): `OnlyPersistedIsCollected` is claimed without retries.
* RetryRun's last write overwrites the state of an attempt already reported and labelled
  (`resource_manager.go:1146`), although the label promises the state (`workflow.go:809`): the same for `LabelledIsPersisted`.
* A report between CreateRun's two writes deletes the CR as obsolete (`resource_manager.go:1607`).
* A report writes back the plugin output it read (`resource_manager.go:1601`), although
  `run_store.go:636` wants such callers to leave it unchanged.
* A report of a recurring run creates its row again after DeleteRun (`resource_manager.go:1696`).
* Two RetryRuns of one run both pass CanRetry on the same manifest (`resource_manager.go:1117`).

*Recurring runs.*
* `maxConcurrency` (`types.go:53`) is counted in a cache that may not have the last workflow yet.
* Without catch-up, LastTriggeredTime (`types.go:227`) may be a time for which no
  workflow was created: the sync that records a trigger computes its time again.
* After a restart and a collection at the wrong moment the schedule stops at a trigger that was never recorded.
* "Guard against duplicate runs from concurrent recurring-run controller replicas." (`resource_manager.go:627`): two
  replicas that both look for the run before either has inserted its row create two workflows for one trigger, under generated
  names (`argo.go:151`); only the rows are unified. The run `swf_replicas` shows it. Where a recurring run carries its workflow, the name made of
  the trigger's index prevents it as long as the first workflow is in the cluster.
* A cron expression that never matches (30 February) gives the zero time (`cron_schedule.go:117`).

*Metadata writer.*
* A restart between the calls leaves an execution that no label names, although the comment at
  `metadata_writer.py:142` says that the writer remains correct when it is restarted.
* After a new watch a reader whose name sorts before its upstream loses its inputs for good.
* With a cache of contexts smaller than that of executions (the sizes come from the environment,
  `metadata_writer.py:29`) the lookup raises after each new watch. Inputs are lost too: the new watch that follows the
  KeyError may bring a reader before the outputs of its upstream are recorded. The attempt to prove `LineageIsComplete`
  found this (three pods and two workflows are needed, more than the run has); the property is claimed for a
  cache of contexts that is at least as large, as the defaults are.

*Compiler.*
* Read wrongly and without an error: the list itself below a block of the loop over it; an item where two
  of the loops that lead to it go over one list; an item in an f-string through another block; the item of a constant
  list as the list of a loop with a block in between, which the comment at `compiler_utils.py:318` allows. A
  loop inside another block whose item no task reads is not given its list.
* `get_dependencies` (docstring, `compiler_utils.py:761`) accepts a condition or a list from a task inside a
  ParallelFor, and any output of a branch of an If with Elif or Else, read from outside.
* A chain of Elifs without Else, as in Elif's own docstring (`tasks_group.py:269`), leaves its group open, so that
  what follows lands in it. A task between Elif and Else lands in the group of the branches.
* Circular dags are accepted: an If, a task that runs after the branch's task, and an Elif on that task's output; and
  `after()` with a task that was written later (`pipeline_task.py:812`), as when `b` reads the output of `a` and then `a.after(b)` is called.
* An exit task that is shared by two handlers is overwritten by the second.
* Executor labels are renamed in place while some are still old ones (`pipeline_spec_builder.py:1945`, against the
  docstring at 1896): with a and a-2 in the inner and a in the outer pipeline two components end up with one executor.

*Local runner.*
* The item of a loop replaces every input that comes from a task's output (`task_spec_utils.py:153`, against `io.py:25`).
* A nested dag without parameters is called without its artifacts (`task_spec_utils.py:224`).
* The output that a task did not write is looked up in the dags around it (`io.py:96`), and may be that of another task
  of the same name, when a pipeline is used as a component; `CollectedInOrder` is claimed for dags that publish outputs of their own (`Own`).
* Exit tasks are not run after an exception that is no task failure (`enhanced_dag_orchestrator.py:665`).
* A task with `.ignore_upstream_failure()` that takes a `PipelineTaskFinalStatus` is compiled
  (`pipeline_spec_builder.py:1624`) to what the runner takes for an exit task, although `enhanced_dag_orchestrator.py:347` says "The
  compiler emits this exclusively for dsl.ExitHandler exit tasks". Such pipelines are not in `WellFormed`.
* A container that is removed before its exit code is read counts as successful (`docker_task_handler.py:156`); the logging
  patches of parallel iterations overwrite each other (`logging_utils.py:53`).

*Cloud launchers.*
* `JOB_STATE_EXPIRED` is in no list, and an expired job is polled for ever; `ContainerEnds` excepts it.
* The custom job's retries of a ConnectionError are unreachable: the call inside exits first (`remote_runner.py:63`). The docstring of the BigQuery launchers
  (`bigquery_util.py:296`) promises such retries too, and their loop has none.
* AWS jobs without a name given by the user are submitted again after a restart (`sagemaker_component.py:184`).
* `wait_gcp_resources` truncates the file that a container before it has recorded, at each start (`wait_gcp_resources/remote_runner.py:82`).
* Outside the poll loop nothing handles SIGTERM, and the handler exits with 0 for a cancelled task.

## 4. Proofs

`RunLifecycleProofs` proves, for every set of reporters and requests, one-off and
recurring runs, and all bounds: `TypeCorrect`, `LabelIsFinal` (`[]LabelOnlyOnFinal`, which follows from the next one and is a step to it) and
`LabelIsRecorded` (`[]LabelMeansRecorded`). The assumptions are `ConstantsAssumption`: kinds of
requests are disjoint and bounds are numbers.

The label properties are not inductive. When the patch is applied, the code knows only
the version it was sent, which it read from the cluster some time ago. The invariant
`IInv` adds what the resourceVersion test rests on: `VersionInv`, every copy of the
CR (cache, events, reports) with the current version is the current CR; `ReportInv`,
a report that has come to the plugins is about a final version, and one that has
come to the label has found that version's state in the row; `RowInv`, a final state in
the row is recorded; `RequestInv`, the manifest a retry writes has no label. The proof
goes action by action: `TypeStep`, `ReportInvStep`, `RowInvStep`, `RequestInvStep`,
`InvStep`.

Its second part is about the row once the run has finished. All four results are for an agent that does not abandon a
report and a run nobody retries (`Calm == Retriers = {} /\ MaxTimeouts = 0`); `DeletedIsGone` is for one-off runs instead:

* `FinalStateIsFinal`: `FinalStateIsStable`, an action property; needs `Calm` only;
* `LabelIsPersisted`: `LabelledIsPersisted`, and `CollectedIsPersisted`: `OnlyPersistedIsCollected`, for one-off runs, and for recurring ones nobody deletes;
* `DeletedIsGone`: `DeletedStaysDeleted`, with any retries, deletions and timeouts.

The hypotheses are what the code needs, and the attempt to do without them shows why: an abandoned report of a Running version goes on in the
server and overwrites the final state that the next report wrote; a retry does so on purpose (section 3); and when a recurring
run is deleted, the insert of a CreateRun that was overtaken, or a late report, brings the row back. The invariant: reports come one at a time,
each of a version at least as new as the one before (`OrderInv`); no later version of the CR takes back a final phase, a finish time or
the label (`HistoryInv`); so every version that can still be reported agrees with a final row (`StableInv`).

`SchedulesProofs` proves, for every schedule (any interval, window and cron expression) and every time:

* `NextIsLater`: a next scheduled time that has come is later than the last one, with and without catch-up;
* `NextIsDue`: with catch-up it is the next due time of the independent definition;
* `EveryDueTimeIsTriggered`: `TimerSpec => []CatchupMissesNothing`, and `LateControllerIsCurrent`: `TimerSpec => []NoCatchupIsCurrent`, however late the controller is.

The loop of `cron_schedule.go` is a recursive function over times. That it is defined and where it ends is shown by taking the last time for
which it would be wrong (`LoopExists`, `CatchUpEnds`): every set of numbers has a least element (`LeastNat`), which is the one form of induction the provers can use.

`ScheduledWorkflowProofs` proves, for any number of replicas, every recurring run and all bounds: `NoTriggerIsLost` (`[]RecordedWasCreated`), `WorkflowsFollowTheSchedule`
(`[]TriggersFollowSchedule`) and `TheRecordMovesForward` (`RecordMovesForward`). The resource lives on in copies, in watches, caches and the snapshots of syncs; `IInv` says of
every copy that it counts only triggers that were made, at their scheduled times, and that a copy with the current version is the resource. That is what
the conditional update of the status rests on.

`MetadataWriterProofs` proves, for all pods, dependencies, orders of names and sizes of caches:

* `MarksAreHonest`: `Spec => []WrittenIsRecorded`, with any number of faults;
* `LabelsHold`: `Spec => LabelsAreFinal`, an action property, with any number of faults;
* `EachPodIsRecordedOnce`: `Spec => []RecordedOnce`;
* `LineageHolds`: `Spec => []LineageIsComplete`.

`RInv` says of every version of a pod (in Kubernetes, in the watch, in the writer's hands) that its label names an execution of this pod in its
context, and of the writer how far it has come. `LabelInv` is what the caches are for: a version from before a label finds its pod in the cache that goes with the label;
with room for all pods nothing falls out, which is a pigeonhole argument (`CacheFits`). `OnceInv` says the same of what was recorded without a label. The
lineage needs two facts that no single step shows. `StackInv`: a context is at least as near to the front of its cache as any pod of its workflow is in its own, so
that it does not fall out first (both caches are used in the same order, and several pods share a context). `OrderInv`, `MarkInv` and `InputInv`: as long as the watch lasts, a pod whose events are still to come is preceded in the
stream by the outputs of the pods it reads, which are therefore recorded before.

`LocalDagProofs` proves, for every well-formed pipeline, however deep its dags and loops are nested, and both runners: `UpstreamComesFirst` (`[]UpstreamFirst`), `ExitTasksAreToldTheTruth`
(`[]FinalStatusIsTruthful`), `EveryThreadIsJoined` (`[]NothingOutlivesThePipeline`), `SuccessCanBeTrusted` (`[]SuccessIsSound`), and the refinement `ThePromiseIsKept` (`Spec => ImplementsDagRun`):
the initial states map to initial states, and each action of `LocalDag` to a step of `DagRun` or to none. `IInv` has three parts: what holds within a frame (`Placed` and the other conjuncts of `Local`),
what holds between a frame and the frames it called (`Called`), and that the frames form a tree. `OutputsKeepTheirPlaces` (`[]CollectedInOrder`) has an
invariant of its own on top of it, `Published`: an output that a frame keeps comes from a frame under it (`Kept`), and so does what it returned (`Returned`); the iterations whose results the
caller has taken exist and none of them raised (`Gathered`), and each was given its item (`ItemsGiven`). Statements about all frames below another one follow from those about one call by a least counterexample, a shortest path.

`RemoteJobProofs` proves, for every launcher record, not only those of the repository, and all bounds:

* `TypeCorrect`: `Spec => []TypeOK`;
* `AtMostOneJob`: `Spec => []NoSecondJob`, a launcher that adopts has at most one job that was not lost;
* `SuccessMeansSuccess`: `Spec => []SuccessIsReal`;
* `FileIsNeverRewritten`: `Spec => RecordedJobIsKept`, an action property, of the launchers that adopt;
* `TerminationIsPassedOn`: `Spec => []TerminationReachesTheJob`.

`IInv` adds to the types: `Waiting`, a launcher that waits for a job it is given creates none; `Recording`, what the
container knows of its job and what the file says agree at every step; `OneKnown`, a job that is not lost is the one in
the file or the one about to be written; `Judged`, a container that writes its outputs waited for a job that was judged good.
It rests on `LaunchersAssumption` (a launcher that adopts records, one that is given its job adopts none, and only AWS jobs are known by a name that was chosen before) and `BoundsAssumption`.

`PipelineCompilerProofs` proves, for any number of tasks and blocks and any nesting:

* `WritingIsSound`: `Spec => []IInv`;
* `EachTaskStaysInItsBlocks`: `Spec => []TasksRunWhereWritten`;
* `ReadersStartLast`: `Spec => []ReadersWait`;
* `NobodyWaitsInACircle`: `Spec => []DagsAreAcyclic`;
* `TasksAreGivenWhatWasMeant`: `Spec => []TasksReadWhatWasWritten`;
* `BlocksAreGivenWhatWasMeant`: `Spec => []BlocksReadWhatWasWritten`.

The compiler finds the group of a task on top of its stack, and the stack differs from the blocks the author is in: a group of branches is on it
from the Elif or Else that makes it necessary until the Else is left. `IInv` says of the tree (`Tree`, `Ranked`) that branches are in groups of branches, an Else is the last of its group, and
parents lead to the pipeline, although a group is made after its first branch; of the stack (`Deep`) that it does not run empty, because it is as long as the
author's and the groups whose Else has not been left together; and then, that either a group of branches has left the stack without Else (`Doomed`, which no step repairs, and which `Ended` excludes), or the
stack is a path of the tree with the author's blocks on it in their order (`Climbs`, `ElseOnTop`, `SameBlocks`), and every node is within the blocks of its parent (`Local`).
`Path` is a recursive function; it is defined because ranks fall (`PathsExist`), and what holds along it follows from a node of least rank for which it would fail.

`ReadersWait` needs two more facts (`Wired`): what a node reads was written before it, a loop reads one list at most, and a parent is older than its child
except for the group that the first branch was moved into (`Earlier`); and a compiled pipeline has no read or dependency that the compiler rejects (`Accepted`). From `Earlier`, the path of a
node holds nothing younger than the node but groups of branches (`PathsLead`), so a reader is not around what it reads, and no accepted task is upstream of itself (`NobodyAwaitsItself`), also when `after()` named a later task; two paths have a beginning in common and no more (`PathsPart`); so the pair that
`get_dependencies` makes of a task and what is upstream of it begins at or above every reader around the task (`DependencyHolds`). A condition, or a loop whose item is
read, has such a task in it; a block beside what it reads waits by `addImplicitDependencies`.

`DagsAreAcyclic` follows from the order of writing, as long as `after()` goes back (`AftersGoBack`; where it does not, the compiler accepts a circle). What is in a block was written in one piece: of two siblings, everything in the one is older than
everything in the other (`Nested`; a group of branches is the exception, because its number is that of its first Elif or Else, and `NoneWaitsForABranch` keeps it out of the pairs). So both `get_dependencies`
and `addImplicitDependencies` make a block wait for an older sibling only (`DependenciesGoBack`, `ImplicitGoBack`), and the oldest of a set of siblings waits for none of them. For the second of the
two it must be known which inputs a group passes on: `Left`, a recursive function along the dags, is defined and stays within the chain of items
(`LeftHolds`), and the producer of what is passed on is the producer of what some task below reads.

What tasks and blocks are given is followed from the value's home down to the reader. What a node reads is at home in a group above it, or the reader is `Apart` (`Reaches`, `ReadsReach`). A task below
some group needs for it a channel of the same origin, at least as deep (`Says`, `Spoken`: every task of a block needs what its condition reads, one that
reads the item of a loop needs the loop's list). The walk from the home to that task drops the item of a loop when it comes to a loop that leads to the item. Such
loops have items of different depths, and each is below the one whose item is its list (`Descends`), so what is left at a dag is given by the loops above the dag (`WalkDrops`, `WalkStops`), and this is the channel that was asked for, if
no loop above takes it away, which is what `Clear` says (`ClearAbove`). Hence every group in between passes it on (`PassedDown`, `RawPassedDown`, `Brought`), none of them but the home ends the way up to it (`WayUp`), and
the way up ends at the home (`ComesFromHome`).

`SpecMergeProofs` proves, for all names, any way of adding an index and any pair of specifications:

* `TypeCorrect`: `Spec => []TypeOK`;
* `EveryTaskKeepsItsComponent`: `Spec => []RefsAreKept`;
* `NothingOuterIsReplaced`: `Spec => []OuterIsKept`;
* `EveryComponentKeepsItsExecutor`: `Spec => []ExecutorsAreKept`.

`RefsAreKept` is about the end and needs the way there: `Naming`, old names are distinct, and a new name is neither taken in the
outer pipeline nor an old or new name of an earlier entry; `Renaming`, when k names are left every reference is the old name, if it is among the first k, and the new one
otherwise (names are replaced last first, and a new name may only be the old name of a later entry); `Copying`, what was copied is the renamed component. `SpecsAssumption` says that the inner pipeline
refers only to its own components, and that a configuration is that of an executor.

The type invariants of `RunLifecycle`, `RemoteJob` and `SpecMerge` are proved and not in a run.

Only model-checked: the liveness properties (`RunSettles`, `FinishedIsLabelled`, `ObsoleteIsCollected`, `EveryTriggerIsServed`, `PipelineReturns`, `ContainerEnds`,
`OutputsAreRecorded`), which need fairness.

## 5. Not modelled

* *Generated API clients* (`src/backend/api`, v1beta1 and v2beta1): openapi-generator's output, one method per call.
* *Builders of components and pipelines* (most of `src/components/google-cloud`: the AutoML, model evaluation and LLM
  pipelines, the component definitions): declarative Python without state, one function that returns a parameter map or a container specification.
* *SDK client and command line*: single calls, and a loop that polls a run. *ACK components*: a Kubernetes resource is
  created and its conditions polled.
* *Listing, filtering, conversion, validation, authentication, templates, frontend*: no protocol state. *Tasks, metrics and
  artifacts*: rows that are written once.

These parts are most of the repository's lines, which is why the models cover a small share of them. What
carries state, ordering or failure in Python is in the modules above; the parts of the Go backend that are still open are in the plan.

## 6. Plan

1. *Recurring runs in the API server*: CreateJob, ChangeJobMode, DeleteJob, the report
   of ScheduledWorkflows and ReconcileSwfCrs as a module over `jobs` and the CR; the
   jobs row follows the CR, a deleted job does not come back. Compose it with
   `ScheduledWorkflow`.
2. *Driver and launcher*: cache lookup and publication, the DAG's state under concurrent
   launchers, retries of a pod; against `DagRun`.
3. *Experiments*: archive and unarchive against concurrent creation of runs and jobs.
4. *v1 execution cache*: webhook against watcher. *Viewer controller*: the limit on
   viewers. *Plugin dispatcher*: several handlers, partial failure.
5. *SDK*: `dsl.OneOf` and item keys in `PipelineCompiler`; the execution cache of the local runner.
