----------------------------- MODULE RemoteJob -----------------------------
(***************************************************************************)
(* The components whose container only starts a job of a cloud service and  *)
(* waits for it: the launchers of the Google Cloud components              *)
(* (components/google-cloud/.../container) and the jobs of the AWS          *)
(* components (components/aws/sagemaker). The container may be preempted    *)
(* and started again, may be told to terminate, and loses answers of the    *)
(* service. What survives it is the service's jobs and, for Google Cloud,   *)
(* the gcp_resources file.                                                  *)
(*                                                                         *)
(* A launcher is a record of what its code does: whether it adopts the job  *)
(* that gcp_resources names, records its job there, waits for it, is given  *)
(* the job instead of creating one, what it makes of each state of the job, *)
(* of a lost answer and of SIGTERM. The records are in RemoteLaunchers.     *)
(***************************************************************************)
EXTENDS Integers, Sequences

CONSTANTS
  Launchers,     \* the launchers that are checked
  RetryLimit,    \* _CONNECTION_ERROR_RETRY_LIMIT
  MaxRestarts,   \* bound: how often the container is preempted
  MaxFaults      \* bound: how many calls of the service fail

LauncherRecords ==
  [cloud : {"gcp", "aws"}, adopts : BOOLEAN, records : BOOLEAN, polls : BOOLEAN, waits : BOOLEAN,
   asks : BOOLEAN, onlost : {"exit", "stale", "again"}, expires : BOOLEAN, outputs : BOOLEAN,
   known : BOOLEAN,
   judge : {"vertex", "operation", "dataflow", "status", "simulation", "training", "rlestimator"}]

(* What is adopted is what was recorded, a launcher that is given its job looks for no other, *)
(* and only the AWS components know a name beforehand.                                        *)
ASSUME LaunchersAssumption ==
  /\ Launchers \subseteq LauncherRecords
  /\ \A l \in Launchers :
       (l.adopts => l.records) /\ (l.waits => ~l.adopts) /\ (l.known => l.cloud = "aws")

ASSUME BoundsAssumption == RetryLimit \in Nat /\ MaxRestarts \in Nat /\ MaxFaults \in Nat

VARIABLES
  launcher,   \* the component that runs
  named,      \* the user gave the job's name (AWS: job_name)
  file,       \* gcp_resources: Absent, Empty or the job it names
  jobs,       \* the jobs of this task that the service holds, in the order of creation
  pc,         \* where the container is
  job,        \* the job the container knows of, 0 if none
  retry,      \* retry_count
  seen,       \* some poll of this container was answered
  exit,       \* how the container ended
  restarts, faults,   \* used up so far
  lost,       \* history: jobs whose creation the container never got to record
  sig         \* history: where SIGTERM found the container, "no" before, "unheard" if it was
              \* taken for a lost answer

container == <<pc, job, retry, seen, exit>>
vars == <<launcher, named, file, jobs, container, restarts, faults, lost, sig>>

Absent == 0
Empty == -1
JobIds == 1..Len(jobs)
JobStates == {"running", "succeeded", "failed", "cancelled", "paused", "expired"}
RuleStates == {"inprogress", "completed", "errored"}
Running == [state |-> "running", rules |-> "inprogress", stop |-> FALSE]

-----------------------------------------------------------------------------
(* What the code makes of a state of the job: "good", "bad", or "poll" once more *)

(* Mutant of VertexVerdict: PAUSED is missing from the error states. *)
VertexVerdictPaused(s) ==
  CASE s = "succeeded" -> "good" [] s \in {"failed", "cancelled"} -> "bad" [] OTHER -> "poll"

(* The state of a Vertex job; a state outside _JOB_COMPLETE_STATES is not final. *)
VertexVerdict(s) ==
  CASE s = "succeeded" -> "good" [] s \in {"failed", "cancelled", "paused"} -> "bad"
    [] OTHER -> "poll"

(* An operation that is done carries an error unless it succeeded; a BigQuery job carries *)
(* its errorResult.                                                                       *)
OperationVerdict(s) ==
  CASE s = "running" -> "poll" [] s = "succeeded" -> "good" [] OTHER -> "bad"

(* JOB_STATE_DONE, or one of the terminated states. *)
DataflowVerdict(s) ==
  CASE s = "succeeded" -> "good" [] s \in {"failed", "cancelled"} -> "bad" [] OTHER -> "poll"

StatusVerdict(s) ==
  CASE s = "succeeded" -> "good" [] s \in {"failed", "cancelled"} -> "bad" [] OTHER -> "poll"

(* RoboMaker: a cancelled simulation is completed, and an error only with a failure code. *)
SimulationVerdict(s) ==
  CASE s \in {"succeeded", "cancelled"} -> "good" [] s = "failed" -> "bad" [] OTHER -> "poll"

DebugRules(rules) ==
  CASE rules = "inprogress" -> "poll" [] rules = "errored" -> "bad" [] OTHER -> "good"

(* A training job that completed is judged by its debug rules; an RLEstimator's also when *)
(* it was stopped.                                                                        *)
TrainingVerdict(j) == IF j.state = "succeeded" THEN DebugRules(j.rules) ELSE StatusVerdict(j.state)
RLEstimatorVerdict(j) ==
  IF j.state \in {"succeeded", "cancelled"} THEN DebugRules(j.rules) ELSE StatusVerdict(j.state)

Verdict(j) ==
  CASE launcher.judge = "vertex"      -> VertexVerdict(j.state)
    [] launcher.judge = "operation"   -> OperationVerdict(j.state)
    [] launcher.judge = "dataflow"    -> DataflowVerdict(j.state)
    [] launcher.judge = "status"      -> StatusVerdict(j.state)
    [] launcher.judge = "simulation"  -> SimulationVerdict(j.state)
    [] launcher.judge = "training"    -> TrainingVerdict(j)
    [] launcher.judge = "rlestimator" -> RLEstimatorVerdict(j)

(* The final states the service may report for such a job. *)
Ends ==
  {"succeeded", "failed", "cancelled"} \cup (IF launcher.judge = "vertex" THEN {"paused"} ELSE {})
    \cup (IF launcher.expires THEN {"expired"} ELSE {})

-----------------------------------------------------------------------------
Init ==
  /\ launcher \in Launchers
  /\ named \in IF launcher.cloud = "aws" /\ launcher.known THEN BOOLEAN ELSE {FALSE}
  /\ jobs = IF launcher.waits THEN <<Running>> ELSE <<>>
  /\ file = Absent
  /\ pc = "check" /\ job = 0 /\ retry = 0 /\ seen = FALSE /\ exit = "none"
  /\ restarts = 0 /\ faults = 0
  /\ lost = {} /\ sig = "no"

Ended(how) == pc' = "done" /\ exit' = how /\ UNCHANGED <<job, retry, seen>>
Fault == faults < MaxFaults /\ faults' = faults + 1
At(phase) == pc = phase /\ UNCHANGED <<launcher, named, restarts, sig>>

(* Mutant of Adopted: whatever the file holds, a job is created. *)
AdoptedNever == FALSE

(* check_if_job_exists: the file is there and not empty. *)
Adopted == launcher.adopts /\ file \notin {Absent, Empty}

(* Mutant of CheckIfJobExists: the job that was found is recorded again. *)
CheckIfJobExistsRecords ==
  /\ At("check")
  /\ job' = IF launcher.waits THEN 1 ELSE IF Adopted THEN file ELSE 0
  /\ pc' = IF job' = 0 THEN "create" ELSE "created"
  /\ UNCHANGED <<exit, retry, seen, file, jobs, faults, lost>>

(* The job is given by the payload, looked up in gcp_resources, or to be created. The one  *)
(* of the payload is written to gcp_resources by every container, without looking there.   *)
CheckIfJobExists ==
  /\ At("check")
  /\ job' = IF launcher.waits THEN 1 ELSE IF Adopted THEN file ELSE 0
  /\ pc' = IF job' = 0 THEN "create"
           ELSE IF launcher.waits THEN "created"
           ELSE IF launcher.polls THEN "polling" ELSE "done"
  /\ exit' = IF pc' = "done" THEN "success" ELSE "none"
  /\ UNCHANGED <<retry, seen, file, jobs, faults, lost>>

(* Fetching the adopted operation fails. *)
AdoptFails ==
  /\ At("check") /\ launcher.asks /\ Adopted /\ Fault
  /\ Ended("failure")
  /\ UNCHANGED <<file, jobs, lost>>

(* The service has a job of that name already. *)
NameTaken == named /\ jobs # <<>>

CreateJob ==
  /\ At("create") /\ ~NameTaken
  /\ jobs' = Append(jobs, Running)
  /\ job' = Len(jobs')
  /\ pc' = "created"
  /\ UNCHANGED <<retry, seen, exit, file, faults, lost>>

(* The service refuses, or the request does not reach it. *)
CreateFails ==
  /\ At("create")
  /\ IF NameTaken THEN faults' = faults ELSE Fault
  /\ Ended("failure")
  /\ UNCHANGED <<file, jobs, lost>>

(* The job is created but the answer does not arrive. *)
CreateAnswerLost ==
  /\ At("create") /\ ~NameTaken /\ Fault
  /\ jobs' = Append(jobs, Running)
  /\ lost' = lost \cup {Len(jobs')}
  /\ Ended("failure")
  /\ UNCHANGED file

(* open(gcp_resources, 'w') truncates the file before it is written. *)
OpenFile ==
  /\ At("created") /\ launcher.records
  /\ file' = Empty
  /\ pc' = "opened"
  /\ UNCHANGED <<job, retry, seen, exit, jobs, faults, lost>>

WriteFile ==
  /\ At("opened")
  /\ file' = job
  /\ pc' = IF launcher.polls THEN "polling" ELSE "done"
  /\ exit' = IF launcher.polls THEN "none" ELSE "success"
  /\ UNCHANGED <<job, retry, seen, jobs, faults, lost>>

(* _after_submit_job_request of the AWS components. *)
AfterSubmit ==
  /\ At("created") /\ ~launcher.records
  /\ pc' = "polling"
  /\ UNCHANGED <<job, retry, seen, exit, file, jobs, faults, lost>>

(* Mutant of PollAnswered: anything that is not an error ends the wait. *)
PollAnsweredNotBad ==
  /\ At("polling")
  /\ pc' = IF Verdict(jobs[job]) # "bad" /\ launcher.outputs THEN "outputs" ELSE "done"
  /\ exit' = IF pc' # "done" THEN "none" ELSE IF Verdict(jobs[job]) = "bad" THEN "failure" ELSE "success"
  /\ retry' = 0 /\ seen' = TRUE
  /\ UNCHANGED <<job, file, jobs, faults, lost>>

(* One round of the poll loop that the service answers. *)
PollAnswered ==
  /\ At("polling")
  /\ LET v == Verdict(jobs[job])
     IN /\ pc' = CASE v = "poll" -> "polling"
                   [] v = "good" /\ launcher.outputs -> "outputs"
                   [] OTHER -> "done"
        /\ exit' = IF pc' # "done" THEN "none" ELSE IF v = "good" THEN "success" ELSE "failure"
  /\ retry' = 0 /\ seen' = TRUE
  /\ UNCHANGED <<job, file, jobs, faults, lost>>

(* A ConnectionError is counted (wait_gcp_resources): up to the limit the loop goes on with *)
(* the job of the last answer, and there must have been one.                               *)
CountsOn ==
  /\ launcher.onlost = "stale" /\ seen /\ retry < RetryLimit
  /\ retry' = retry + 1 /\ UNCHANGED <<pc, job, seen, exit>>

(* No answer, or one that is an error, ends the container, but for the ConnectionErrors     *)
(* that are counted and (BigQuery) an error in JSON, which has no status.                   *)
PollLost ==
  /\ At("polling") /\ Fault
  /\ CountsOn \/ (launcher.onlost = "again" /\ UNCHANGED container) \/ Ended("failure")
  /\ UNCHANGED <<file, jobs, lost>>

WriteOutputs ==
  /\ At("outputs")
  /\ Ended("success")
  /\ UNCHANGED <<file, jobs, faults, lost>>

OutputsFail ==
  /\ At("outputs") /\ Fault
  /\ Ended("failure")
  /\ UNCHANGED <<file, jobs, lost>>

-----------------------------------------------------------------------------
(* SIGTERM. ExecutionContext handles it while the container polls: the job is cancelled    *)
(* and the container exits with 0 ("cancelled"). The AWS components stop the job and go on polling.      *)

Stopped(j) == [jobs EXCEPT ![j].stop = TRUE]
Killed == pc' = "done" /\ exit' = "killed" /\ UNCHANGED <<job, retry, seen>>

Signal(phases) ==
  /\ sig = "no" /\ pc \in phases /\ sig' = pc
  /\ UNCHANGED <<launcher, named, file, restarts, lost>>

(* Mutant of SigtermWhilePolling: the container exits before it cancels the job. *)
SigtermWhilePollingExits ==
  /\ Signal({"polling"}) /\ launcher.cloud = "gcp"
  /\ jobs' = jobs /\ Ended("cancelled") /\ faults' = faults

SigtermWhilePolling ==
  /\ Signal({"polling"}) /\ launcher.cloud = "gcp"
  /\ jobs' = Stopped(job) /\ Ended("cancelled") /\ faults' = faults

(* on_cancel raises: the exception leaves the poll loop. *)
CancelFails ==
  /\ Signal({"polling"}) /\ launcher.cloud = "gcp" /\ Fault
  /\ Ended("failure") /\ jobs' = jobs

(* It raises a ConnectionError where wait_gcp_resources takes it for one of its own request. *)
CancelUnheard ==
  /\ sig = "no" /\ pc = "polling" /\ launcher.cloud = "gcp" /\ Fault
  /\ CountsOn /\ sig' = "unheard"
  /\ UNCHANGED <<launcher, named, file, jobs, restarts, lost>>

(* Without a handler the signal ends the process. *)
SigtermUnhandled ==
  /\ Signal(IF launcher.cloud = "aws" THEN {"check"}
            ELSE {"check", "create", "created", "opened", "outputs"})
  /\ Killed /\ UNCHANGED <<jobs, faults>>

(* The job that the AWS handler names: a name the component chose, which may be that of a  *)
(* job it started before it was preempted, or an ARN it was given by _after_submit.        *)
Target ==
  IF named /\ jobs # <<>> THEN 1
  ELSE IF launcher.known \/ pc \in {"polling", "outputs"} THEN job ELSE 0

Stoppable == Target # 0 /\ jobs[Target].state = "running"

(* The service refuses to stop a job that has ended or does not exist, and the exception   *)
(* leaves _do.                                                                             *)
SigtermStopsJob ==
  /\ Signal({"create", "created", "polling", "outputs"}) /\ launcher.cloud = "aws"
  /\ IF Stoppable THEN jobs' = Stopped(Target) /\ UNCHANGED container
     ELSE jobs' = jobs /\ Ended("failure")
  /\ faults' = faults

StopFails ==
  /\ Signal({"create", "created", "polling"}) /\ launcher.cloud = "aws" /\ Stoppable /\ Fault
  /\ Ended("failure") /\ jobs' = jobs

(* The grace period is over. *)
GraceEnds ==
  /\ sig # "no" /\ pc # "done"
  /\ Killed
  /\ UNCHANGED <<launcher, named, file, jobs, restarts, faults, lost, sig>>

-----------------------------------------------------------------------------
(* The environment: preemption and the service *)

(* The container is killed and started again: the file is kept, the rest is forgotten. *)
Preempted ==
  /\ pc # "done" /\ sig = "no" /\ restarts < MaxRestarts
  /\ restarts' = restarts + 1
  /\ lost' = lost \cup IF pc \in {"created", "opened"} /\ ~launcher.waits THEN {job} ELSE {}
  /\ pc' = "check" /\ job' = 0 /\ retry' = 0 /\ seen' = FALSE
  /\ UNCHANGED <<launcher, named, file, jobs, exit, faults, sig>>

Service == UNCHANGED <<launcher, named, file, container, restarts, faults, lost, sig>>

JobEnds(j) ==
  /\ jobs[j].state = "running"
  /\ \E s \in Ends : jobs' = [jobs EXCEPT ![j].state = s]
  /\ Service

DebugRulesEnd(j) ==
  /\ launcher.judge \in {"training", "rlestimator"}
  /\ jobs[j].state # "running" /\ jobs[j].rules = "inprogress"
  /\ \E r \in {"completed", "errored"} : jobs' = [jobs EXCEPT ![j].rules = r]
  /\ Service

Progress ==
  CheckIfJobExists \/ CreateJob \/ OpenFile \/ WriteFile \/ AfterSubmit \/ PollAnswered
    \/ WriteOutputs

Failing ==
  AdoptFails \/ CreateFails \/ CreateAnswerLost \/ PollLost \/ OutputsFail

Sigterm ==
  SigtermWhilePolling \/ CancelFails \/ CancelUnheard \/ SigtermUnhandled \/ SigtermStopsJob \/ StopFails
    \/ GraceEnds

Next ==
  \/ Progress \/ Failing \/ Sigterm \/ Preempted
  \/ \E j \in JobIds : JobEnds(j) \/ DebugRulesEnd(j)

Spec == Init /\ [][Next]_vars

(* The process runs on, a name clash is answered, and a job of the service ends some time. *)
FairSpec ==
  /\ Spec
  /\ WF_vars(Progress) /\ WF_vars(CreateFails /\ NameTaken)
  /\ \A j \in 1..(MaxRestarts + 2) :
       WF_vars(j \in JobIds /\ JobEnds(j)) /\ WF_vars(j \in JobIds /\ DebugRulesEnd(j))

-----------------------------------------------------------------------------
(* Every variable keeps its type, and a container that waits for a job waits for one that exists. *)
TypeOK ==
  /\ launcher \in Launchers /\ named \in BOOLEAN
  /\ jobs \in Seq([state : JobStates, rules : RuleStates, stop : BOOLEAN])
  /\ file \in {Absent, Empty} \cup JobIds
  /\ pc \in {"check", "create", "created", "opened", "polling", "outputs", "done"}
  /\ job \in 0..Len(jobs) /\ (pc \in {"created", "opened", "polling", "outputs"} => job # 0)
  /\ retry \in 0..RetryLimit /\ seen \in BOOLEAN
  /\ exit \in {"none", "success", "failure", "cancelled", "killed"}
  /\ (pc = "done") <=> (exit # "none")
  /\ restarts \in 0..MaxRestarts /\ faults \in 0..MaxFaults
  /\ lost \subseteq JobIds
  /\ sig \in {"no", "check", "create", "created", "opened", "polling", "outputs", "unheard"}

(* A container that reports success waited for a job that succeeded, and gcp_resources     *)
(* names that job for the components downstream, however often the container was           *)
(* preempted. (Exceptions the code states: launchers that do not wait, and a cancelled      *)
(* RLEstimator or RoboMaker job.)                                                          *)
SuccessIsReal ==
  exit = "success" =>
    /\ launcher.records => file = job
    /\ launcher.polls =>
         \/ jobs[job].state = "succeeded"
         \/ jobs[job].state = "cancelled" /\ launcher.judge \in {"simulation", "rlestimator"}

(* A preempted container that recorded its job takes it up again: a launcher with           *)
(* check_if_job_exists leaves at most one job that it knows of, and any other job is one    *)
(* whose creation it could not record.                                                      *)
NoSecondJob ==
  launcher.adopts => \A i, j \in JobIds \ lost : i = j

(* A component that is told to terminate while it waits (a SageMaker component: once its    *)
(* job is submitted) does not leave the job running unattended: it has asked the service    *)
(* to stop it, unless that request failed.                                                  *)
TerminationReachesTheJob ==
  ( /\ sig = "polling" \/ (sig = "created" /\ launcher.known)
    /\ exit # "failure" /\ jobs[job].state = "running" )
  => jobs[job].stop

(* A file that names a job is not touched by a launcher with check_if_job_exists, in         *)
(* whatever step it is preempted, told to terminate or fails. (wait_gcp_resources, which is  *)
(* given its job, opens the file for writing in every container.)                            *)
RecordedJobIsKept ==
  [][launcher.adopts /\ file \in JobIds => file' = file]_vars

(* The wait ends: once no more fault or preemption can happen the container exits, unless   *)
(* its job is in a state that is in none of the code's lists.                               *)
ContainerEnds == <>(pc = "done" \/ \E j \in JobIds : jobs[j].state = "expired")
=============================================================================
